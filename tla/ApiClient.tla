------------------------------ MODULE ApiClient ------------------------------
(***************************************************************************)
(* Every call an engine makes to its exchange, as client.py and            *)
(* binance_client.py issue it: one thread, one token bucket for all calls, *)
(* a circuit breaker for the public GETs, which retry_idempotent repeats,  *)
(* and another for the signed calls, which are never repeated.             *)
(*                                                                         *)
(* Time is counted in units of one token's refill.  The clock readings the *)
(* code subtracts are kept as ages, so time itself needs no bound: an age  *)
(* stops at the largest cooldown, beyond which no comparison changes.      *)
(***************************************************************************)
EXTENDS Integers

CONSTANTS
  Threshold,    \* failures in a row that open the circuit
  Base,         \* first cooldown
  MaxCooldown,  \* cap of the doubled cooldown
  Capacity,     \* burst size of the token bucket
  Attempts      \* tries of one public GET

ASSUME ApiAssumption ==
  /\ {Threshold, Base, MaxCooldown, Capacity, Attempts} \subseteq Nat \ {0}
  /\ Base <= MaxCooldown

\* _pub_breaker and _api_breaker.
Breakers == {"public", "signed"}

VARIABLES
  (* each CircuitBreaker *)
  state,     \* closed, open or half_open
  failures,  \* consecutive failures, up to Threshold
  cooldown,
  age,       \* time since _opened_at
  wasOpen,
  (* the TokenBucket *)
  tokens,
  (* the calling thread *)
  stage,
  cur,       \* the breaker of the call in progress
  try,       \* its attempt number
  (* the exchange *)
  up,        \* it answers the calls behind each breaker
  (* bookkeeping of the model *)
  streak,    \* failures since a success, up to where the backoff is capped
  quiet,     \* time since the last failure
  alerts     \* "open" alerts sent minus "closed" alerts sent

breaker == <<state, failures, cooldown, age, wasOpen>>
thread  == <<stage, cur, try>>
ghosts  == <<streak, quiet, alerts>>
apiVars == <<state, failures, cooldown, age, wasOpen, tokens, stage, cur, try,
             up, streak, quiet, alerts>>

Least(a, b) == IF a <= b THEN a ELSE b

MaxStreak == Threshold + MaxCooldown

ApiInit ==
  /\ state = [b \in Breakers |-> "closed"]
  /\ failures = [b \in Breakers |-> 0]
  /\ cooldown = [b \in Breakers |-> Base]
  /\ age = [b \in Breakers |-> 0]
  /\ wasOpen = [b \in Breakers |-> FALSE]
  /\ tokens = Capacity
  /\ stage = "idle" /\ cur = "public" /\ try = 1
  /\ up \in [Breakers -> BOOLEAN]
  /\ streak = [b \in Breakers |-> 0]
  /\ quiet = [b \in Breakers |-> MaxCooldown]
  /\ alerts = [b \in Breakers |-> 0]

-----------------------------------------------------------------------------
(* CircuitBreaker *)

\* Mutant: only the first call after a cooldown is let through.
AllowedOnce(b) ==
  \/ state[b] = "closed"
  \/ state[b] = "open" /\ age[b] >= cooldown[b]

\* allow(), the answer True: closed, or the cooldown is over, or half open
\* already.
Allowed(b) ==
  \/ state[b] \in {"closed", "half_open"}
  \/ state[b] = "open" /\ age[b] >= cooldown[b]

AllowCall(b) ==
  /\ Allowed(b)
  /\ state' = [state EXCEPT ![b] = IF @ = "open" THEN "half_open" ELSE @]
  /\ UNCHANGED <<failures, cooldown, age, wasOpen, streak, quiet, alerts>>

\* record_success: closes from any state; on_close once per outage.
RecordSuccess(b) ==
  /\ failures' = [failures EXCEPT ![b] = 0]
  /\ state' = [state EXCEPT ![b] = "closed"]
  /\ cooldown' = [cooldown EXCEPT ![b] = Base]
  /\ wasOpen' = [wasOpen EXCEPT ![b] = FALSE]
  /\ alerts' = [alerts EXCEPT ![b] = IF wasOpen[b] THEN @ - 1 ELSE @]
  /\ streak' = [streak EXCEPT ![b] = 0]
  /\ UNCHANGED <<age, quiet>>

\* record_failure: a failed probe opens the circuit again for twice as long;
\* on_open only when it opens from closed.
Reopens(b) == state[b] = "half_open"

\* Mutant: a failed probe counts as an opening too.
OpensAnyState(b) == failures[b] + 1 >= Threshold

Opens(b) == state[b] = "closed" /\ failures[b] + 1 >= Threshold

\* Mutant: the doubled cooldown has no cap.
DoubledUncapped(b) == 2 * cooldown[b]

Doubled(b) == Least(2 * cooldown[b], MaxCooldown)

RecordFailure(b) ==
  /\ failures' = [failures EXCEPT ![b] = Least(Threshold, @ + 1)]
  /\ state' = [state EXCEPT ![b] = IF Reopens(b) \/ Opens(b) THEN "open" ELSE @]
  /\ age' = [age EXCEPT ![b] = IF Reopens(b) \/ Opens(b) THEN 0 ELSE @]
  /\ cooldown' = [cooldown EXCEPT ![b] =
                    IF Reopens(b) THEN Doubled(b)
                    ELSE IF Opens(b) THEN Base ELSE @]
  /\ wasOpen' = [wasOpen EXCEPT ![b] = @ \/ Opens(b)]
  /\ alerts' = [alerts EXCEPT ![b] = IF Opens(b) THEN @ + 1 ELSE @]
  /\ streak' = [streak EXCEPT ![b] = Least(MaxStreak, @ + 1)]
  /\ quiet' = [quiet EXCEPT ![b] = 0]

-----------------------------------------------------------------------------
(* The thread *)

\* The engine makes its next call: _get, or _signed.
Call(b) ==
  /\ stage = "idle"
  /\ stage' = "asking" /\ cur' = b /\ try' = 1
  /\ UNCHANGED <<breaker, tokens, up, ghosts>>

\* before_call lets the attempt through ...
Admit ==
  /\ stage = "asking"
  /\ AllowCall(cur)
  /\ stage' = "acquire"
  /\ UNCHANGED <<tokens, cur, try, up>>

\* ... or raises CircuitOpen, out of the retry loop too.
FailFast ==
  /\ stage = "asking" /\ ~Allowed(cur)
  /\ stage' = "idle"
  /\ UNCHANGED <<breaker, tokens, cur, try, up, ghosts>>

\* TokenBucket.acquire, asleep while the bucket is empty.  It would give up
\* only if one token took longer than max_wait; to the callers that is one
\* more transient failure.
Acquire ==
  /\ stage = "acquire" /\ tokens >= 1
  /\ tokens' = tokens - 1
  /\ stage' = "sent"
  /\ UNCHANGED <<breaker, cur, try, up, ghosts>>

\* An answer, including 4xx: the exchange is healthy.
Answered ==
  /\ stage = "sent"
  /\ RecordSuccess(cur)
  /\ stage' = "idle"
  /\ UNCHANGED <<tokens, cur, try, up>>

\* A timeout, a lost connection, 429 or 5xx.  A GET sleeps and tries again
\* while it has attempts left; a signed call raises.
Transient ==
  /\ stage = "sent" /\ ~up[cur]
  /\ RecordFailure(cur)
  /\ stage' = IF cur = "public" /\ try < Attempts THEN "backoff" ELSE "idle"
  /\ UNCHANGED <<tokens, cur, try, up>>

\* Any other exception (a broken body, too many redirects) passes through
\* both wrappers and records nothing.
Escapes ==
  /\ stage = "sent" /\ ~up[cur]
  /\ stage' = "idle"
  /\ UNCHANGED <<breaker, tokens, cur, try, up, ghosts>>

\* Mutant: a retry does not ask the breaker.
RetryUnasked ==
  /\ stage = "backoff"
  /\ stage' = "acquire" /\ try' = try + 1
  /\ UNCHANGED <<breaker, tokens, cur, up, ghosts>>

\* The jittered backoff is over; the breaker is asked again.
Retry ==
  /\ stage = "backoff"
  /\ stage' = "asking" /\ try' = try + 1
  /\ UNCHANGED <<breaker, tokens, cur, up, ghosts>>

-----------------------------------------------------------------------------
(* Time and the exchange: external *)

Tick ==
  /\ tokens' = Least(Capacity, tokens + 1)
  /\ age' = [b \in Breakers |-> Least(MaxCooldown, age[b] + 1)]
  /\ quiet' = [b \in Breakers |-> Least(MaxCooldown, quiet[b] + 1)]
  /\ UNCHANGED <<state, failures, cooldown, wasOpen, thread, up, streak,
                 alerts>>

Turn(b) ==
  /\ up' = [up EXCEPT ![b] = ~@]
  /\ UNCHANGED <<breaker, tokens, thread, ghosts>>

-----------------------------------------------------------------------------

Step == Admit \/ FailFast \/ Acquire \/ Answered \/ Transient \/ Escapes \/ Retry

ApiNext ==
  \/ Step
  \/ \E b \in Breakers : Call(b) \/ Turn(b)
  \/ Tick

ApiSpec == ApiInit /\ [][ApiNext]_apiVars

\* Time passes and a call in progress goes on.  That the engine makes another call
\* is not assumed: what its strategies answer decides whether it signs any.
ApiFairSpec ==
  /\ ApiSpec
  /\ WF_apiVars(Tick) /\ WF_apiVars(Step)

-----------------------------------------------------------------------------
(* Properties *)

\* Types; the cooldown stays between its base and its cap.
ApiTypeOK ==
  /\ state \in [Breakers -> {"closed", "open", "half_open"}]
  /\ failures \in [Breakers -> 0..Threshold]
  /\ cooldown \in [Breakers -> Base..MaxCooldown]
  /\ age \in [Breakers -> 0..MaxCooldown]
  /\ wasOpen \in [Breakers -> BOOLEAN]
  /\ tokens \in 0..Capacity
  /\ stage \in {"idle", "asking", "acquire", "sent", "backoff"}
  /\ cur \in Breakers
  /\ try \in 1..Attempts
  /\ up \in [Breakers -> BOOLEAN]
  /\ streak \in [Breakers -> 0..MaxStreak]
  /\ quiet \in [Breakers -> 0..MaxCooldown]
  /\ alerts \in [Breakers -> Int]

\* 2 to the power k, in the form the proofs can unfold.
PowerOfTwo[k \in Nat] == IF k = 0 THEN 1 ELSE 2 * PowerOfTwo[k - 1]

\* The pause a failing exchange is due after n failures in a row.
Pause(n) ==
  IF n < Threshold THEN 0
  ELSE Least(MaxCooldown, Base * PowerOfTwo[n - Threshold])

\* A struggling exchange is left alone: after n failures in a row no request
\* goes to it, as a retry or as a new call, before the pause for n is over,
\* and the pause doubles with every failed probe up to the cap (client.py,
\* "probe with exponential backoff instead of hammering a struggling API").
Paced ==
  stage \in {"acquire", "sent"} => quiet[cur] >= Pause(streak[cur])

\* One outage, one pair of alerts: the operator has been told "open" exactly
\* once while the circuit is not closed, and nothing is outstanding when it
\* is (reliability.py, "fire once per transition").
AlertedOnce ==
  \A b \in Breakers : alerts[b] = IF state[b] = "closed" THEN 0 ELSE 1

\* An outage ends with the calls that are made: when the exchange answers again for
\* good, the circuit closes for good, unless the calls behind it cease (an engine that
\* only holds signs none).  No failed, lost or unanswered probe leaves a breaker that
\* goes on refusing the calls it is asked for (reliability.py allow, record_failure).
Recovers ==
  \A b \in Breakers :
    <>[]up[b] /\ []<><<Call(b)>>_apiVars => <>[](state[b] = "closed")
=============================================================================
