------------------------------ MODULE RateLimit ------------------------------
(***************************************************************************)
(* The fixed-window limiter in front of the public routes                  *)
(* (lib/rate-limit.ts): a bucket per key, counted up to a maximum until it *)
(* is reset, and a sweep of expired buckets when there are too many.  Keys *)
(* are the client addresses the proxy's headers name.  A burst is judged   *)
(* over any stretch of time, not over the limiter's own windows.           *)
(***************************************************************************)
EXTENDS Integers, Sequences, FiniteSets

CONSTANTS Keys,          \* clients
          MaxHits,       \* requests a window allows
          Window,        \* its length
          SweepAbove,    \* buckets kept before expired ones are swept
          MaxNow, MaxRequests   \* bounds

ASSUME LimitAssumption ==
  /\ MaxHits \in Nat \ {0} /\ Window \in Nat \ {0} /\ SweepAbove \in Nat
  /\ MaxNow \in Nat /\ MaxRequests \in Nat

VARIABLES now,
          buckets,   \* the map: a partial function of keys
          passed     \* per key, when the requests let through came

limitVars == <<now, buckets, passed>>

-----------------------------------------------------------------------------
Expired(k) == now >= buckets[k].reset

(* Mutant: every bucket is swept, a full one too.                          *)
AllSwept == IF Cardinality(DOMAIN buckets) > SweepAbove THEN {} ELSE DOMAIN buckets

(* Opportunistically, before a request is looked at.                       *)
Swept == IF Cardinality(DOMAIN buckets) > SweepAbove
         THEN {k \in DOMAIN buckets : ~Expired(k)} ELSE DOMAIN buckets

Keep(ks, k, b) == [j \in ks \cup {k} |-> IF j = k THEN b ELSE buckets[j]]

NewBucket(k) ==
  /\ k \in Swept => Expired(k)
  /\ buckets' = Keep(Swept, k, [count |-> 1, reset |-> now + Window])
  /\ passed' = [passed EXCEPT ![k] = Append(@, now)]

(* Mutant: the limit is compared after counting.                           *)
OneMore(k) == buckets[k].count > MaxHits
Full(k)    == buckets[k].count >= MaxHits

Counted(k) ==
  /\ k \in Swept /\ ~Expired(k) /\ ~Full(k)
  /\ buckets' = Keep(Swept, k, [buckets[k] EXCEPT !.count = @ + 1])
  /\ passed' = [passed EXCEPT ![k] = Append(@, now)]

Refused(k) ==
  /\ k \in Swept /\ ~Expired(k) /\ Full(k)
  /\ buckets' = [j \in Swept |-> buckets[j]]
  /\ UNCHANGED passed

rateLimit(k) ==
  /\ Len(passed[k]) < MaxRequests
  /\ NewBucket(k) \/ Counted(k) \/ Refused(k)
  /\ UNCHANGED now

TimePassed == now < MaxNow /\ now' = now + 1 /\ UNCHANGED <<buckets, passed>>

LimitInit == now = 0 /\ buckets = <<>> /\ passed = [k \in Keys |-> <<>>]
LimitNext == TimePassed \/ \E k \in Keys : rateLimit(k)
LimitSpec == LimitInit /\ [][LimitNext]_limitVars

-----------------------------------------------------------------------------
LimitTypeOK ==
  /\ now \in Nat
  /\ DOMAIN buckets \subseteq Keys
  /\ \A k \in DOMAIN buckets : buckets[k].count \in 1 .. MaxHits /\ buckets[k].reset \in Nat
  /\ passed \in [Keys -> Seq(Nat)]

(* A flood is blunted: over any stretch of one window, wherever it starts, *)
(* no more than two windows' worth of one client's requests pass, however  *)
(* the map is swept in between.                                            *)
Burst ==
  \A k \in Keys : \A i, j \in DOMAIN passed[k] :
    i + 2 * MaxHits <= j => passed[k][j] >= passed[k][i] + Window
=============================================================================
