------------------------------ MODULE Supervisor ------------------------------
(***************************************************************************)
(* The multi-tenant supervisor: one process that polls D1 for what the     *)
(* users and the admin console want and runs one engine subprocess per     *)
(* active user.                                                            *)
(*                                                                         *)
(* One poll is a sequence of D1 calls and subprocess calls; rows of D1 can *)
(* change between any two of them, engines die at any time, and any call   *)
(* may raise, which ends the poll.  A time unit is one poll interval.      *)
(*                                                                         *)
(* A configuration stands for everything the change hash covers: the       *)
(* dumped config.yaml (tier, strategies, exchange) and the live flag.  The *)
(* API keys are apart, since the hash does not cover them.                 *)
(***************************************************************************)
EXTENDS Integers, FiniteSets

CONSTANTS
  Users,
  Confs,
  Keys,        \* versions of a user's API keys
  Window,      \* _CRASH_WINDOW
  Limit,       \* _CRASH_LIMIT
  Base,        \* _CRASH_BACKOFF0
  MaxBackoff,  \* _CRASH_BACKOFF_MAX
  MaxSeq,      \* bound: restarts the admin console asks for
  MaxFaults,   \* bound: failed calls, deaths and shutdowns of the supervisor
  NoEntry      \* no entry of _procs

Entry == [conf : Confs, key : Keys, born : 0..MaxSeq, alive : BOOLEAN]

ASSUME ConstantsAssumption ==
  /\ {Window, Base, MaxBackoff} \subseteq Nat \ {0}
  /\ Base <= MaxBackoff
  /\ Limit \in Nat /\ Limit >= 2
  /\ {MaxSeq, MaxFaults} \subseteq Nat
  /\ NoEntry \notin Entry

VARIABLES
  (* rows of D1: the users' and the admin's wishes *)
  active,    \* bot_state.active, of users with linked keys
  conf,      \* what build_config and bot_state.live come to
  key,       \* exchange_credentials
  broken,    \* users whose keys or parameters cannot be decoded
  desired,   \* supervisor_control.desired_state
  seq,       \* supervisor_control.restart_seq
  (* the row the supervisor writes back *)
  shown,     \* supervisor_control.state and applied_restart_seq
  (* the supervisor process *)
  pc,
  snap,      \* the users active_users returned, with their configuration
  todo,      \* those the loop has still to visit
  procs,     \* _procs, with the state poll() would report
  exits,     \* _crash exits: how long ago each was noted
  hold,      \* time left until _crash until
  backoff,   \* _crash backoff
  applied,   \* _applied_restart_seq
  (* the operating system *)
  running,   \* engine processes of each user
  (* bookkeeping of the model *)
  faults,
  steady,    \* users whose rows have not changed since the poll began
  calm,      \* nor has the admin's
  respawned  \* how long ago dead engines were started again, within Window

rows    == <<active, conf, key, broken>>
control == <<desired, seq>>
cycle   == <<pc, snap, todo>>
crash   == <<exits, hold, backoff>>
vars == <<active, conf, key, broken, desired, seq, shown, pc, snap, todo,
          procs, exits, hold, backoff, applied, running, faults, steady, calm,
          respawned>>

Regimes == {"running", "paused"}

NoSnap == [u \in {} |-> NoEntry]

Least(a, b) == IF a <= b THEN a ELSE b

Active == {u \in Users : active[u]}

Alive(u) == procs[u] # NoEntry /\ procs[u].alive

\* Engines of u that _procs knows to be running.
Mine(u) == IF Alive(u) THEN 1 ELSE 0

Init ==
  /\ active \in [Users -> BOOLEAN] /\ conf \in [Users -> Confs]
  /\ key \in [Users -> Keys] /\ broken = {}
  /\ desired = "running" /\ seq = 0
  /\ shown = [state |-> "running", applied |-> 0]
  /\ pc = "down" /\ snap = NoSnap /\ todo = {}
  /\ procs = [u \in Users |-> NoEntry]
  /\ exits = [u \in Users |-> {}]
  /\ hold = [u \in Users |-> 0]
  /\ backoff = [u \in Users |-> Base]
  /\ applied = 0
  /\ running = [u \in Users |-> 0]
  /\ faults = 0 /\ steady = {} /\ calm = FALSE
  /\ respawned = [u \in Users |-> {}]

-----------------------------------------------------------------------------
(* Starting a poll *)

Start ==
  /\ pc = "down"
  /\ pc' = "read" /\ steady' = Users /\ calm' = TRUE
  /\ UNCHANGED <<rows, control, shown, snap, todo, procs, crash, applied,
                 running, faults, respawned>>

\* One unit later than an age a, as long as it is within the window.
Older(S) == {a \in 1..(Window - 1) : a - 1 \in S}

\* time.sleep(POLL).
Sleep ==
  /\ pc \in {"idle", "failed"}
  /\ pc' = "read" /\ steady' = Users /\ calm' = TRUE
  /\ exits' = [u \in Users |-> Older(exits[u])]
  /\ hold' = [u \in Users |-> IF hold[u] = 0 THEN 0 ELSE hold[u] - 1]
  /\ respawned' = [u \in Users |-> Older(respawned[u])]
  /\ UNCHANGED <<rows, control, shown, snap, todo, procs, backoff, applied,
                 running, faults>>

\* _stop_all.
StopAll ==
  /\ procs' = [u \in Users |-> NoEntry]
  /\ running' = [u \in Users |-> running[u] - Mine(u)]

\* Mutant: the restart is noted, the engines stay.
ReadControlNotes ==
  /\ pc = "read"
  /\ \/ /\ desired = "paused"
        /\ StopAll
        /\ pc' = "tellPaused"
        /\ UNCHANGED applied
     \/ /\ desired = "running"
        /\ applied' = seq
        /\ UNCHANGED <<procs, running>>
        /\ pc' = "users"
  /\ UNCHANGED <<rows, control, shown, snap, todo, crash, faults, steady,
                 calm, respawned>>

\* _tick up to its branch: paused, a new restart request, or neither.
ReadControl ==
  /\ pc = "read"
  /\ \/ /\ desired = "paused"
        /\ StopAll
        /\ pc' = "tellPaused"
        /\ UNCHANGED applied
     \/ /\ desired = "running"
        /\ applied' = seq
        /\ IF seq # applied THEN StopAll ELSE UNCHANGED <<procs, running>>
        /\ pc' = "users"
  /\ UNCHANGED <<rows, control, shown, snap, todo, crash, faults, steady,
                 calm, respawned>>

\* store.active_users, the first query: who is active, tier, keys, live flag.
ReadUsers ==
  /\ pc = "users"
  /\ snap' = [u \in Active |-> [conf |-> conf[u], key |-> key[u]]]
  /\ pc' = "strategies"
  /\ UNCHANGED <<rows, control, shown, todo, procs, crash, applied, running,
                 faults, steady, calm, respawned>>

\* Its second query, the strategies.  A configuration that changed between
\* the two may come out as a mixture of both.
ReadStrategies ==
  /\ pc = "strategies"
  /\ \E f \in [DOMAIN snap -> Confs] :
       /\ \A u \in DOMAIN snap : snap[u].conf = conf[u] => f[u] = conf[u]
       /\ snap' = [u \in DOMAIN snap |-> [conf |-> f[u], key |-> snap[u].key]]
  /\ todo' = DOMAIN snap /\ pc' = "manage"
  /\ DOMAIN snap \cap broken = {}
  /\ UNCHANGED <<rows, control, shown, procs, crash, applied, running, faults,
                 steady, calm, respawned>>

\* Every row is decoded before the first is used: one that cannot be raises
\* for all.
Undecodable ==
  /\ pc = "strategies" /\ DOMAIN snap \cap broken # {}
  /\ pc' = "failed" /\ snap' = NoSnap
  /\ UNCHANGED <<rows, control, shown, todo, procs, crash, applied, running,
                 faults, steady, calm, respawned>>

-----------------------------------------------------------------------------
(* _reconcile, one user of its loop *)

\* Mutant: the hash is not compared.
ChangedNever(u) == FALSE

Changed(u) == procs[u] # NoEntry /\ procs[u].conf # snap[u].conf

Dead(u) == procs[u] # NoEntry /\ ~Alive(u) /\ ~Changed(u)

Visit(u) ==
  /\ pc = "manage" /\ u \in todo
  /\ todo' = todo \ {u}
  /\ UNCHANGED <<rows, control, shown, pc, snap, applied, faults, steady, calm>>

\* Mutant: the old engine is not stopped first.
SpawnBeside(u) ==
  /\ procs' = [procs EXCEPT ![u] = [conf |-> snap[u].conf, key |-> snap[u].key,
                                    born |-> seq, alive |-> TRUE]]
  /\ running' = [running EXCEPT ![u] = @ + 1]

\* _stop and _spawn.
Spawn(u) ==
  /\ procs' = [procs EXCEPT ![u] = [conf |-> snap[u].conf, key |-> snap[u].key,
                                    born |-> seq, alive |-> TRUE]]
  /\ running' = [running EXCEPT ![u] = @ - Mine(u) + 1]

\* _crash_reset.
CrashReset(u) ==
  /\ exits' = [exits EXCEPT ![u] = {}]
  /\ hold' = [hold EXCEPT ![u] = 0]
  /\ backoff' = [backoff EXCEPT ![u] = Base]
  /\ respawned' = [respawned EXCEPT ![u] = {}]

\* The engine runs what its user wants.
Keep(u) ==
  /\ Visit(u)
  /\ Alive(u) /\ ~Changed(u)
  /\ UNCHANGED <<procs, crash, running, respawned>>

\* A first engine, or another configuration: the crash history is void.
Launch(u) ==
  /\ Visit(u)
  /\ \/ procs[u] = NoEntry /\ UNCHANGED <<crash, respawned>>
     \/ Changed(u) /\ CrashReset(u)
  /\ Spawn(u)

\* Mutant: the exits before this one are not counted.
NotedLast(u) == {0}

\* _crash_note_exit: the exits of the window, this one included.
Noted(u) == exits[u] \cup {0}

\* An exit short of the limit: start it again.
Respawn(u) ==
  /\ Visit(u)
  /\ Dead(u) /\ hold[u] = 0 /\ Cardinality(Noted(u)) < Limit
  /\ exits' = [exits EXCEPT ![u] = Noted(u)]
  /\ respawned' = [respawned EXCEPT ![u] = @ \cup {0}]
  /\ Spawn(u)
  /\ UNCHANGED <<hold, backoff>>

\* Mutant: the backoff is doubled without its cap.
TripUncapped(u) ==
  /\ Visit(u)
  /\ Dead(u) /\ hold[u] = 0 /\ Cardinality(Noted(u)) >= Limit
  /\ exits' = [exits EXCEPT ![u] = {}]
  /\ hold' = [hold EXCEPT ![u] = backoff[u]]
  /\ backoff' = [backoff EXCEPT ![u] = 2 * @]
  /\ UNCHANGED <<procs, running, respawned>>

\* The limit is reached: hold the respawn, twice as long the next time.
Trip(u) ==
  /\ Visit(u)
  /\ Dead(u) /\ hold[u] = 0 /\ Cardinality(Noted(u)) >= Limit
  /\ exits' = [exits EXCEPT ![u] = {}]
  /\ hold' = [hold EXCEPT ![u] = backoff[u]]
  /\ backoff' = [backoff EXCEPT ![u] = Least(2 * @, MaxBackoff)]
  /\ UNCHANGED <<procs, running, respawned>>

\* Mutant: the dead engine is counted again in every poll of its hold.
WaitCounts(u) ==
  /\ Visit(u)
  /\ Dead(u) /\ hold[u] > 0
  /\ hold' = [hold EXCEPT ![u] = backoff[u]]
  /\ UNCHANGED <<procs, exits, backoff, running, respawned>>

\* The hold lasts: leave the dead entry, do not count it again.
Wait(u) ==
  /\ Visit(u)
  /\ Dead(u) /\ hold[u] > 0
  /\ UNCHANGED <<procs, crash, running, respawned>>

Manage(u) == Keep(u) \/ Launch(u) \/ Respawn(u) \/ Trip(u) \/ Wait(u)

-----------------------------------------------------------------------------
(* The end of a poll *)

Unwanted == {u \in Users : procs[u] # NoEntry /\ u \notin DOMAIN snap}

\* The engines of users who were not among the active ones are stopped.
Cleanup ==
  /\ pc = "manage" /\ todo = {}
  /\ procs' = [u \in Users |-> IF u \in Unwanted THEN NoEntry ELSE procs[u]]
  /\ running' = [u \in Users |->
                   IF u \in Unwanted THEN running[u] - Mine(u) ELSE running[u]]
  /\ exits' = [u \in Users |-> IF u \in Unwanted THEN {} ELSE exits[u]]
  /\ hold' = [u \in Users |-> IF u \in Unwanted THEN 0 ELSE hold[u]]
  /\ backoff' = [u \in Users |-> IF u \in Unwanted THEN Base ELSE backoff[u]]
  /\ respawned' = [u \in Users |-> IF u \in Unwanted THEN {} ELSE respawned[u]]
  /\ pc' = "tellRunning" /\ snap' = NoSnap
  /\ UNCHANGED <<rows, control, shown, todo, applied, faults, steady, calm>>

\* store.write_status.
WriteStatus ==
  /\ pc \in {"tellRunning", "tellPaused"}
  /\ shown' = [state |-> IF pc = "tellPaused" THEN "paused" ELSE "running",
               applied |-> applied]
  /\ pc' = "idle"
  /\ UNCHANGED <<rows, control, snap, todo, procs, crash, applied, running,
                 faults, steady, calm, respawned>>

-----------------------------------------------------------------------------
(* Failures *)

Fault == faults < MaxFaults /\ faults' = faults + 1

\* A D1 call, build_config or write_config raises; main logs and sleeps.
PollFails ==
  /\ pc \in {"read", "users", "strategies", "manage", "tellRunning",
             "tellPaused"}
  /\ Fault
  /\ pc' = "failed" /\ snap' = NoSnap /\ todo' = {}
  /\ UNCHANGED <<rows, control, shown, procs, crash, applied, running, steady,
                 calm, respawned>>

\* Popen raises: a recycled engine is stopped by then and its entry stays, a
\* crashed one has had its exit noted.
SpawnFails(u) ==
  /\ pc = "manage" /\ u \in todo
  /\ Fault
  /\ \/ /\ Changed(u) /\ CrashReset(u)
        /\ procs' = [procs EXCEPT ![u].alive = FALSE]
        /\ running' = [running EXCEPT ![u] = @ - Mine(u)]
     \/ /\ Dead(u) /\ hold[u] = 0 /\ Cardinality(Noted(u)) < Limit
        /\ exits' = [exits EXCEPT ![u] = Noted(u)]
        /\ UNCHANGED <<procs, hold, backoff, running, respawned>>
  /\ pc' = "failed" /\ snap' = NoSnap /\ todo' = {}
  /\ UNCHANGED <<rows, control, shown, applied, steady, calm>>

\* The supervisor is shut down and stops its engines, or dies and its process
\* manager takes them down with it.
Crash ==
  /\ pc # "down"
  /\ Fault
  /\ pc' = "down" /\ snap' = NoSnap /\ todo' = {}
  /\ procs' = [u \in Users |-> NoEntry]
  /\ exits' = [u \in Users |-> {}] /\ hold' = [u \in Users |-> 0]
  /\ backoff' = [u \in Users |-> Base] /\ applied' = 0
  /\ running' = [u \in Users |-> running[u] - Mine(u)]
  /\ respawned' = [u \in Users |-> {}]
  /\ UNCHANGED <<rows, control, shown, steady, calm>>

\* An engine process ends: a crash, or its kill file.
Dies(u) ==
  /\ Alive(u)
  /\ running' = [running EXCEPT ![u] = @ - 1]
  /\ procs' = [procs EXCEPT ![u].alive = FALSE]
  /\ UNCHANGED <<rows, control, shown, cycle, crash, applied, faults, steady,
                 calm, respawned>>

-----------------------------------------------------------------------------
(* The web app and the admin console write to D1 *)

Edit(u) ==
  /\ steady' = steady \ {u}
  /\ UNCHANGED <<control, shown, cycle, procs, crash, applied, running, faults,
                 calm, respawned>>

\* setBotState, adminDisableBot.
SetActive(u) ==
  /\ active' = [active EXCEPT ![u] = ~@]
  /\ Edit(u) /\ UNCHANGED <<conf, key, broken>>

\* Strategies, tier, exchange or the live flag change.
SetConf(u) ==
  /\ \E c \in Confs \ {conf[u]} : conf' = [conf EXCEPT ![u] = c]
  /\ Edit(u) /\ UNCHANGED <<active, key, broken>>

\* saveCredentials on the same exchange.
SetKey(u) ==
  /\ \E k \in Keys \ {key[u]} : key' = [key EXCEPT ![u] = k]
  /\ Edit(u) /\ UNCHANGED <<active, conf, broken>>

\* A row stops decoding, or is repaired.
Break(u) ==
  /\ broken' = IF u \in broken THEN broken \ {u} ELSE broken \cup {u}
  /\ Edit(u) /\ UNCHANGED <<active, conf, key>>

Command ==
  /\ calm' = FALSE
  /\ UNCHANGED <<rows, shown, cycle, procs, crash, applied, running, faults,
                 steady, respawned>>

\* setSupervisorDesiredState.
SetRegime ==
  /\ \E d \in Regimes \ {desired} : desired' = d
  /\ Command /\ UNCHANGED seq

\* requestSupervisorRestart.
AskRestart ==
  /\ seq < MaxSeq
  /\ seq' = seq + 1 /\ desired' = "running"
  /\ Command

-----------------------------------------------------------------------------

Supervise ==
  \/ Start \/ Sleep \/ ReadControl
  \/ ReadUsers \/ ReadStrategies \/ Undecodable
  \/ \E u \in Users : Manage(u)
  \/ Cleanup \/ WriteStatus

Failure == PollFails \/ Crash \/ \E u \in Users : SpawnFails(u) \/ Dies(u)

Web ==
  \/ \E u \in Users : SetActive(u) \/ SetConf(u) \/ SetKey(u) \/ Break(u)
  \/ SetRegime \/ AskRestart

Next == Supervise \/ Failure \/ Web

Spec == Init /\ [][Next]_vars

\* The poll loop never ends, and the process manager starts it again.
FairSpec == Spec /\ WF_vars(Supervise)

-----------------------------------------------------------------------------
(* Properties *)

\* Types; the backoff stays between its base and its cap.
TypeOK ==
  /\ active \in [Users -> BOOLEAN]
  /\ conf \in [Users -> Confs]
  /\ key \in [Users -> Keys]
  /\ broken \subseteq Users
  /\ desired \in Regimes
  /\ seq \in 0..MaxSeq
  /\ shown \in [state : Regimes, applied : 0..MaxSeq]
  /\ pc \in {"down", "read", "users", "strategies", "manage", "tellRunning",
             "tellPaused", "idle", "failed"}
  /\ DOMAIN snap \subseteq Users
  /\ \A u \in DOMAIN snap : snap[u] \in [conf : Confs, key : Keys]
  /\ todo \subseteq DOMAIN snap
  /\ procs \in [Users -> Entry \cup {NoEntry}]
  /\ exits \in [Users -> SUBSET (0..(Window - 1))]
  /\ hold \in [Users -> 0..MaxBackoff]
  /\ backoff \in [Users -> Base..MaxBackoff]
  /\ applied \in 0..MaxSeq
  /\ running \in [Users -> Nat]
  /\ faults \in 0..MaxFaults
  /\ steady \subseteq Users
  /\ calm \in BOOLEAN
  /\ respawned \in [Users -> SUBSET (0..(Window - 1))]

\* A user never has two engines trading the same account and bot.db, through
\* recycles, crash restarts, pauses, failed polls and restarts of the
\* supervisor (supervisor.py, "one subprocess per active user").
OneEngine == \A u \in Users : running[u] <= 1

\* A poll that went through has obeyed everything that was in D1 when it
\* began: whatever was not changed meanwhile is now in force (worker README,
\* "All controls take effect on the next poll").
OnePoll ==
  pc = "idle" /\ calm =>
    \A u \in steady :
      IF desired = "paused" \/ ~active[u]
      THEN procs[u] = NoEntry
      ELSE procs[u] # NoEntry /\ procs[u].conf = conf[u]

\* Once the console shows a restart as applied, no engine from before the
\* request is left (worker README, "recycles every engine on the next poll").
RestartMeansNew ==
  \A u \in Users : Alive(u) => procs[u].born >= shown.applied

\* Respawns of a dead engine a window can hold: at most Limit - 1 in a row,
\* then a hold of at least Base.
Quota ==
  (Limit - 1) * ((Window + Limit - 1 + Base - 1) \div (Limit - 1 + Base))

\* An engine that keeps dying is not started over and over (supervisor.py,
\* "must not be respawned every 30s forever").
Throttled == \A u \in Users : Cardinality(respawned[u]) <= Quota

Serving(u) == active[u] /\ desired = "running" /\ Active \cap broken = {}

\* The configuration a user settles on is put in force again and again, even
\* if the engine keeps dying: no hold and no failed poll lasts for ever.
Applied ==
  \A u \in Users, c \in Confs :
    <>[](Serving(u) /\ conf[u] = c) => []<>(Alive(u) /\ procs[u].conf = c)

\* Documented: new API keys, saved in Account, let live trading resume
\* (supervisor.py:48-49).
KeysApplied ==
  \A u \in Users, k \in Keys :
    <>[](Serving(u) /\ key[u] = k) => []<>(Alive(u) => procs[u].key = k)
=============================================================================
