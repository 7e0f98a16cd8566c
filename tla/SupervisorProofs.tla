--------------------------- MODULE SupervisorProofs ---------------------------
(***************************************************************************)
(* What the supervisor keeps to for every number of users, configurations, *)
(* restarts and faults: it is well typed, no user has two engines, a poll  *)
(* that went through has put the rows it found in force, and a restart     *)
(* shown as applied leaves no engine from before it.                       *)
(***************************************************************************)
EXTENDS Supervisor, Recursion

(* The types of the variables in three groups: what D1 holds, what the poll *)
(* has in hand, what is known of the engines.                               *)

RowsOK ==
  /\ active \in [Users -> BOOLEAN]
  /\ conf \in [Users -> Confs]
  /\ key \in [Users -> Keys]
  /\ broken \subseteq Users
  /\ desired \in Regimes
  /\ seq \in 0..MaxSeq
  /\ shown \in [state : Regimes, applied : 0..MaxSeq]
  /\ faults \in 0..MaxFaults
  /\ steady \subseteq Users
  /\ calm \in BOOLEAN

PollOK ==
  /\ pc \in {"down", "read", "users", "strategies", "manage", "tellRunning",
             "tellPaused", "idle", "failed"}
  /\ DOMAIN snap \subseteq Users
  /\ \A u \in DOMAIN snap : snap[u] \in [conf : Confs, key : Keys]
  /\ todo \subseteq DOMAIN snap
  /\ pc # "manage" => todo = {}

EnginesOK ==
  /\ procs \in [Users -> Entry \cup {NoEntry}]
  /\ applied \in 0..MaxSeq
  /\ running \in [Users -> Nat]

CrashOK ==
  /\ exits \in [Users -> SUBSET (0..(Window - 1))]
  /\ hold \in [Users -> 0..MaxBackoff]
  /\ backoff \in [Users -> Base..MaxBackoff]
  /\ respawned \in [Users -> SUBSET (0..(Window - 1))]

\* The operating system runs exactly the engines _procs believes alive.
Owned == \A u \in Users : running[u] = Mine(u)

\* The assumption on the constants, one constant at a time.
LEMMA ConstantTypes ==
  /\ Window \in Nat \ {0} /\ Base \in Nat \ {0} /\ MaxBackoff \in Nat \ {0}
  /\ Base <= MaxBackoff /\ Limit \in Nat
  /\ MaxSeq \in Nat /\ MaxFaults \in Nat
<1>1. \A S : {Window, Base, MaxBackoff} \subseteq S =>
         Window \in S /\ Base \in S /\ MaxBackoff \in S
  OBVIOUS
<1>2. \A S : {MaxSeq, MaxFaults} \subseteq S => MaxSeq \in S /\ MaxFaults \in S
  OBVIOUS
<1> QED
  BY <1>1, <1>2, ConstantsAssumption

\* The absent entry is none of the entries.
LEMMA NoEntryApart == NoEntry \notin Entry
  BY ConstantsAssumption

\* The four groups make up the type invariant.
LEMMA TypeParts == RowsOK /\ PollOK /\ EnginesOK /\ CrashOK => TypeOK
  BY DEF TypeOK, RowsOK, PollOK, EnginesOK, CrashOK

-----------------------------------------------------------------------------
(* One step at a time, part by part *)

\* Nothing runs and no row is in hand at the start.
LEMMA InitType == Init => RowsOK /\ PollOK /\ EnginesOK /\ CrashOK
<1> SUFFICES ASSUME Init PROVE RowsOK /\ PollOK /\ EnginesOK /\ CrashOK
  OBVIOUS
<1> USE ConstantTypes
<1>1. RowsOK
  <2>1. active \in [Users -> BOOLEAN] /\ conf \in [Users -> Confs]
        /\ key \in [Users -> Keys] /\ broken \subseteq Users
        /\ steady \subseteq Users /\ calm \in BOOLEAN
    BY DEF Init
  <2>2. seq \in 0..MaxSeq /\ faults \in 0..MaxFaults
    BY DEF Init
  <2>3. desired \in Regimes /\ shown \in [state : Regimes, applied : 0..MaxSeq]
    BY DEF Init, Regimes
  <2> QED
    BY <2>1, <2>2, <2>3 DEF RowsOK
<1>2. PollOK
  BY DEF Init, PollOK, NoSnap
<1>3. EnginesOK
  BY DEF Init, EnginesOK
<1>4. CrashOK
  BY DEF Init, CrashOK
<1> QED
  BY <1>1, <1>2, <1>3, <1>4

\* Supervise and Failure change no row of the users or the admin.
LEMMA RowsStep ==
  ASSUME RowsOK, EnginesOK, [Next]_vars
  PROVE  RowsOK'
<1> USE ConstantTypes
<1> USE DEF RowsOK
<1>1. CASE Supervise
  <2>1. UNCHANGED <<rows, control, faults>>
    BY <1>1 DEF Supervise, Start, Sleep, ReadControl, ReadUsers,
       ReadStrategies, Undecodable, Manage, Keep, Launch, Respawn, Trip, Wait,
       Visit, Cleanup, WriteStatus, rows, control
  <2>2. steady' \subseteq Users /\ calm' \in BOOLEAN
    BY <1>1 DEF Supervise, Start, Sleep, ReadControl, ReadUsers,
       ReadStrategies, Undecodable, Manage, Keep, Launch, Respawn, Trip, Wait,
       Visit, Cleanup, WriteStatus
  <2>3. shown' \in [state : Regimes, applied : 0..MaxSeq]
    BY <1>1 DEF Supervise, Start, Sleep, ReadControl, ReadUsers,
       ReadStrategies, Undecodable, Manage, Keep, Launch, Respawn, Trip, Wait,
       Visit, Cleanup, WriteStatus, EnginesOK, Regimes
  <2> QED
    BY <2>1, <2>2, <2>3 DEF rows, control
<1>2. CASE Failure
  <2>1. UNCHANGED <<rows, control, shown, steady, calm>>
    BY <1>2 DEF Failure, PollFails, Crash, SpawnFails, Dies
  <2>2. faults' \in 0..MaxFaults
    BY <1>2 DEF Failure, PollFails, Crash, SpawnFails, Dies, Fault
  <2> QED
    BY <2>1, <2>2 DEF rows, control
<1>3. CASE Web
  <2>1. ASSUME NEW u \in Users,
               SetActive(u) \/ SetConf(u) \/ SetKey(u) \/ Break(u)
        PROVE  RowsOK'
    BY ZenonT(60), <2>1 DEF SetActive, SetConf, SetKey, Break, Edit, control
  <2>2. CASE SetRegime \/ AskRestart
    <3>1. UNCHANGED <<rows, shown, faults, steady>> /\ calm' = FALSE
      BY <2>2 DEF SetRegime, AskRestart, Command
    <3>2. seq' \in 0..MaxSeq
      BY <2>2 DEF SetRegime, AskRestart
    <3>3. desired' \in Regimes
      BY <2>2 DEF SetRegime, AskRestart, Regimes
    <3> QED
      BY <3>1, <3>2, <3>3 DEF rows
  <2> QED
    BY <1>3, <2>1, <2>2 DEF Web
<1>4. CASE UNCHANGED vars
  BY <1>4 DEF vars, rows, control
<1> QED
  BY <1>1, <1>2, <1>3, <1>4 DEF Next

\* The poll keeps the rows it has read and the users still to visit.
LEMMA PollStep ==
  ASSUME RowsOK, PollOK, [Next]_vars
  PROVE  PollOK'
<1> USE DEF PollOK
<1>1. CASE Supervise
  <2>1. CASE ReadUsers
    <3>1. /\ snap' = [u \in Active |-> [conf |-> conf[u], key |-> key[u]]]
          /\ pc = "users" /\ pc' = "strategies" /\ UNCHANGED todo
      BY <2>1 DEF ReadUsers
    <3> QED
      BY <3>1 DEF RowsOK, Active
  <2>2. CASE ReadStrategies
    <3>1. PICK f \in [DOMAIN snap -> Confs] :
             snap' = [u \in DOMAIN snap |-> [conf |-> f[u], key |-> snap[u].key]]
      BY <2>2 DEF ReadStrategies
    <3> QED
      BY <2>2, <3>1 DEF ReadStrategies
  <2>3. CASE \E u \in Users : Manage(u)
    <3>1. UNCHANGED <<pc, snap>> /\ pc = "manage" /\ todo' \subseteq todo
      BY <2>3 DEF Manage, Keep, Launch, Respawn, Trip, Wait, Visit
    <3> QED
      BY <3>1
  <2>4. CASE Start \/ Sleep \/ ReadControl \/ WriteStatus
    <3>1. UNCHANGED <<snap, todo>>
          /\ pc # "manage" /\ pc' \in {"read", "tellPaused", "users", "idle"}
      BY <2>4 DEF Start, Sleep, ReadControl, WriteStatus
    <3> QED
      BY <3>1
  <2>5. CASE Undecodable \/ Cleanup
    <3>1. snap' = NoSnap /\ todo = {} /\ UNCHANGED todo
          /\ pc' \in {"failed", "tellRunning"}
      BY <2>5 DEF Undecodable, Cleanup
    <3> QED
      BY <3>1 DEF NoSnap
  <2> QED
    BY <1>1, <2>1, <2>2, <2>3, <2>4, <2>5 DEF Supervise
<1>2. CASE Failure
  <2>1. UNCHANGED cycle \/ (snap' = NoSnap /\ todo' = {} /\ pc' \in {"failed", "down"})
    BY <1>2 DEF Failure, PollFails, Crash, SpawnFails, Dies
  <2> QED
    BY <2>1 DEF cycle, NoSnap
<1>3. CASE Web
  BY <1>3 DEF Web, SetActive, SetConf, SetKey, Break, Edit, SetRegime,
     AskRestart, Command, cycle
<1>4. CASE UNCHANGED vars
  BY <1>4 DEF vars
<1> QED
  BY <1>1, <1>2, <1>3, <1>4 DEF Next

\* What happens to the engines of one user: nothing, a start beside none or
\* after a stop, or an end.
Same(u) == procs'[u] = procs[u] /\ running'[u] = running[u]

Started(u) ==
  /\ procs'[u] = [conf |-> snap[u].conf, key |-> snap[u].key, born |-> seq,
                  alive |-> TRUE]
  /\ running'[u] = running[u] - Mine(u) + 1

Forgotten(u) == procs'[u] = NoEntry /\ running'[u] = running[u] - Mine(u)

Ended(u) ==
  /\ procs[u] # NoEntry
  /\ procs'[u] = [procs[u] EXCEPT !.alive = FALSE]
  /\ running'[u] = running[u] - Mine(u)

Fate(u) ==
  \/ Same(u)
  \/ Started(u) /\ u \in todo
  \/ Forgotten(u)
  \/ Ended(u)

AreFunctions ==
  /\ procs' = [u \in Users |-> procs'[u]]
  /\ running' = [u \in Users |-> running'[u]]

\* Every step does one of four things to the engines of a user.
LEMMA Fates ==
  ASSUME RowsOK, PollOK, EnginesOK, Owned, [Next]_vars
  PROVE  AreFunctions /\ \A u \in Users : Fate(u)
<1>1. CASE UNCHANGED <<procs, running>>
  BY <1>1 DEF Fate, Same, EnginesOK, AreFunctions
<1>2. CASE StopAll
  BY <1>2 DEF StopAll, Fate, Forgotten, AreFunctions
<1>3. CASE Cleanup
  BY <1>3 DEF Cleanup, Fate, Forgotten, Same, AreFunctions
<1>4. ASSUME NEW v \in todo, Spawn(v)
      PROVE  AreFunctions /\ \A u \in Users : Fate(u)
  BY <1>4 DEF Spawn, PollOK, EnginesOK, Fate, Started, Same, AreFunctions
<1>5. ASSUME NEW v \in Users,
             procs[v] # NoEntry,
             procs' = [procs EXCEPT ![v].alive = FALSE],
             running' = [running EXCEPT ![v] = @ - Mine(v)]
      PROVE  AreFunctions /\ \A u \in Users : Fate(u)
  BY <1>5 DEF EnginesOK, Fate, Ended, Same, AreFunctions
<1>6. CASE Supervise
  <2>1. CASE Start \/ Sleep \/ ReadUsers \/ ReadStrategies \/ Undecodable \/ WriteStatus
    BY <2>1, <1>1 DEF Start, Sleep, ReadUsers, ReadStrategies, Undecodable,
       WriteStatus
  <2>2. CASE ReadControl
    BY <2>2, <1>1, <1>2 DEF ReadControl
  <2>3. ASSUME NEW v \in Users, Manage(v)
        PROVE  AreFunctions /\ \A u \in Users : Fate(u)
    <3>1. CASE Keep(v) \/ Trip(v) \/ Wait(v)
      BY <3>1, <1>1 DEF Keep, Trip, Wait
    <3>2. CASE Launch(v) \/ Respawn(v)
      BY <3>2, <1>4 DEF Launch, Respawn, Visit
    <3> QED
      BY <2>3, <3>1, <3>2 DEF Manage
  <2> QED
    BY <1>6, <1>3, <2>1, <2>2, <2>3 DEF Supervise
<1>7. CASE Failure
  <2>1. CASE PollFails
    BY <2>1, <1>1 DEF PollFails
  <2>2. CASE Crash
    BY <2>2, <1>2 DEF Crash, StopAll
  <2>3. ASSUME NEW v \in Users, SpawnFails(v)
        PROVE  AreFunctions /\ \A u \in Users : Fate(u)
    BY <2>3, <1>1, <1>5 DEF SpawnFails, Changed
  <2>4. ASSUME NEW v \in Users, Dies(v)
        PROVE  AreFunctions /\ \A u \in Users : Fate(u)
    BY <2>4, <1>5 DEF Dies, Alive, Mine
  <2> QED
    BY <1>7, <2>1, <2>2, <2>3, <2>4 DEF Failure
<1>8. CASE Web
  BY <1>8, <1>1 DEF Web, SetActive, SetConf, SetKey, Break, Edit, SetRegime,
     AskRestart, Command
<1>9. CASE UNCHANGED vars
  BY <1>9, <1>1 DEF vars
<1> QED
  BY <1>6, <1>7, <1>8, <1>9 DEF Next

\* Entries and processes keep their types and agree.
LEMMA EnginesStep ==
  ASSUME RowsOK, PollOK, EnginesOK, Owned, [Next]_vars
  PROVE  EnginesOK' /\ Owned'
<1>1. AreFunctions /\ \A u \in Users : Fate(u)
  BY Fates
<1>2. ASSUME NEW u \in Users
      PROVE  /\ procs'[u] \in Entry \cup {NoEntry}
             /\ running'[u] = Mine(u)'
  <2>1. CASE Same(u)
    <3>1. procs'[u] \in Entry \cup {NoEntry} /\ procs'[u] = procs[u]
          /\ running'[u] = running[u]
      BY <2>1 DEF Same, EnginesOK
    <3> QED
      BY <3>1 DEF Owned, Mine, Alive
  <2>2. CASE Started(u) /\ u \in todo
    <3>1. procs'[u] \in Entry
      BY <2>2, ConstantTypes DEF Started, Entry, RowsOK, PollOK
    <3>2. procs'[u] # NoEntry
      BY <3>1, NoEntryApart
    <3>3. procs'[u].alive
      BY <2>2 DEF Started
    <3>4. running'[u] = 1
      BY <2>2 DEF Started, Owned, Mine
    <3> QED
      BY <3>1, <3>2, <3>3, <3>4 DEF Mine, Alive
  <2>3. CASE Forgotten(u)
    BY <2>3 DEF Forgotten, Owned, Mine, Alive
  <2>4. CASE Ended(u)
    <3>1. procs'[u] \in Entry /\ ~procs'[u].alive
      BY <2>4, ConstantTypes DEF Ended, EnginesOK, Entry
    <3>2. running'[u] = 0
      BY <2>4 DEF Ended, Owned, Mine
    <3> QED
      BY <3>1, <3>2 DEF Mine, Alive
  <2> QED
    BY <1>1, <2>1, <2>2, <2>3, <2>4 DEF Fate
<1>3. \A u \in Users : running'[u] \in Nat
  BY <1>2 DEF Mine
<1>4. applied' \in 0..MaxSeq
  <2>1. applied' \in {applied, seq, 0}
    BY DEF Next, Supervise, Start, Sleep, ReadControl, ReadUsers,
       ReadStrategies, Undecodable, Manage, Keep, Launch, Respawn, Trip, Wait,
       Visit, Cleanup, WriteStatus, Failure, PollFails, Crash, SpawnFails,
       Dies, Web, SetActive, SetConf, SetKey, Break, Edit, SetRegime,
       AskRestart, Command, vars
  <2> QED
    BY <2>1, ConstantTypes DEF RowsOK, EnginesOK
<1> QED
  BY <1>1, <1>2, <1>3, <1>4 DEF EnginesOK, Owned, AreFunctions

\* Ages within the window stay within it.
LEMMA OlderType ==
  ASSUME NEW S PROVE Older(S) \subseteq 0..(Window - 1)
  BY ConstantTypes DEF Older

\* Exits, holds and backoffs stay within window and cap.
LEMMA CrashStep ==
  ASSUME CrashOK, [Next]_vars
  PROVE  CrashOK'
<1> USE ConstantTypes
<1> USE DEF CrashOK
<1>1. CASE UNCHANGED <<crash, respawned>>
  BY <1>1 DEF crash
<1>2. ASSUME NEW v \in Users, CrashReset(v) PROVE CrashOK'
  BY <1>2 DEF CrashReset
<1>3. ASSUME NEW v \in Users, exits' = [exits EXCEPT ![v] = Noted(v)],
             UNCHANGED <<hold, backoff>>,
             respawned' \in {respawned, [respawned EXCEPT ![v] = @ \cup {0}]}
      PROVE  CrashOK'
  BY <1>3 DEF Noted
<1>4. CASE Sleep
  BY <1>4, OlderType DEF Sleep
<1>5. CASE Cleanup
  BY <1>5 DEF Cleanup
<1>6. CASE Crash
  BY <1>6 DEF Crash
<1>7. ASSUME NEW v \in Users, Trip(v) PROVE CrashOK'
  BY <1>7 DEF Trip, Least
<1>8. ASSUME NEW v \in Users, Manage(v) PROVE CrashOK'
  <2>1. CASE Keep(v) \/ Wait(v)
    BY <2>1, <1>1 DEF Keep, Wait
  <2>2. CASE Launch(v)
    BY <2>2, <1>1, <1>2 DEF Launch
  <2>3. CASE Respawn(v)
    BY <2>3, <1>3 DEF Respawn
  <2> QED
    BY <1>8, <1>7, <2>1, <2>2, <2>3 DEF Manage
<1>9. CASE Supervise
  BY <1>9, <1>1, <1>4, <1>5, <1>8 DEF Supervise, Start, ReadControl, ReadUsers,
     ReadStrategies, Undecodable, WriteStatus
<1>10. CASE Failure
  <2>1. ASSUME NEW v \in Users, SpawnFails(v) PROVE CrashOK'
    BY <2>1, <1>2, <1>3 DEF SpawnFails
  <2> QED
    BY <1>10, <1>1, <1>6, <2>1 DEF Failure, PollFails, Dies
<1>11. CASE Web
  BY <1>11, <1>1 DEF Web, SetActive, SetConf, SetKey, Break, Edit, SetRegime,
     AskRestart, Command
<1>12. CASE UNCHANGED vars
  BY <1>12, <1>1 DEF vars, crash
<1> QED
  BY <1>9, <1>10, <1>11, <1>12 DEF Next

-----------------------------------------------------------------------------
(* Types and engines *)

Inv == RowsOK /\ PollOK /\ EnginesOK /\ CrashOK /\ Owned

\* The invariant of the supervisor: types, and one process per live entry.
THEOREM InvCorrect == Spec => []Inv
<1>1. Init => Inv
  <2>1. Init => Owned
    BY DEF Init, Owned, Mine, Alive
  <2> QED
    BY <2>1, InitType DEF Inv
<1>2. Inv /\ [Next]_vars => Inv'
  BY RowsStep, PollStep, EnginesStep, CrashStep DEF Inv
<1> QED
  BY <1>1, <1>2, PTL DEF Spec

\* Every reachable state is well typed, for any users, configurations and
\* bounds; the doubled backoff stays between its first value and its cap.
THEOREM TypeCorrect == Spec => []TypeOK
<1>1. Inv => TypeOK
  BY TypeParts DEF Inv
<1> QED
  BY <1>1, InvCorrect, PTL

\* However recycles, respawns, pauses, failed polls and restarts of the
\* supervisor fall, no user has two engines.
THEOREM OneEngineCorrect == Spec => []OneEngine
<1>1. Inv => OneEngine
  BY DEF Inv, Owned, OneEngine, Mine
<1> QED
  BY <1>1, InvCorrect, PTL

-----------------------------------------------------------------------------
(* Restarts *)

\* Engines are younger than the restart the supervisor has acted on and than
\* the one it has shown; neither is ahead of what was asked.
Recycled ==
  /\ \A u \in Users :
       Alive(u) => procs[u].born >= applied /\ procs[u].born >= shown.applied
  /\ applied <= seq /\ shown.applied <= seq

\* No step makes an engine older than the restart acted on or shown.
LEMMA RecycledStep ==
  ASSUME Inv, Recycled, [Next]_vars
  PROVE  Recycled'
<1> USE ConstantTypes
<1>1. \A u \in Users : Fate(u)
  BY Fates DEF Inv
<1>2. \/ applied' = applied
      \/ applied' = 0
      \/ applied' = seq /\ \A u \in Users : procs'[u] = NoEntry
  BY DEF Next, Supervise, Start, Sleep, ReadControl, StopAll, ReadUsers,
     ReadStrategies, Undecodable, Manage, Keep, Launch, Respawn, Trip, Wait,
     Visit, Cleanup, WriteStatus, Failure, PollFails, Crash, SpawnFails,
     Dies, Web, SetActive, SetConf, SetKey, Break, Edit, SetRegime,
     AskRestart, Command, vars
<1>3. shown'.applied \in {shown.applied, applied}
  BY DEF Next, Supervise, Start, Sleep, ReadControl, ReadUsers,
     ReadStrategies, Undecodable, Manage, Keep, Launch, Respawn, Trip, Wait,
     Visit, Cleanup, WriteStatus, Failure, PollFails, Crash, SpawnFails,
     Dies, Web, SetActive, SetConf, SetKey, Break, Edit, SetRegime,
     AskRestart, Command, vars
<1>4. seq' >= seq
  BY DEF Next, Supervise, Start, Sleep, ReadControl, ReadUsers,
     ReadStrategies, Undecodable, Manage, Keep, Launch, Respawn, Trip, Wait,
     Visit, Cleanup, WriteStatus, Failure, PollFails, Crash, SpawnFails,
     Dies, Web, SetActive, SetConf, SetKey, Break, Edit, SetRegime,
     AskRestart, Command, vars, control, Inv, RowsOK
<1>5. /\ applied \in Int /\ applied' \in Int /\ seq \in Int /\ seq' \in Int
      /\ shown.applied \in Int /\ shown'.applied \in Int
      /\ applied >= 0 /\ seq >= 0
  <2>1. RowsOK' /\ EnginesOK'
    BY RowsStep, EnginesStep DEF Inv
  <2> QED
    BY <2>1 DEF Inv, RowsOK, EnginesOK
<1>6. applied' <= seq' /\ shown'.applied <= seq'
  BY <1>2, <1>3, <1>4, <1>5 DEF Recycled
<1>7. ASSUME NEW u \in Users, Alive(u)'
      PROVE  procs'[u].born >= applied' /\ procs'[u].born >= shown'.applied
  <2>1. CASE Started(u)
    <3>1. procs'[u].born = seq
      BY <2>1 DEF Started
    <3>2. procs'[u] # NoEntry
      BY <1>7 DEF Alive
    <3> QED
      BY <3>1, <3>2, <1>2, <1>3, <1>5 DEF Recycled
  <2>2. CASE Same(u)
    <3>1. Alive(u) /\ procs'[u] = procs[u] /\ procs[u] \in Entry
      BY <2>2, <1>7 DEF Same, Alive, Inv, EnginesOK
    <3>2. procs[u].born \in Int /\ procs[u].born >= 0
      BY <3>1 DEF Entry
    <3> QED
      BY <3>1, <3>2, <1>2, <1>3, <1>5, NoEntryApart DEF Recycled
  <2>3. ~Ended(u)
    BY <1>7 DEF Ended, Alive, Inv, EnginesOK, Entry
  <2>4. ~Forgotten(u)
    BY <1>7 DEF Forgotten, Alive
  <2> QED
    BY <1>1, <2>1, <2>2, <2>3, <2>4 DEF Fate
<1> QED
  BY <1>6, <1>7 DEF Recycled

\* A restart the console shows as applied has left no engine from before it,
\* whatever else happened meanwhile.
THEOREM RestartMeansNewCorrect == Spec => []RestartMeansNew
<1>1. Init => Recycled
  BY ConstantTypes DEF Init, Recycled, Alive
<1>2. Inv /\ Recycled /\ [Next]_vars => Recycled'
  BY RecycledStep
<1>3. Recycled => RestartMeansNew
  BY DEF Recycled, RestartMeansNew
<1> QED
  BY <1>1, <1>2, <1>3, InvCorrect, PTL DEF Spec

-----------------------------------------------------------------------------
(* Polls *)

\* The entry of u is what the configuration c asks for.
Has(u, c) == procs[u] # NoEntry /\ procs[u].conf = c

Regime ==
  calm => /\ pc \in {"users", "strategies", "manage", "tellRunning"}
               => desired = "running"
          /\ pc = "tellPaused" => desired = "paused"

Stopped == pc = "tellPaused" => \A u \in Users : procs[u] = NoEntry

\* The rows in hand are those of D1, for the users whose rows stayed.
Fresh ==
  pc \in {"strategies", "manage"} =>
    \A u \in steady : /\ u \in DOMAIN snap <=> active[u]
                      /\ u \in DOMAIN snap => snap[u].conf = conf[u]

Visited ==
  pc = "manage" => \A u \in DOMAIN snap \ todo : Has(u, snap[u].conf)

Obeyed ==
  pc = "tellRunning" =>
    \A u \in steady : IF active[u] THEN Has(u, conf[u]) ELSE procs[u] = NoEntry

Obeys == Regime /\ Stopped /\ Fresh /\ Visited /\ Obeyed /\ OnePoll

\* The steps at which a poll ends or has only begun owe nothing.
LEMMA NothingOwed ==
  ASSUME pc' \in {"down", "read", "failed"}
  PROVE  Obeys'
  BY DEF Obeys, Regime, Stopped, Fresh, Visited, Obeyed, OnePoll

\* A step that leaves the poll, the rows it has read and the engines' entries
\* alone, as far as the promises speak of them.
LEMMA Untouched ==
  ASSUME Inv, Obeys, UNCHANGED cycle,
         calm' => calm /\ UNCHANGED desired,
         steady' \subseteq steady,
         \A u \in steady' : active'[u] = active[u] /\ conf'[u] = conf[u],
         \A u \in Users : procs'[u] = NoEntry <=> procs[u] = NoEntry,
         \A u \in Users : procs[u] # NoEntry => procs'[u].conf = procs[u].conf
  PROVE  Obeys'
<1> USE DEF cycle
<1>1. steady \subseteq Users /\ DOMAIN snap \subseteq Users
  BY DEF Inv, RowsOK, PollOK
<1>2. Regime' /\ Stopped' /\ Fresh'
  BY <1>1 DEF Obeys, Regime, Stopped, Fresh
<1>3. Visited' /\ Obeyed'
  BY <1>1 DEF Obeys, Visited, Obeyed, Has
<1>4. OnePoll'
  BY <1>1 DEF Obeys, OnePoll
<1> QED
  BY <1>2, <1>3, <1>4 DEF Obeys

\* Every step keeps what the poll owes at its point of the cycle.
LEMMA ObeysStep ==
  ASSUME Inv, Obeys, [Next]_vars
  PROVE  Obeys'
<1> USE DEF rows, control, crash
<1>1. CASE ReadControl
  <2>1. CASE pc' = "tellPaused"
    BY <1>1, <2>1 DEF ReadControl, StopAll, Obeys, Regime, Stopped, Fresh,
       Visited, Obeyed, OnePoll
  <2>2. CASE pc' = "users"
    BY <1>1, <2>2 DEF ReadControl, Obeys, Regime, Stopped, Fresh, Visited,
       Obeyed, OnePoll
  <2> QED
    BY <1>1, <2>1, <2>2 DEF ReadControl
<1>2. CASE ReadUsers
  <2>1. /\ snap' = [u \in Active |-> [conf |-> conf[u], key |-> key[u]]]
        /\ pc = "users" /\ pc' = "strategies"
        /\ UNCHANGED <<active, conf, desired, calm, steady>>
    BY <1>2 DEF ReadUsers
  <2>2. Fresh'
    BY <2>1 DEF Fresh, Active, Inv, RowsOK
  <2> QED
    BY <2>1, <2>2 DEF Obeys, Regime, Stopped, Visited, Obeyed, OnePoll
<1>3. CASE ReadStrategies
  <2>1. PICK f \in [DOMAIN snap -> Confs] :
          /\ \A u \in DOMAIN snap : snap[u].conf = conf[u] => f[u] = conf[u]
          /\ snap' = [u \in DOMAIN snap |-> [conf |-> f[u], key |-> snap[u].key]]
    BY <1>3 DEF ReadStrategies
  <2>2. /\ pc = "strategies" /\ pc' = "manage" /\ todo' = DOMAIN snap
        /\ UNCHANGED <<active, conf, desired, calm, steady>>
    BY <1>3 DEF ReadStrategies
  <2>3. Fresh' /\ Visited'
    BY <2>1, <2>2 DEF Obeys, Fresh, Visited
  <2> QED
    BY <2>2, <2>3 DEF Obeys, Regime, Stopped, Obeyed, OnePoll
<1>4. ASSUME NEW v \in Users, Manage(v)
      PROVE  Obeys'
  <2>1. /\ v \in todo /\ todo' = todo \ {v} /\ pc = "manage"
        /\ UNCHANGED <<rows, control, pc, snap, steady, calm>>
    BY <1>4 DEF Manage, Keep, Launch, Respawn, Trip, Wait, Visit
  <2>2. v \in DOMAIN snap
    BY <2>1 DEF Inv, PollOK
  <2>3. /\ procs'[v] # NoEntry /\ procs'[v].conf = snap'[v].conf
        /\ \A u \in Users \ {v} : procs'[u] = procs[u]
    <3>1. CASE Keep(v) \/ Trip(v) \/ Wait(v)
      <4>1. procs[v] # NoEntry /\ ~Changed(v) /\ UNCHANGED procs
        BY <3>1 DEF Keep, Trip, Wait, Alive, Dead
      <4> QED
        BY <2>1, <4>1 DEF Changed
    <3>2. CASE Launch(v) \/ Respawn(v)
      <4>1. Spawn(v)
        BY <3>2 DEF Launch, Respawn
      <4>2. procs'[v] = [conf |-> snap[v].conf, key |-> snap[v].key,
                         born |-> seq, alive |-> TRUE]
            /\ \A u \in Users \ {v} : procs'[u] = procs[u]
        BY <4>1 DEF Spawn, Inv, EnginesOK
      <4>3. procs'[v] \in Entry
        BY <4>2, <2>2, ConstantTypes DEF Entry, Inv, RowsOK, PollOK
      <4>4. procs'[v] # NoEntry
        BY <4>3, NoEntryApart
      <4>5. procs'[v].conf = snap'[v].conf
        BY <2>1, <4>2
      <4> QED
        BY <4>2, <4>4, <4>5
    <3> QED
      BY <1>4, <3>1, <3>2 DEF Manage
  <2>4. Visited'
    BY <2>1, <2>3 DEF Obeys, Visited, Has, Inv, PollOK
  <2> QED
    BY <2>1, <2>4 DEF Obeys, Regime, Stopped, Fresh, Obeyed, OnePoll
<1>5. CASE Cleanup
  <2>1. /\ pc = "manage" /\ todo = {} /\ pc' = "tellRunning"
        /\ procs' = [u \in Users |-> IF u \in Unwanted THEN NoEntry ELSE procs[u]]
        /\ UNCHANGED <<active, conf, desired, calm, steady>>
    BY <1>5 DEF Cleanup
  <2>2. ASSUME NEW u \in steady
        PROVE  IF active[u] THEN Has(u, conf[u])' ELSE procs'[u] = NoEntry
    <3>1. u \in Users
      BY DEF Inv, RowsOK
    <3>2. CASE active[u]
      BY <2>1, <3>1, <3>2 DEF Unwanted, Obeys, Fresh, Visited, Has
    <3>3. CASE ~active[u]
      BY <2>1, <3>1, <3>3 DEF Unwanted, Obeys, Fresh
    <3> QED
      BY <3>2, <3>3
  <2>3. Obeyed'
    BY <2>1, <2>2 DEF Obeyed, Has
  <2> QED
    BY <2>1, <2>3 DEF Obeys, Regime, Stopped, Fresh, Visited, OnePoll
<1>6. CASE WriteStatus
  <2>1. pc \in {"tellRunning", "tellPaused"} /\ pc' = "idle"
        /\ UNCHANGED <<active, conf, desired, calm, steady, procs>>
    BY <1>6 DEF WriteStatus
  <2>2. OnePoll'
    BY <2>1 DEF OnePoll, Obeys, Regime, Stopped, Obeyed, Has, Inv, RowsOK
  <2> QED
    BY <2>1, <2>2 DEF Obeys, Regime, Stopped, Fresh, Visited, Obeyed
<1>7. CASE Start \/ Sleep \/ Undecodable \/ PollFails \/ Crash
           \/ \E u \in Users : SpawnFails(u)
  BY <1>7, NothingOwed DEF Start, Sleep, Undecodable, PollFails, Crash,
     SpawnFails
<1>8. ASSUME NEW v \in Users, Dies(v)
      PROVE  Obeys'
  <2>1. UNCHANGED <<active, conf, desired, cycle, steady, calm>>
    BY <1>8 DEF Dies
  <2>2. /\ procs[v] # NoEntry /\ procs' = [procs EXCEPT ![v].alive = FALSE]
        /\ procs \in [Users -> Entry \cup {NoEntry}]
    BY <1>8 DEF Dies, Alive, Inv, EnginesOK
  <2>3. procs'[v] \in Entry /\ procs'[v].conf = procs[v].conf
    BY <2>2 DEF Entry
  <2>4. /\ \A u \in Users : procs'[u] = NoEntry <=> procs[u] = NoEntry
        /\ \A u \in Users : procs[u] # NoEntry => procs'[u].conf = procs[u].conf
    BY <2>2, <2>3, NoEntryApart
  <2> QED
    BY <2>1, <2>4, Untouched
<1>9. CASE Web
  <2>1. ASSUME NEW v \in Users,
               SetActive(v) \/ SetConf(v) \/ SetKey(v) \/ Break(v)
        PROVE  Obeys'
    <3>1. UNCHANGED <<desired, cycle, procs, calm>> /\ steady' = steady \ {v}
      BY <2>1 DEF SetActive, SetConf, SetKey, Break, Edit
    <3>2. \A u \in steady' : active'[u] = active[u] /\ conf'[u] = conf[u]
      BY <2>1, <3>1 DEF SetActive, SetConf, SetKey, Break, Inv, RowsOK
    <3> QED
      BY <3>1, <3>2, Untouched
  <2>2. CASE SetRegime \/ AskRestart
    <3>1. UNCHANGED <<active, conf, cycle, procs, steady>> /\ calm' = FALSE
      BY <2>2 DEF SetRegime, AskRestart, Command
    <3> QED
      BY <3>1, Untouched
  <2> QED
    BY <1>9, <2>1, <2>2 DEF Web
<1>10. CASE UNCHANGED vars
  BY <1>10, Untouched DEF vars, cycle
<1> QED
  BY <1>1, <1>2, <1>3, <1>4, <1>5, <1>6, <1>7, <1>8, <1>9, <1>10
     DEF Next, Supervise, Failure

\* A poll that went through has put in force whatever it found in D1 and
\* nobody changed since, for any number of users and any interleaving with
\* the web app.
THEOREM OnePollCorrect == Spec => []OnePoll
<1>1. Init => Obeys
  BY DEF Init, Obeys, Regime, Stopped, Fresh, Visited, Obeyed, OnePoll
<1>2. Inv /\ Obeys /\ [Next]_vars => Obeys'
  BY ObeysStep
<1>3. Obeys => OnePoll
  BY DEF Obeys
<1> QED
  BY <1>1, <1>2, <1>3, InvCorrect, PTL DEF Spec

-----------------------------------------------------------------------------
(* Respawns of an engine that keeps dying *)

\* The poll has not come to user u yet.
Waits(u) == pc \in {"down", "read", "users", "strategies"} \/ u \in todo

\* Until it does, everything noted of u is at least one poll old.
Unaged == \A u \in Users : Waits(u) => 0 \notin exits[u] /\ 0 \notin respawned[u]

\* Polls in which at most Limit - 1 respawns of one engine fall.
Block == Limit - 1 + Base

\* Either every respawn of u is still among its exits, or the limit was last
\* reached t polls ago: then the respawns since are among the exits and at
\* least Base later, and within Base the hold has not run out.
Untripped(u) == respawned[u] \subseteq exits[u]

TrippedAt(u, t) ==
  /\ \A a \in respawned[u] : a < t => a \in exits[u] /\ a <= t - Base
  /\ t \notin respawned[u]
  /\ t < Base => hold[u] >= Base - t

Spread(u) == Untripped(u) \/ \E t \in 0..(Window - 1) : TrippedAt(u, t)

\* No Block polls in a row hold as many respawns of u as the limit.
Rare(u) ==
  \A x \in Nat : Cardinality(respawned[u] \cap x..(x + Block - 1)) <= Limit - 1

Paced == Unaged /\ \A u \in Users : Spread(u) /\ Rare(u)

\* What a step does to the crash history of u.
Kept(u) ==
  /\ exits'[u] = exits[u] /\ hold'[u] = hold[u]
  /\ respawned'[u] = respawned[u]
  /\ Waits(u)' => Waits(u)

Cleared(u) == exits'[u] = {} /\ respawned'[u] = {}

Aged(u) ==
  /\ exits'[u] = Older(exits[u]) /\ respawned'[u] = Older(respawned[u])
  /\ hold'[u] = IF hold[u] = 0 THEN 0 ELSE hold[u] - 1

OnlyNoted(u) ==
  /\ exits'[u] = Noted(u) /\ hold'[u] = hold[u]
  /\ respawned'[u] = respawned[u]

Revived(u) ==
  /\ hold[u] = 0 /\ Cardinality(Noted(u)) < Limit
  /\ exits'[u] = Noted(u) /\ hold'[u] = hold[u]
  /\ respawned'[u] = respawned[u] \cup {0}

Held(u) ==
  /\ exits'[u] = {} /\ hold'[u] = backoff[u]
  /\ respawned'[u] = respawned[u]

CrashFate(u) ==
  \/ Kept(u)
  \/ Cleared(u)
  \/ Aged(u)
  \/ Waits(u) /\ ~Waits(u)' /\ (OnlyNoted(u) \/ Revived(u) \/ Held(u))

\* Every step does one of these things to the crash history of a user.
LEMMA CrashFates ==
  ASSUME Inv, [Next]_vars
  PROVE  \A u \in Users : CrashFate(u)
<1> USE DEF CrashOK
<1>0. CrashOK /\ PollOK
  BY DEF Inv
<1>1. ASSUME UNCHANGED <<exits, hold, respawned>>,
             \A u \in Users : Waits(u)' => Waits(u)
      PROVE  \A u \in Users : CrashFate(u)
  BY <1>1 DEF CrashFate, Kept
<1>2. ASSUME NEW v \in Users, CrashReset(v),
             pc = "manage", pc' \notin {"down", "read", "users", "strategies"},
             todo' \subseteq todo
      PROVE  \A u \in Users : CrashFate(u)
  BY <1>0, <1>2 DEF CrashFate, CrashReset, Cleared, Kept, Waits
<1>3. ASSUME NEW v \in Users, Manage(v)
      PROVE  \A u \in Users : CrashFate(u)
  <2>1. /\ pc = "manage" /\ pc' = "manage" /\ v \in todo /\ todo' = todo \ {v}
    BY <1>3 DEF Manage, Keep, Launch, Respawn, Trip, Wait, Visit
  <2>2. CASE Keep(v) \/ Wait(v)
    BY <1>1, <2>1, <2>2 DEF Keep, Wait, crash, Waits
  <2>3. CASE Launch(v)
    BY <1>1, <1>2, <2>1, <2>3 DEF Launch, crash, Waits
  <2>4. CASE Respawn(v)
    <3>1. /\ hold[v] = 0 /\ Cardinality(Noted(v)) < Limit
          /\ exits' = [exits EXCEPT ![v] = Noted(v)] /\ UNCHANGED hold
          /\ respawned' = [respawned EXCEPT ![v] = @ \cup {0}]
      BY <2>4 DEF Respawn
    <3>2. \A u \in Users \ {v} : Kept(u)
      BY <1>0, <2>1, <3>1 DEF Kept, Waits
    <3>3. Waits(v) /\ ~Waits(v)' /\ Revived(v)
      BY <1>0, <2>1, <3>1 DEF Revived, Waits
    <3> QED
      BY <3>2, <3>3 DEF CrashFate
  <2>5. CASE Trip(v)
    <3>1. /\ exits' = [exits EXCEPT ![v] = {}] /\ UNCHANGED respawned
          /\ hold' = [hold EXCEPT ![v] = backoff[v]]
      BY <2>5 DEF Trip
    <3>2. \A u \in Users \ {v} : Kept(u)
      BY <1>0, <2>1, <3>1 DEF Kept, Waits
    <3>3. Waits(v) /\ ~Waits(v)' /\ Held(v)
      BY <1>0, <2>1, <3>1 DEF Held, Waits
    <3> QED
      BY <3>2, <3>3 DEF CrashFate
  <2> QED
    BY <1>3, <2>2, <2>3, <2>4, <2>5 DEF Manage
<1>4. CASE Supervise
  <2>1. CASE Sleep
    BY <2>1 DEF Sleep, CrashFate, Aged
  <2>2. CASE Cleanup
    BY <1>0, <2>2 DEF Cleanup, CrashFate, Cleared, Kept, Waits
  <2>3. CASE Start \/ ReadControl \/ ReadUsers \/ ReadStrategies
             \/ Undecodable \/ WriteStatus
    <3>1. UNCHANGED <<exits, hold, respawned>>
      BY <2>3 DEF Start, ReadControl, ReadUsers, ReadStrategies, Undecodable,
         WriteStatus, crash
    <3>2. \/ pc \in {"down", "read", "users", "strategies"}
          \/ pc' = "idle" /\ todo' = todo
      BY <2>3 DEF Start, ReadControl, ReadUsers, ReadStrategies, Undecodable,
         WriteStatus
    <3> QED
      BY <1>1, <3>1, <3>2 DEF Waits
  <2> QED
    BY <1>4, <1>3, <2>1, <2>2, <2>3 DEF Supervise
<1>5. CASE Failure
  <2>1. CASE PollFails
    BY <1>1, <2>1 DEF PollFails, crash, Waits
  <2>2. CASE Crash
    BY <2>2 DEF Crash, CrashFate, Cleared
  <2>3. ASSUME NEW v \in Users, SpawnFails(v)
        PROVE  \A u \in Users : CrashFate(u)
    <3>1. pc = "manage" /\ pc' = "failed" /\ v \in todo /\ todo' = {}
      BY <2>3 DEF SpawnFails
    <3>2. CASE CrashReset(v)
      BY <1>2, <3>1, <3>2
    <3>3. CASE exits' = [exits EXCEPT ![v] = Noted(v)]
               /\ UNCHANGED <<hold, respawned>>
      <4>1. \A u \in Users \ {v} : Kept(u)
        BY <1>0, <3>1, <3>3 DEF Kept, Waits
      <4>2. Waits(v) /\ ~Waits(v)' /\ OnlyNoted(v)
        BY <1>0, <3>1, <3>3 DEF OnlyNoted, Waits
      <4> QED
        BY <4>1, <4>2 DEF CrashFate
    <3> QED
      BY <2>3, <3>2, <3>3 DEF SpawnFails
  <2>4. ASSUME NEW v \in Users, Dies(v)
        PROVE  \A u \in Users : CrashFate(u)
    BY <1>1, <2>4 DEF Dies, cycle, crash, Waits
  <2> QED
    BY <1>5, <2>1, <2>2, <2>3, <2>4 DEF Failure
<1>6. CASE Web
  BY <1>6, <1>1 DEF Web, SetActive, SetConf, SetKey, Break, Edit, SetRegime,
     AskRestart, Command, cycle, crash, Waits
<1>7. CASE UNCHANGED vars
  BY <1>7, <1>1 DEF vars, Waits
<1> QED
  BY <1>4, <1>5, <1>6, <1>7 DEF Next

\* The crash history of a user, read off the types.
LEMMA HistoryTypes ==
  ASSUME Inv, NEW u \in Users
  PROVE  /\ exits[u] \subseteq 0..(Window - 1)
         /\ respawned[u] \subseteq 0..(Window - 1)
         /\ hold[u] \in Nat /\ backoff[u] \in Int /\ backoff[u] >= Base
         /\ IsFiniteSet(exits[u]) /\ IsFiniteSet(respawned[u])
<1> USE ConstantTypes
<1>1. /\ exits[u] \subseteq 0..(Window - 1)
      /\ respawned[u] \subseteq 0..(Window - 1)
      /\ hold[u] \in Nat /\ backoff[u] \in Int /\ backoff[u] >= Base
  BY DEF Inv, CrashOK
<1>2. IsFiniteSet(0..(Window - 1))
  BY FS_Interval
<1> QED
  BY <1>1, <1>2, FS_Subset

\* What is noted of a user the poll has not come to is from an earlier poll.
LEMMA UnagedStep ==
  ASSUME Inv, Unaged, [Next]_vars
  PROVE  Unaged'
<1>1. ASSUME NEW u \in Users, Waits(u)'
      PROVE  0 \notin exits'[u] /\ 0 \notin respawned'[u]
  BY <1>1, CrashFates DEF CrashFate, Kept, Cleared, Aged, Older, Unaged
<1> QED
  BY <1>1 DEF Unaged

\* A poll later, so are the respawns and the hold.
LEMMA SpreadAges ==
  ASSUME Inv, NEW u \in Users, Spread(u), Aged(u)
  PROVE  Spread(u)'
<1> USE ConstantTypes, HistoryTypes
<1>1. CASE Untripped(u)
  BY <1>1 DEF Untripped, Aged, Older, Spread
<1>2. ASSUME NEW t \in 0..(Window - 1), TrippedAt(u, t), t + 1 < Window
      PROVE  Spread(u)'
  <2>1. ASSUME NEW a \in respawned'[u], a < t + 1
        PROVE  a \in exits'[u] /\ a <= t + 1 - Base
    BY <1>2, <2>1 DEF Aged, Older, TrippedAt
  <2>2. t + 1 \notin respawned'[u]
    BY <1>2 DEF Aged, Older, TrippedAt
  <2>3. t + 1 < Base => hold'[u] >= Base - (t + 1)
    BY <1>2 DEF Aged, TrippedAt
  <2>4. TrippedAt(u, t + 1)'
    BY <2>1, <2>2, <2>3 DEF TrippedAt
  <2>5. t + 1 \in 0..(Window - 1)
    BY <1>2
  <2> QED
    BY <2>4, <2>5 DEF Spread
<1>3. ASSUME NEW t \in 0..(Window - 1), TrippedAt(u, t), t + 1 >= Window
      PROVE  Spread(u)'
  <2>1. Untripped(u)'
    BY <1>3 DEF Aged, Older, TrippedAt, Untripped
  <2> QED
    BY <2>1 DEF Spread
<1> QED
  BY <1>1, <1>2, <1>3 DEF Spread

\* Respawns since the limit was last reached stay apart from those before it.
LEMMA SpreadStep ==
  ASSUME Inv, Unaged, [Next]_vars, NEW u \in Users, Spread(u)
  PROVE  Spread(u)'
<1> USE ConstantTypes, HistoryTypes
<1>1. CASE Kept(u)
  BY <1>1 DEF Kept, Spread, Untripped, TrippedAt
<1>2. CASE Cleared(u)
  BY <1>2 DEF Cleared, Spread, Untripped
<1>3. CASE Aged(u)
  BY <1>3, SpreadAges
<1>4. CASE OnlyNoted(u)
  BY <1>4 DEF OnlyNoted, Noted, Spread, Untripped, TrippedAt
<1>5. CASE Revived(u)
  <2>1. CASE Untripped(u)
    BY <1>5, <2>1 DEF Revived, Noted, Spread, Untripped
  <2>2. ASSUME NEW t \in 0..(Window - 1), TrippedAt(u, t)
        PROVE  TrippedAt(u, t)'
    <3>1. t >= Base
      BY <1>5, <2>2 DEF Revived, TrippedAt
    <3>2. ASSUME NEW a \in respawned'[u], a < t
          PROVE  a \in exits'[u] /\ a <= t - Base
      BY <1>5, <2>2, <3>1, <3>2 DEF Revived, Noted, TrippedAt
    <3>3. t \notin respawned'[u]
      BY <1>5, <2>2, <3>1 DEF Revived, TrippedAt
    <3> QED
      BY <3>1, <3>2, <3>3 DEF TrippedAt
  <2> QED
    BY <2>1, <2>2 DEF Spread
<1>6. CASE Held(u) /\ Waits(u)
  <2>1. TrippedAt(u, 0)'
    BY <1>6 DEF Held, Unaged, TrippedAt
  <2> QED
    BY <2>1 DEF Spread
<1> QED
  BY <1>1, <1>2, <1>3, <1>4, <1>5, <1>6, CrashFates DEF CrashFate

\* A set shifted into another is no larger.
LEMMA Shifted ==
  ASSUME NEW S, S \subseteq Int, NEW T, IsFiniteSet(T), \A a \in S : a - 1 \in T
  PROVE  Cardinality(S) <= Cardinality(T)
<1> DEFINE f == [a \in S |-> a - 1]
<1>1. f \in Injection(S, T)
  <2>1. f \in [S -> T]
    OBVIOUS
  <2>2. \A a, b \in S : f[a] = f[b] => a = b
    OBVIOUS
  <2> QED
    BY <2>1, <2>2 DEF Injection, IsInjective
<1> QED
  BY <1>1, FS_Injection

\* A smaller set has no more elements.
LEMMA Fewer ==
  ASSUME NEW S, NEW T, IsFiniteSet(T), S \subseteq T
  PROVE  IsFiniteSet(S) /\ Cardinality(S) \in Nat /\ Cardinality(T) \in Nat
         /\ Cardinality(S) <= Cardinality(T)
BY FS_Subset, FS_CardinalityType

\* A poll later, every stretch of Block polls holds what an earlier one did.
LEMMA RareAges ==
  ASSUME Inv, NEW u \in Users, Rare(u), Aged(u)
  PROVE  Rare(u)'
<1> USE ConstantTypes, HistoryTypes
<1> SUFFICES ASSUME NEW x \in Nat
    PROVE Cardinality(respawned'[u] \cap x..(x + Block - 1)) <= Limit - 1
  BY DEF Rare, Block
<1> DEFINE y == IF x = 0 THEN 0 ELSE x - 1
           S == respawned'[u] \cap x..(x + Block - 1)
           T == respawned[u] \cap y..(y + Block - 1)
<1>1. \A a \in S : a - 1 \in T
  BY DEF Aged, Older, Block
<1>2. S \subseteq Int /\ IsFiniteSet(T) /\ y \in Nat
  BY FS_Subset
<1>3. Cardinality(T) <= Limit - 1
  BY <1>2 DEF Rare
<1>4. Cardinality(S) <= Cardinality(T)
  <2> HIDE DEF S, T
  <2> QED
    BY <1>1, <1>2, Shifted
<1>5. IsFiniteSet(S)
  <2>1. respawned'[u] \subseteq 0..(Window - 1)
    BY DEF Aged, Older
  <2>2. IsFiniteSet(0..(Window - 1)) /\ S \subseteq 0..(Window - 1)
    BY <2>1, FS_Interval
  <2> HIDE DEF S
  <2> QED
    BY <2>2, FS_Subset
<1>6. Cardinality(S) \in Nat /\ Cardinality(T) \in Nat
  BY <1>2, <1>5, FS_CardinalityType
<1> HIDE DEF S, T
<1>7. Cardinality(S) <= Limit - 1
  BY <1>3, <1>4, <1>6
<1> QED
  BY <1>7 DEF S

\* A respawn joins the exits of the window, which are short of the limit, or
\* is apart by Base from what came before the limit was reached.
LEMMA RareRevived ==
  ASSUME Inv, Unaged, NEW u \in Users, Waits(u), Spread(u), Rare(u), Revived(u)
  PROVE  Rare(u)'
<1> USE ConstantTypes, HistoryTypes
<1> SUFFICES ASSUME NEW x \in Nat
    PROVE Cardinality(respawned'[u] \cap x..(x + Block - 1)) <= Limit - 1
  BY DEF Rare, Block
<1>1. respawned'[u] = respawned[u] \cup {0} /\ hold[u] = 0
  BY DEF Revived
<1>2. CASE x > 0
  <2>1. respawned'[u] \cap x..(x + Block - 1)
          = respawned[u] \cap x..(x + Block - 1)
    BY <1>1, <1>2
  <2> QED
    BY <2>1 DEF Rare
<1>3. CASE x = 0
  <2> DEFINE S == respawned'[u] \cap 0..(Block - 1)
  <2>1. ASSUME S \subseteq Noted(u)
        PROVE  Cardinality(S) <= Limit - 1
    <3>1. IsFiniteSet(Noted(u))
      BY FS_AddElement DEF Noted
    <3>2. Cardinality(Noted(u)) < Limit
      BY DEF Revived
    <3>3. /\ Cardinality(S) \in Nat /\ Cardinality(Noted(u)) \in Nat
          /\ Cardinality(S) <= Cardinality(Noted(u))
      <4> HIDE DEF S
      <4> QED
        BY <2>1, <3>1, Fewer
    <3> HIDE DEF S
    <3> QED
      BY <3>2, <3>3
  <2>2. ASSUME Untripped(u)
        PROVE  S \subseteq Noted(u)
    BY <1>1, <2>2 DEF Untripped, Noted
  <2>3. ASSUME NEW t \in 0..(Window - 1), TrippedAt(u, t), t > Block - 1
        PROVE  S \subseteq Noted(u)
    BY <1>1, <2>3 DEF TrippedAt, Noted, Block
  <2>4. ASSUME NEW t \in 0..(Window - 1), TrippedAt(u, t), t <= Block - 1
        PROVE  Cardinality(S) <= Limit - 1
    <3> DEFINE P == 0..(t - Base)
               Q == (t + 1)..(Block - 1)
    <3>1. t >= Base
      BY <1>1, <2>4 DEF TrippedAt
    <3>2. S \subseteq P \cup Q
      BY <1>1, <2>4, <3>1 DEF TrippedAt, Block
    <3>3. /\ IsFiniteSet(P) /\ Cardinality(P) = t - Base + 1
          /\ IsFiniteSet(Q) /\ Cardinality(Q) = Block - 1 - t
      <4>1. 0 \in Int /\ t - Base \in Int /\ t + 1 \in Int /\ Block - 1 \in Int
        BY DEF Block
      <4>2. IsFiniteSet(P) /\ Cardinality(P) = t - Base + 1
        BY <3>1, <4>1, FS_Interval
      <4>3. IsFiniteSet(Q) /\ Cardinality(Q) = Block - 1 - t
        BY <2>4, <4>1, FS_Interval
      <4> QED
        BY <4>2, <4>3
    <3>4. P \cap Q = {}
      BY <3>1 DEF Block
    <3>5. IsFiniteSet(P \cup Q) /\ Cardinality(P \cup Q) = Limit - 1
      <4> HIDE DEF P, Q
      <4>1. /\ IsFiniteSet(P \cup Q)
            /\ Cardinality(P \cup Q) = Cardinality(P) + Cardinality(Q) - 0
        BY <3>3, <3>4, FS_Union, FS_EmptySet
      <4> QED
        BY <3>3, <4>1 DEF Block
    <3>6. Cardinality(S) <= Cardinality(P \cup Q)
      <4> HIDE DEF S, P, Q
      <4> QED
        BY <3>2, <3>5, Fewer
    <3> HIDE DEF S, P, Q
    <3> QED
      BY <3>5, <3>6
  <2> HIDE DEF S
  <2>5. Cardinality(S) <= Limit - 1
    <3>1. Untripped(u) \/ \E t \in 0..(Window - 1) : TrippedAt(u, t)
      BY DEF Spread
    <3>2. \A t \in 0..(Window - 1) : t > Block - 1 \/ t <= Block - 1
      BY DEF Block
    <3> QED
      BY <2>1, <2>2, <2>3, <2>4, <3>1, <3>2
  <2>6. x + Block - 1 = Block - 1
    BY <1>3 DEF Block
  <2> QED
    BY <1>3, <2>5, <2>6 DEF S
<1> QED
  BY <1>2, <1>3

\* No step makes respawns as frequent as the limit.
LEMMA RareStep ==
  ASSUME Inv, Unaged, [Next]_vars, NEW u \in Users, Spread(u), Rare(u)
  PROVE  Rare(u)'
<1>1. CASE respawned'[u] = respawned[u]
  BY <1>1 DEF Rare, Block
<1>2. CASE Cleared(u)
  <2>1. \A x \in Nat : respawned'[u] \cap x..(x + Block - 1) = {}
    BY <1>2 DEF Cleared
  <2>2. Cardinality({}) <= Limit - 1
    BY ConstantTypes, ConstantsAssumption, FS_EmptySet
  <2> QED
    BY <2>1, <2>2 DEF Rare, Block
<1>3. CASE Aged(u)
  BY <1>3, RareAges
<1>4. CASE Waits(u) /\ Revived(u)
  BY <1>4, RareRevived
<1> QED
  BY <1>1, <1>2, <1>3, <1>4, CrashFates DEF CrashFate, Kept, OnlyNoted, Held

\* No step ends the pacing of respawns.
LEMMA PacedStep ==
  ASSUME Inv, Paced, [Next]_vars
  PROVE  Paced'
<1>1. \A u \in Users : Spread(u)' /\ Rare(u)'
  BY SpreadStep, RareStep DEF Paced
<1> QED
  BY <1>1, UnagedStep DEF Paced

\* k blocks hold at most k times what one does.
LEMMA BlocksHold ==
  ASSUME Inv, NEW u \in Users, Rare(u), NEW k \in Nat
  PROVE  Cardinality(respawned[u] \cap 0..(k * Block - 1)) <= k * (Limit - 1)
<1> USE ConstantTypes, HistoryTypes
<1> DEFINE S(n) == respawned[u] \cap 0..(n * Block - 1)
           T == {n \in Nat : ~(Cardinality(S(n)) <= n * (Limit - 1))}
<1> SUFFICES ASSUME T # {} PROVE FALSE
  OBVIOUS
<1>1. PICK n \in T : \A m \in T : n <= m
  <2>1. T \subseteq Nat
    OBVIOUS
  <2> HIDE DEF T
  <2> QED
    BY <2>1, MinimalNat
<1>2. Limit - 1 \in Nat /\ Block \in Nat \ {0}
  BY ConstantsAssumption DEF Block
<1>3. n # 0
  <2>1. ASSUME n = 0 PROVE S(n) = {}
    BY <2>1, <1>2
  <2>2. 0 * (Limit - 1) = 0
    BY <1>2
  <2>3. ASSUME n = 0 PROVE Cardinality(S(n)) <= n * (Limit - 1)
    <3> HIDE DEF S
    <3>1. Cardinality(S(n)) = 0
      BY <2>1, <2>3, FS_EmptySet
    <3>2. n * (Limit - 1) = 0
      BY <2>2, <2>3
    <3> QED
      BY <3>1, <3>2
  <2> QED
    BY <2>3
<1> DEFINE m == n - 1
           x == m * Block
<1>4. m \in Nat /\ m \notin T
  BY <1>1, <1>3
<1>5. Cardinality(S(m)) <= m * (Limit - 1)
  BY <1>4
<1>6. x \in Nat /\ n * Block = x + Block /\ n * (Limit - 1) = m * (Limit - 1) + (Limit - 1)
  BY <1>1, <1>2, <1>4
<1> DEFINE R == respawned[u] \cap x..(x + Block - 1)
<1>7. Cardinality(R) <= Limit - 1
  BY <1>6 DEF Rare
<1>8. S(n) \subseteq S(m) \cup R
  BY <1>2, <1>6
<1>9. IsFiniteSet(S(m)) /\ IsFiniteSet(R)
  BY FS_Subset
<1>10. S(m) \cap R = {}
  BY <1>2, <1>6
<1>11. /\ Cardinality(S(m) \cup R) = Cardinality(S(m)) + Cardinality(R)
       /\ Cardinality(S(n)) <= Cardinality(S(m) \cup R)
       /\ Cardinality(S(m)) \in Nat /\ Cardinality(R) \in Nat
       /\ Cardinality(S(n)) \in Nat
  <2> HIDE DEF S, R
  <2>1. /\ IsFiniteSet(S(m) \cup R)
        /\ Cardinality(S(m) \cup R) = Cardinality(S(m)) + Cardinality(R) - 0
    BY <1>9, <1>10, FS_Union, FS_EmptySet
  <2>2. /\ Cardinality(S(n)) <= Cardinality(S(m) \cup R)
        /\ Cardinality(S(n)) \in Nat
    BY <1>8, <2>1, Fewer
  <2>3. Cardinality(S(m)) \in Nat /\ Cardinality(R) \in Nat
    BY <1>9, FS_CardinalityType
  <2> QED
    BY <2>1, <2>2, <2>3
<1>12. m * (Limit - 1) \in Int
  BY <1>2, <1>4
<1>13. n \in T /\ n \in Nat
  BY <1>1
<1> HIDE DEF S, R, x, m
<1>14. Cardinality(S(n)) <= n * (Limit - 1)
  BY <1>5, <1>6, <1>7, <1>11, <1>12, <1>2
<1> QED
  BY <1>13, <1>14

\* So the window holds no more than its quota.
LEMMA PacedThrottles ==
  ASSUME Inv, Paced
  PROVE  Throttled
<1> USE ConstantTypes, HistoryTypes
<1> SUFFICES ASSUME NEW u \in Users
    PROVE Cardinality(respawned[u]) <= Quota
  BY DEF Throttled
<1> DEFINE q == (Window + Block - 1) \div Block
<1>1. Limit - 1 \in Nat /\ Block \in Nat \ {0}
  BY ConstantsAssumption DEF Block
<1>2. q \in Nat /\ q * Block >= Window
  <2> DEFINE A == Window + Block - 1
  <2>1. A \in Nat
    BY <1>1
  <2>2. (A \div Block) \in Nat /\ (A \div Block) * Block + Block > A
    <3> HIDE DEF A
    <3> QED
      BY <1>1, <2>1
  <2>3. q * Block \in Int
    BY <1>1, <2>2
  <2> QED
    BY <1>1, <2>2, <2>3
<1> HIDE DEF q
<1>3. respawned[u] \cap 0..(q * Block - 1) = respawned[u]
  BY <1>1, <1>2
<1>4. Cardinality(respawned[u]) <= q * (Limit - 1)
  BY <1>2, <1>3, BlocksHold DEF Paced
<1>5. q * (Limit - 1) = (Limit - 1) * q
  BY <1>1, <1>2
<1>6. Quota = (Limit - 1) * q
  <2>1. Window + Limit - 1 + Base - 1 = Window + Block - 1
    BY DEF Block
  <2> QED
    BY <2>1 DEF Quota, q, Block
<1> QED
  BY <1>4, <1>5, <1>6

\* However exits, holds, failed polls and restarts of the supervisor fall, an
\* engine that keeps dying is started again no more often than the window's
\* quota, for every window, limit and backoff.
THEOREM ThrottledCorrect == Spec => []Throttled
<1>1. Init => Paced
  <2> SUFFICES ASSUME Init PROVE Paced
    OBVIOUS
  <2>1. \A u \in Users : exits[u] = {} /\ respawned[u] = {}
    BY DEF Init
  <2>2. Unaged
    BY <2>1 DEF Unaged
  <2>3. ASSUME NEW u \in Users PROVE Spread(u) /\ Rare(u)
    <3>1. \A x \in Nat : respawned[u] \cap x..(x + Block - 1) = {}
      BY <2>1
    <3>2. Cardinality({}) <= Limit - 1
      BY ConstantTypes, ConstantsAssumption, FS_EmptySet
    <3> QED
      BY <2>1, <3>1, <3>2 DEF Spread, Untripped, Rare
  <2> QED
    BY <2>2, <2>3 DEF Paced
<1>2. Inv /\ Paced /\ [Next]_vars => Paced'
  BY PacedStep
<1>3. Inv /\ Paced => Throttled
  BY PacedThrottles
<1> QED
  BY <1>1, <1>2, <1>3, InvCorrect, PTL DEF Spec
=============================================================================
