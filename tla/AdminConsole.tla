---------------------------- MODULE AdminConsole ----------------------------
(***************************************************************************)
(* The owner's console (app/admin/page.tsx, components/SupervisorControls, *)
(* components/AdminUserRow) and the supervisor's poll on the other side of *)
(* the database (worker/supervisor.py _tick): the console writes the       *)
(* regime it wants and a user's plan and switch, and shows what the        *)
(* supervisor last reported.  Time passes in poll intervals; the reports   *)
(* are kept as ages.  One user stands for every row of the table.          *)
(***************************************************************************)
EXTENDS Naturals, Sequences

CONSTANTS STALE_AFTER,      \* SupervisorControls: 90 s, in poll intervals
          StalledAfter,     \* AdminUserRow: 120 s, in poll intervals
          Plans,            \* tiers the row's menu offers, "free" among them
          MaxAdminPresses,  \* bound: presses in the console
          MaxPollFaults     \* bound: polls and calls that fail, shutdowns

ASSUME ConsoleAssumption ==
  /\ StalledAfter \in Nat /\ STALE_AFTER \in 0 .. StalledAfter + 1
  /\ "free" \in Plans
  /\ MaxAdminPresses \in Nat /\ MaxPollFaults \in Nat

VARIABLES control,    \* the row of supervisor_control
          user,       \* the user's bot_state, heartbeat and stored plan
          eligible,   \* the user has linked keys
          sup,        \* the supervisor: how far its poll is, what it read
          engineOn,     \* the user's engine runs
          engineAge,  \* whole intervals it has run without a stop
          offAge,     \* history: whole intervals since the bot was forced off
          missed,     \* history: polls that have failed since then
          userRow,    \* AdminUserRow: the plan shown, the calls in flight
          late,       \* plans asked for by pages that were left, still on their way
          adminPresses, pollFaults

consoleVars == <<control, user, eligible, sup, engineOn, engineAge, offAge, missed, userRow,
                 late, adminPresses, pollFaults>>

Cap == StalledAfter + 1
Older(n) == IF n < Cap THEN n + 1 ELSE Cap
Never == Cap
WorkerSide == <<sup, engineOn, engineAge>>
RowSide == <<userRow, late>>

-----------------------------------------------------------------------------
(* What the console makes of the control row.                                  *)

online(c)   == c.age < STALE_AFTER
observed(c) == IF online(c) THEN c.state ELSE "offline"

(* Mutant: only what was reported counts as paused.                        *)
PausedAsReported(c) == c.state = "paused"
paused(c)   == observed(c) = "paused" \/ c.desired = "paused"
view(c)     == IF ~online(c) THEN "Offline" ELSE IF paused(c) THEN "Paused" ELSE "Running"
pendingDesired(c) == online(c) /\ c.desired # observed(c)

(* The three buttons; an action in flight is taken whole.                  *)
ShownStart(c) == ~(online(c) /\ ~paused(c))
ShownStop(c)  == ~paused(c)

AdminPress == adminPresses < MaxAdminPresses /\ adminPresses' = adminPresses + 1

setSupervisorDesiredState(s) == control' = [control EXCEPT !.desired = s]

Start == /\ AdminPress /\ ShownStart(control)
         /\ setSupervisorDesiredState("running")
         /\ UNCHANGED <<user, eligible, offAge, missed, RowSide, pollFaults>> /\ UNCHANGED WorkerSide

Stop == /\ AdminPress /\ ShownStop(control)
        /\ setSupervisorDesiredState("paused")
        /\ UNCHANGED <<user, eligible, offAge, missed, RowSide, pollFaults>> /\ UNCHANGED WorkerSide

(* requestSupervisorRestart also lifts a pause.                            *)
Restart == /\ AdminPress
           /\ control' = [control EXCEPT !.desired = "running", !.seq = @ + 1]
           /\ UNCHANGED <<user, eligible, offAge, missed, RowSide, pollFaults>>
           /\ UNCHANGED WorkerSide

-----------------------------------------------------------------------------
(* A row of the user table.                                                    *)

stalled(u) == u.active /\ u.beat > StalledAfter
ShownStopBot == user.active /\ userRow.calls = <<>>

adminDisableBot ==
  /\ AdminPress /\ ShownStopBot
  /\ user' = [user EXCEPT !.active = FALSE, !.live = FALSE]
  /\ offAge' = 0 /\ missed' = 0
  /\ UNCHANGED <<control, eligible, RowSide, pollFaults>> /\ UNCHANGED WorkerSide

(* The user switches it on again, with keys linked.                        *)
UserTurnsOn ==
  /\ AdminPress /\ ~user.active /\ eligible
  /\ user' = [user EXCEPT !.active = TRUE]
  /\ UNCHANGED <<control, eligible, offAge, missed, RowSide, pollFaults>>
  /\ UNCHANGED WorkerSide

(* apply: shown at once and sent; the menu stays open to a second choice   *)
(* while the first is on its way.  The page sends its calls one after      *)
(* another.                                                                *)
apply(p) ==
  /\ AdminPress /\ p # userRow.tier
  /\ userRow' = [userRow EXCEPT !.tier = p, !.calls = Append(@,
        [tier |-> p, prev |-> userRow.tier, alone |-> userRow.calls = <<>>])]
  /\ UNCHANGED <<control, user, eligible, offAge, missed, late, pollFaults>>
  /\ UNCHANGED WorkerSide

(* adminSetTier: a paid plan is a 30-day grant, free clears the period.    *)
Stored(t) == user' = [user EXCEPT !.tier = t, !.granted = t # "free"]

(* A choice made with nothing in flight and accepted makes good what an    *)
(* earlier one spoiled.                                                    *)
applyArrives ==
  /\ userRow.calls # <<>>
  /\ Stored(Head(userRow.calls).tier)
  /\ userRow' = [userRow EXCEPT !.calls = Tail(@),
                                !.spoiled = @ /\ ~Head(userRow.calls).alone]
  /\ UNCHANGED <<control, eligible, offAge, missed, late, adminPresses, pollFaults>>
  /\ UNCHANGED WorkerSide

(* Mutant: the failed choice stays on show.                                *)
KeptTier == userRow.tier
RolledTier == Head(userRow.calls).prev

(* A refusal rolls back what is shown, be it a later choice by then.       *)
applyFails ==
  /\ userRow.calls # <<>> /\ pollFaults < MaxPollFaults
  /\ userRow' = [userRow EXCEPT !.tier = RolledTier, !.calls = Tail(@),
                                !.spoiled = @ \/ Tail(userRow.calls) # <<>>]
  /\ pollFaults' = pollFaults + 1
  /\ UNCHANGED <<control, user, eligible, offAge, missed, late, adminPresses>>
  /\ UNCHANGED WorkerSide

(* The page is loaded anew and shows what is stored.  The call it had sent *)
(* may still be on its way; those queued behind it are gone.               *)
PageReloads ==
  /\ AdminPress
  /\ userRow' = [tier |-> user.tier, calls |-> <<>>, spoiled |-> FALSE]
  /\ late' = late \cup {userRow.calls[i].tier : i \in DOMAIN userRow.calls \cap {1}}
  /\ UNCHANGED <<control, user, eligible, offAge, missed, pollFaults>>
  /\ UNCHANGED WorkerSide

(* One member of late stands for every such call of its plan.              *)
LateCallArrives(t) ==
  /\ t \in late /\ late' \in {late, late \ {t}}
  /\ Stored(t)
  /\ userRow' = [userRow EXCEPT !.spoiled = TRUE]
  /\ UNCHANGED <<control, eligible, offAge, missed, adminPresses, pollFaults>>
  /\ UNCHANGED WorkerSide

(* The plan changes elsewhere: in another tab of the console, or by a      *)
(* checkout, which names the new plan before it is paid for.               *)
ChangedElsewhere(t) ==
  /\ AdminPress
  /\ Stored(t) \/ (t # "free" /\ user' = [user EXCEPT !.tier = t])
  /\ userRow' = [userRow EXCEPT !.spoiled = TRUE]
  /\ UNCHANGED <<control, eligible, offAge, missed, late, pollFaults>>
  /\ UNCHANGED WorkerSide

-----------------------------------------------------------------------------
(* The supervisor's poll, split where it writes.                           *)

SupSide == UNCHANGED <<eligible, offAge, RowSide, adminPresses>>

(* _tick reads the regime; paused stops every engine and says so.          *)
ReadControl ==
  /\ sup.pc = "read"
  /\ IF control.desired = "paused"
       THEN /\ engineOn' = FALSE /\ engineAge' = 0
            /\ sup' = [sup EXCEPT !.pc = "status", !.said = "paused"]
       ELSE /\ sup' = [sup EXCEPT !.pc = "reconcile", !.said = "running",
                                  !.applied = control.seq]
            /\ engineOn' = (engineOn /\ sup.applied = control.seq)
            /\ engineAge' = IF engineOn' THEN engineAge ELSE 0
  /\ UNCHANGED <<control, user, pollFaults>> /\ SupSide /\ UNCHANGED missed

(* Mutant: engines of users that are no longer active are left running.    *)
KeepsEngine == engineOn \/ (user.active /\ eligible)

(* _reconcile: the engine of an active user with keys runs...              *)
WantsEngine == user.active /\ eligible

(* ...and its heartbeat is written before the status of the poll.          *)
Reconcile ==
  /\ sup.pc = "reconcile"
  /\ engineOn' = WantsEngine
  /\ engineAge' = IF engineOn' /\ engineOn THEN engineAge ELSE 0
  /\ user' = IF user.active /\ eligible THEN [user EXCEPT !.beat = 0] ELSE user
  /\ sup' = [sup EXCEPT !.pc = "status"]
  /\ UNCHANGED <<control, pollFaults>> /\ SupSide /\ UNCHANGED missed

write_status ==
  /\ sup.pc = "status"
  /\ control' = [control EXCEPT !.state = sup.said, !.age = 0]
  /\ sup' = [sup EXCEPT !.pc = "slept"]
  /\ UNCHANGED <<user, engineOn, engineAge, pollFaults>> /\ SupSide /\ UNCHANGED missed

(* The except of main: a poll that fails is logged and the loop goes on.   *)
PollFails ==
  /\ sup.pc \in {"read", "reconcile", "status"} /\ pollFaults < MaxPollFaults
  /\ sup' = [sup EXCEPT !.pc = "slept"]
  /\ pollFaults' = pollFaults + 1 /\ missed' = missed + 1
  /\ UNCHANGED <<control, user, engineOn, engineAge>> /\ SupSide

(* The process is shut down and stops its engines; started again, it has   *)
(* forgotten the restart number it applied.                                *)
SupervisorStops ==
  /\ sup.pc # "down" /\ pollFaults < MaxPollFaults
  /\ sup' = [pc |-> "down", said |-> "running", applied |-> 0]
  /\ engineOn' = FALSE /\ engineAge' = 0
  /\ pollFaults' = pollFaults + 1
  /\ UNCHANGED <<control, user>> /\ SupSide /\ UNCHANGED missed

SupervisorStarts ==
  /\ sup.pc = "down"
  /\ sup' = [sup EXCEPT !.pc = "read"]
  /\ UNCHANGED <<control, user, engineOn, engineAge, pollFaults>> /\ SupSide /\ UNCHANGED missed

(* time.sleep(POLL): the next poll follows this one by an interval.        *)
Interval ==
  /\ sup.pc \in {"slept", "down"}
  /\ control' = [control EXCEPT !.age = Older(@)]
  /\ user' = [user EXCEPT !.beat = Older(@)]
  /\ engineAge' = IF engineOn THEN Older(engineAge) ELSE 0
  /\ offAge' = Older(offAge)
  /\ sup' = [sup EXCEPT !.pc = IF @ = "slept" THEN "read" ELSE @]
  /\ UNCHANGED <<eligible, engineOn, missed, RowSide, adminPresses, pollFaults>>

-----------------------------------------------------------------------------
ConsoleInit ==
  /\ control = [desired |-> "running", seq |-> 0, state |-> "running", age |-> Never]
  /\ user = [active |-> TRUE, live |-> TRUE, beat |-> Never, tier |-> "free",
             granted |-> FALSE]
  /\ eligible \in BOOLEAN
  /\ sup = [pc |-> "read", said |-> "running", applied |-> 0]
  /\ engineOn = FALSE /\ engineAge = 0 /\ offAge = Cap /\ missed = 0
  /\ userRow = [tier |-> "free", calls |-> <<>>, spoiled |-> FALSE] /\ late = {}
  /\ adminPresses = 0 /\ pollFaults = 0

ConsoleNext ==
  \/ Start \/ Stop \/ Restart \/ adminDisableBot \/ UserTurnsOn
  \/ \E p \in Plans : apply(p)
  \/ applyArrives \/ applyFails \/ PageReloads
  \/ \E t \in Plans : LateCallArrives(t) \/ ChangedElsewhere(t)
  \/ ReadControl \/ Reconcile \/ write_status \/ PollFails
  \/ SupervisorStops \/ SupervisorStarts \/ Interval

ConsoleSpec == ConsoleInit /\ [][ConsoleNext]_consoleVars

-----------------------------------------------------------------------------
ConsoleTypeOK ==
  /\ control \in [desired : {"running", "paused"}, seq : 0 .. MaxAdminPresses,
                  state : {"running", "paused"}, age : 0 .. Cap]
  /\ user \in [active : BOOLEAN, live : BOOLEAN, beat : 0 .. Cap, tier : Plans,
               granted : BOOLEAN]
  /\ sup.pc \in {"read", "reconcile", "status", "slept", "down"}
  /\ engineOn \in BOOLEAN /\ engineAge \in 0 .. Cap /\ offAge \in 0 .. Cap
  /\ missed \in 0 .. MaxPollFaults
  /\ userRow.tier \in Plans /\ late \subseteq Plans

(* Engines that have run for as long as the console trusts a report can be *)
(* stopped from it: whatever polls failed since, a fresh page either sees  *)
(* them running or sees no report and offers Stop, and a pause that was    *)
(* asked for can be taken back (SupervisorControls.tsx 31-50).             *)
AlwaysAWayOut ==
  /\ engineOn /\ engineAge >= STALE_AFTER /\ control.desired = "running" => ShownStop(control)
  /\ control.desired = "paused" => ShownStart(control)

(* "force a user's bot off (supervisor stops it within one poll)"          *)
(* (queries.ts:753): an engine outlives the switch by an interval for each *)
(* poll that has failed since, and by one more, whatever the supervisor    *)
(* was doing when the switch was thrown; a supervisor that is started      *)
(* again in between does not bring it back.                                *)
OffWithinAPoll == engineOn /\ ~user.active => offAge <= missed + 1

(* With nothing in flight the plan on show is the stored one, after any    *)
(* number of choices made while others were on their way, accepted or      *)
(* refused, unless one was refused with a later one behind it, or a call   *)
(* of a page that was left came in, or the plan changed elsewhere, after   *)
(* this page was loaded; and then until it is loaded anew or a choice made *)
(* at rest is accepted (AdminUserRow.tsx:36-50).                           *)
PlanShownIsStored == userRow.calls = <<>> /\ ~userRow.spoiled => userRow.tier = user.tier
=============================================================================
