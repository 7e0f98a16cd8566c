------------------------------- MODULE Account -------------------------------
(***************************************************************************)
(* One user's bot settings and what runs behind them: the server actions   *)
(* of the web app that link exchange keys, switch the bot on and off, arm  *)
(* live trading and edit the strategies (app/actions.ts, lib/queries.ts),  *)
(* each split at its awaits so that requests of two tabs interleave; the   *)
(* supervisor's poll that starts and stops the engine; the engine's book;  *)
(* and the publisher that copies the book to the table of positions the    *)
(* web app reads (worker/store.py publish).                                *)
(***************************************************************************)
EXTENDS Naturals, FiniteSets

CONSTANTS Exchanges,    \* supported venues
          Ids,          \* strategy row ids
          MaxRequests,  \* requests in flight at once
          MaxFailures,  \* database calls that fail, and requests that die
          MaxTrades     \* positions the engine ever opens

ASSUME AccountAssumption ==
    /\ Exchanges \cap {"none", "unknown"} = {}
    /\ MaxRequests \in Nat /\ MaxFailures \in Nat /\ MaxTrades \in Nat

VARIABLES creds,      \* venue of the linked keys, or "none"
          active,     \* bot_state.active
          live,       \* bot_state.live
          rows,       \* user_strategies: id -> enabled
          requests,   \* server actions in flight
          engine,     \* the user's engine process
          book,       \* the engine's own open position: number 0 is none
          opened,     \* positions opened so far, a position's number
          published,  \* the position in the read model
          sig,        \* what the supervisor remembers having published
          pub,        \* the publisher: idle, or the snapshot it is about to insert
          failures,   \* failed calls so far
          lost,       \* history: a call took effect but its reply was lost
          armedFor,   \* history: the venue the last go-live request read
          overlapped  \* history: that request overlapped one that stores keys

accountVars == <<creds, active, live, rows, requests, engine, book, opened, published, sig, pub,
          failures, lost, armedFor, overlapped>>
web == <<creds, active, live, rows, requests, armedFor, overlapped>>
worker == <<engine, book, opened, published, sig, pub, lost>>

NoPosition == [n |-> 0, venue |-> "none"]
Positions == [n : 0..MaxTrades, venue : Exchanges \cup {"none"}]
Off == [on |-> FALSE, venue |-> "none"]
Unknown == [n |-> 0, venue |-> "unknown"]
Idle == [busy |-> FALSE, at |-> NoPosition]

Request ==
    [op : {"save"}, pc : {"open", "dry", "write"}, ex : Exchanges, switching : BOOLEAN]
    \cup [op : {"goLive"}, pc : {"write"}, ex : Exchanges]
    \cup [op : {"turnOn"}, pc : {"write"}]
    \cup [op : {"add"}, pc : {"insert"}]

AccountTypeOK ==
    /\ creds \in Exchanges \cup {"none"} /\ active \in BOOLEAN /\ live \in BOOLEAN
    /\ DOMAIN rows \subseteq Ids /\ \A i \in DOMAIN rows : rows[i] \in BOOLEAN
    /\ requests \subseteq Request /\ Cardinality(requests) <= MaxRequests
    /\ engine \in [on : BOOLEAN, venue : Exchanges \cup {"none"}]
    /\ opened \in 0..MaxTrades /\ book \in Positions /\ published \in Positions
    /\ sig \in Positions \cup {Unknown}
    /\ pub \in [busy : BOOLEAN, at : Positions]
    /\ failures \in 0..MaxFailures
    /\ armedFor \in Exchanges \cup {"none"} /\ overlapped \in BOOLEAN /\ lost \in BOOLEAN

AccountInit ==
    /\ creds = "none" /\ active = FALSE /\ live = FALSE
    /\ rows = [i \in {} |-> TRUE]
    /\ requests = {}
    /\ engine = Off /\ book = NoPosition /\ opened = 0
    /\ published = NoPosition /\ sig = Unknown /\ pub = Idle
    /\ failures = 0 /\ lost = FALSE
    /\ armedFor = "none" /\ overlapped = FALSE

-----------------------------------------------------------------------------
(* Requests *)

\* Answer: the request leaves and what it does not name stays.
Done(r) == requests' = requests \ {r}
Step(r, pc) == requests' = (requests \ {r}) \cup {[r EXCEPT !.pc = pc]}
Room == Cardinality(requests) < MaxRequests
Begin(r) == Room /\ r \notin requests /\ requests' = requests \cup {r}
Saving == {r \in requests : r.op = "save"}

-----------------------------------------------------------------------------
(* saveCredentialsAction *)

\* Reads the linked exchange and decides whether this is a switch.
SaveBegin(ex) ==
    LET switching == creds # "none" /\ creds # ex
    IN /\ Begin([op |-> "save", pc |-> IF switching THEN "open" ELSE "write", ex |-> ex,
                 switching |-> switching])
       /\ overlapped' = (overlapped \/ \E r \in requests : r.op = "goLive")
       /\ UNCHANGED <<creds, active, live, rows, armedFor, failures>> /\ UNCHANGED worker

\* Looks for open positions in the read model: refuses the switch if there is one.
SaveOpenPositions(r) ==
    /\ r \in requests /\ r.op = "save" /\ r.pc = "open"
    /\ IF published.n # 0 THEN Done(r) ELSE Step(r, "dry")
    /\ UNCHANGED <<creds, active, live, rows, armedFor, overlapped, failures>>
    /\ UNCHANGED worker

\* Mutant: the switch leaves the live flag alone.
SaveStaysArmed(r) ==
    /\ r \in requests /\ r.op = "save" /\ r.pc = "dry"
    /\ Step(r, "write")
    /\ UNCHANGED <<creds, active, live, rows, armedFor, overlapped, failures>> /\ UNCHANGED worker

\* Drops back to DRY_RUN before the keys change.
SaveGoDry(r) ==
    /\ r \in requests /\ r.op = "save" /\ r.pc = "dry"
    /\ live' = FALSE
    /\ Step(r, "write")
    /\ UNCHANGED <<creds, active, rows, armedFor, overlapped, failures>> /\ UNCHANGED worker

\* Stores the keys. The markets of the saved strategies are re-spelled after it (Templates.marketFor).
SaveKeys(r) ==
    /\ r \in requests /\ r.op = "save" /\ r.pc = "write"
    /\ creds' = r.ex
    /\ Done(r)
    /\ UNCHANGED <<active, live, rows, armedFor, overlapped, failures>> /\ UNCHANGED worker

-----------------------------------------------------------------------------
(* setBotAction and goLiveAction *)

\* setBotState: one upsert; a field that is not named keeps its value.
setBotState(a, l) ==
    /\ active' = IF a = "keep" THEN active ELSE a = "on"
    /\ live' = IF l = "keep" THEN live ELSE l = "on"

\* The off direction is never gated; the admin's kill switch clears both flags.
TurnOff ==
    /\ \/ setBotState("off", "keep")
       \/ setBotState("keep", "off")
       \/ setBotState("off", "off")
    /\ UNCHANGED <<creds, rows, requests, armedFor, overlapped, failures>>
    /\ UNCHANGED worker

TurnOnBegin ==
    /\ creds # "none"
    /\ Begin([op |-> "turnOn", pc |-> "write"])
    /\ UNCHANGED <<creds, active, live, rows, armedFor, overlapped, failures>>
    /\ UNCHANGED worker

TurnOn(r) ==
    /\ r \in requests /\ r.op = "turnOn"
    /\ setBotState("on", "keep")
    /\ Done(r)
    /\ UNCHANGED <<creds, rows, armedFor, overlapped, failures>> /\ UNCHANGED worker

\* The typed phrase is right: keys linked and a strategy enabled are checked on one read ...
GoLiveBegin ==
    /\ creds # "none" /\ \E i \in DOMAIN rows : rows[i]
    /\ Begin([op |-> "goLive", pc |-> "write", ex |-> creds])
    /\ UNCHANGED <<creds, active, live, rows, armedFor, overlapped, failures>>
    /\ UNCHANGED worker

\* ... and the flag is raised by a later call.
GoLive(r) ==
    /\ r \in requests /\ r.op = "goLive"
    /\ setBotState("keep", "on")
    /\ Done(r)
    /\ armedFor' = r.ex
    /\ overlapped' = (Saving # {} \/ creds # r.ex)
    /\ UNCHANGED <<creds, rows, failures>> /\ UNCHANGED worker

-----------------------------------------------------------------------------
(* addStrategiesAction, toggleStrategyAction, removeStrategyAction *)

\* The consents and the exchange are read first ...
AddBegin ==
    /\ Begin([op |-> "add", pc |-> "insert"])
    /\ UNCHANGED <<creds, active, live, rows, armedFor, overlapped, failures>>
    /\ UNCHANGED worker

\* ... then the row is inserted, enabled: no tier limits the enabled rows.
addStrategy(r, id) ==
    /\ r \in requests /\ r.op = "add"
    /\ id \in Ids \ DOMAIN rows
    /\ rows' = [i \in DOMAIN rows \cup {id} |-> IF i = id THEN TRUE ELSE rows[i]]
    /\ Done(r)
    /\ UNCHANGED <<creds, active, live, armedFor, overlapped, failures>> /\ UNCHANGED worker

setStrategyEnabled(id, enabled) ==
    /\ id \in DOMAIN rows
    /\ rows' = [rows EXCEPT ![id] = enabled]
    /\ UNCHANGED <<creds, active, live, requests, armedFor, overlapped, failures>>
    /\ UNCHANGED worker

removeStrategy(id) ==
    /\ id \in DOMAIN rows
    /\ rows' = [i \in DOMAIN rows \ {id} |-> rows[i]]
    /\ UNCHANGED <<creds, active, live, requests, armedFor, overlapped, failures>>
    /\ UNCHANGED worker

\* A database call of a request fails: the action throws, what it wrote stays.
RequestDies(r) ==
    /\ r \in requests /\ failures < MaxFailures
    /\ failures' = failures + 1
    /\ Done(r)
    /\ UNCHANGED <<creds, active, live, rows, armedFor, overlapped>> /\ UNCHANGED worker

-----------------------------------------------------------------------------
(* The worker *)

Desired == active /\ creds # "none"

\* Mutant: the snapshot is remembered before it is inserted.
PollRemembers ==
    /\ ~pub.busy
    /\ engine' = IF Desired THEN [on |-> TRUE, venue |-> creds] ELSE Off
    /\ LET stale == Desired /\ book # sig IN
        /\ pub' = IF stale THEN [busy |-> TRUE, at |-> book] ELSE pub
        /\ published' = IF stale THEN NoPosition ELSE published
        /\ sig' = IF stale THEN book ELSE sig
    /\ UNCHANGED <<book, opened, lost, failures>> /\ UNCHANGED web

\* A poll starts, recycles or stops the user's engine, then projects the book of a user
\* that is switched on and publishes it if it is not what was published last.
Poll ==
    /\ ~pub.busy
    /\ engine' = IF Desired THEN [on |-> TRUE, venue |-> creds] ELSE Off
    /\ LET stale == Desired /\ book # sig IN
        /\ pub' = IF stale THEN [busy |-> TRUE, at |-> book] ELSE pub
        /\ published' = IF stale THEN NoPosition ELSE published
    /\ UNCHANGED <<book, opened, sig, lost, failures>> /\ UNCHANGED web

\* The snapshot is inserted by a second call, and only then remembered.
PublishInsert ==
    /\ pub.busy
    /\ published' = pub.at /\ sig' = pub.at /\ pub' = Idle
    /\ UNCHANGED <<engine, book, opened, lost, failures>> /\ UNCHANGED web

\* The insert fails: without effect, or only its reply is lost.
PublishFails ==
    /\ pub.busy /\ failures < MaxFailures
    /\ failures' = failures + 1
    /\ pub' = Idle
    /\ \/ UNCHANGED <<published, lost>>
       \/ published' = pub.at /\ lost' = TRUE
    /\ UNCHANGED <<engine, book, opened, sig>> /\ UNCHANGED web

\* The memory of what was published is gone with the supervisor's process.
SupervisorRestarts ==
    /\ failures < MaxFailures /\ failures' = failures + 1
    /\ sig' = Unknown /\ pub' = Idle /\ engine' = Off
    /\ UNCHANGED <<book, opened, published, lost>> /\ UNCHANGED web

\* The engine opens a position on its venue, and closes one it can reach.
EngineBuys ==
    /\ engine.on /\ book.n = 0 /\ opened < MaxTrades
    /\ opened' = opened + 1
    /\ book' = [n |-> opened', venue |-> engine.venue]
    /\ UNCHANGED <<engine, published, sig, pub, lost, failures>> /\ UNCHANGED web

EngineSells ==
    /\ engine.on /\ book.n # 0 /\ book.venue = engine.venue
    /\ book' = NoPosition /\ opened' = opened
    /\ UNCHANGED <<engine, published, sig, pub, lost, failures>> /\ UNCHANGED web

Actions ==
    \/ \E ex \in Exchanges : SaveBegin(ex)
    \/ \E r \in requests :
        \/ SaveOpenPositions(r) \/ SaveGoDry(r) \/ SaveKeys(r)
        \/ TurnOn(r) \/ GoLive(r) \/ RequestDies(r)
        \/ \E id \in Ids : addStrategy(r, id)
    \/ TurnOff \/ TurnOnBegin \/ GoLiveBegin \/ AddBegin
    \/ \E id \in Ids : removeStrategy(id) \/ \E b \in BOOLEAN : setStrategyEnabled(id, b)

Worker == Poll \/ PublishInsert \/ PublishFails \/ SupervisorRestarts
Engine == EngineBuys \/ EngineSells

AccountNext == Actions \/ Worker \/ Engine

AccountSpec == AccountInit /\ [][AccountNext]_accountVars

-----------------------------------------------------------------------------
(* Properties *)

\* Real-money trading on a new venue needs its own go-live confirmation (actions.ts:53-54):
\* the keys that are armed are those of the venue the confirmation was given for, unless
\* a confirmation was in flight together with a request that stores keys.
DryUntilConfirmed == (live /\ creds # armedFor) => overlapped

\* What the dashboard shows is never stuck: if the read model differs from what the
\* supervisor remembers having published, the book differs too and the next poll of an
\* active user publishes again, whatever calls fail (store.py:244-256). A lost reply is
\* the one exception.
NeverStuckStale == (~lost /\ ~pub.busy /\ published # sig /\ sig # Unknown) => book # sig

\* Turning the bot off leaves open positions managed to their exit (risk.ts:36).
StillManaged == [][(Poll /\ book.n # 0 /\ creds # "none") => engine'.on]_accountVars

=============================================================================
