------------------------------ MODULE OrderPath ------------------------------
(***************************************************************************)
(* The LIVE order path of one trading engine: Executor.place, the order    *)
(* and position tables of bot.db it writes, the reconciliation of orders   *)
(* whose confirmation was lost, and the engine loop that drives them.      *)
(*                                                                         *)
(* The engine is one thread.  A step here is one SQLite transaction or one *)
(* network call of it with the local computation around it, so the process *)
(* can die between any two writes the code makes separately.  The exchange *)
(* is external: it takes an order or not, whatever the engine learns of    *)
(* it, fills it at once or over time, and may see a timed-out request      *)
(* late.                                                                   *)
(*                                                                         *)
(* Quantities count steps of the market's lot size.  Prices, fees and P&L  *)
(* are left out: no control decision modelled here reads them.             *)
(***************************************************************************)
EXTENDS Integers, FiniteSets, FiniteSetsExt

CONSTANTS
  Strategies,   \* names of the configured strategies
  MarketOf,     \* the one market each strategy trades
  Lot,          \* quantity sizing asks for when it opens a position
  MaxBar,       \* bound: closed candles of a behaviour
  MaxPosts,     \* bound: orders POSTed in a behaviour
  MaxCrashes,   \* bound: deaths of the engine process
  CrashPoints,  \* program points at which the process may die
  HealBars,     \* age, in bars, up to which the boot pass re-asks (days=3)
  Dedup,        \* the exchange refuses a client_order_id it already has
  Immediate,    \* the exchange settles a market order before it replies
  ReportsFill,  \* payloads carry filled_quantity (Binance), not only
                \* total_quantity (CoinDCX)
  MayDelay,     \* a timed-out request may still reach the exchange
  NoRequest     \* no call of place() or of the boot pass is in progress

Ts == 1..(MaxBar + 1)
Sides == {"buy", "sell"}

\* _coid hashes exactly (strategy, market, candle_ts, side); the market is
\* a function of the strategy, so this record is the client_order_id.
Coid == [strategy : Strategies, ts : Ts, side : Sides]

Statuses == {"none", "placed", "rejected", "error"}

Points == {"down", "heal", "top", "poll", "resolve", "gate", "post",
           "record", "noreply", "setpos", "halted"}

ASSUME ConstantsAssumption ==
  /\ Strategies # {} /\ IsFiniteSet(Strategies)
  /\ Lot \in Nat \ {0}
  /\ MaxBar \in Nat \ {0}
  /\ MaxPosts \in Nat
  /\ MaxCrashes \in Nat
  /\ HealBars \in Nat
  /\ CrashPoints \subseteq Points
  /\ {Dedup, Immediate, ReportsFill, MayDelay} \subseteq BOOLEAN

VARIABLES
  (* bot.db, durable *)
  status,   \* orders.status of each client_order_id, "none" if no row
  booked,   \* orders.qty of each placed row, signed
  pos,      \* positions.qty of each strategy
  (* engine process, lost when it dies *)
  pc,       \* what the engine thread does next
  req,      \* arguments and locals of the order in progress
  todo,     \* strategies run_once has still to visit in this cycle
  pending,  \* 'error' rows the boot pass has still to ask about
  (* the exchange and the world *)
  orders,   \* orders the exchange accepted
  wire,     \* timed-out requests that may still arrive
  coins,    \* what the bot's orders really bought minus sold
  posts,    \* POSTs issued so far
  bar,      \* time of the last closed candle
  kill,     \* the KILL file exists
  (* bookkeeping of the model *)
  crashes,  \* deaths so far
  lost,     \* client_order_ids whose fate bot.db stopped tracking
  late      \* orders sent since the KILL file appeared

db      == <<status, booked, pos>>
process == <<pc, req, todo, pending>>
market  == <<orders, wire, coins>>
vars == <<status, booked, pos, pc, req, todo, pending, orders, wire, coins,
          posts, bar, kill, crashes, lost, late>>

-----------------------------------------------------------------------------
(* Values *)

\* One accepted order.  n is the serial number of the POST that placed it.
Order == [coid : Coid, n : Nat, want : Nat, got : Nat, open : BOOLEAN]

Wired == [coid : Coid, n : Nat, want : Nat]

\* The locals of place() / resolve_one: the quantity, the position read
\* before the order, the fill to book, whether the row is reused, and where
\* the thread continues once the position is written.
Request == [coid : Coid, qty : Nat, old : Int, fill : Nat,
            reuse : BOOLEAN, next : {"poll", "heal"}]

Signed(coid, q) == IF coid.side = "buy" THEN q ELSE -q

Live(o) == o.open \/ o.got > 0

AtExchange(c) == {o \in orders : o.coid = c}

Newest(o) == \A p \in orders : p.coid = o.coid => p.n <= o.n

\* Mutant: the reply's filled quantity is ignored.
ReplyFillRequested(o) == o.want

\* executor.py's quantity to book for a create reply: the first of
\* filled_quantity, executed_quantity, total_quantity in (0, qty], else the
\* quantity asked for.
ReplyFill(o) == IF ReportsFill /\ o.got > 0 THEN o.got ELSE o.want

\* reconcile._fill_from: the first positive of the same fields, else 0.
StatusFill(o) == IF ReportsFill THEN o.got ELSE o.want

\* reconcile.resolve_one's verdict on an order the exchange knows.  priced:
\* the payload names a positive price.
Verdict(o, priced) ==
  CASE ~o.open /\ StatusFill(o) = 0 -> "dead"
    [] StatusFill(o) > 0 /\ priced /\ (o.got > 0 \/ ~o.open) -> "healed"
    [] OTHER -> "manual"

-----------------------------------------------------------------------------
(* Writes to bot.db, each its own transaction *)

\* audit.log_order: INSERT; the UNIQUE key ignores a second row.
LogOrder(c, st, q) ==
  IF status[c] = "none"
  THEN /\ status' = [status EXCEPT ![c] = st]
       /\ booked' = [booked EXCEPT ![c] = q]
  ELSE UNCHANGED <<status, booked>>

\* audit.heal_order: UPDATE by client_order_id; no row, no effect.
HealOrder(c, st, q) ==
  IF status[c] # "none"
  THEN /\ status' = [status EXCEPT ![c] = st]
       /\ booked' = [booked EXCEPT ![c] = q]
  ELSE UNCHANGED <<status, booked>>

\* Executor._record.
Record(c, st, q) ==
  IF req.reuse THEN HealOrder(c, st, q) ELSE LogOrder(c, st, q)

-----------------------------------------------------------------------------
(* The exchange and the network: external *)

Init ==
  /\ status = [c \in Coid |-> "none"]
  /\ booked = [c \in Coid |-> 0]
  /\ pos = [s \in Strategies |-> 0]
  /\ pc = "down" /\ req = NoRequest /\ todo = {} /\ pending = {}
  /\ orders = {} /\ wire = {} /\ coins = [s \in Strategies |-> 0]
  /\ posts = 0
  /\ bar = 1 /\ kill = FALSE
  /\ crashes = 0 /\ lost = {} /\ late = 0

\* The exchange takes order n of client_order_id c.  A market order fills
\* at once, in part, or later; o is the order as the exchange first knows it.
Takes(c, n, want, o) ==
  /\ Dedup => AtExchange(c) = {}
  /\ o.coid = c /\ o.n = n /\ o.want = want
  /\ o.got <= want
  /\ o.got = want => ~o.open
  /\ Immediate => ~o.open /\ o.got > 0
  /\ orders' = orders \cup {o}
  /\ coins' = [coins EXCEPT ![c.strategy] = @ + Signed(c, o.got)]

\* The forms an order for want may take when accepted.
Fresh(c, n, want) ==
  [coid : {c}, n : {n}, want : {want}, got : 0..want, open : BOOLEAN]

\* An order still open fills one more step.
Fill(o) ==
  /\ o.open
  /\ orders' = (orders \ {o}) \cup
       {[o EXCEPT !.got = @ + 1, !.open = o.got + 1 < o.want]}
  /\ coins' = [coins EXCEPT ![o.coid.strategy] = @ + Signed(o.coid, 1)]
  /\ UNCHANGED <<db, process, wire, posts, bar, kill, crashes, lost, late>>

\* The unfilled rest of an order is cancelled or expires.
Expire(o) ==
  /\ o.open
  /\ orders' = (orders \ {o}) \cup {[o EXCEPT !.open = FALSE]}
  /\ UNCHANGED <<db, process, wire, coins, posts, bar, kill, crashes, lost,
                 late>>

\* A request that timed out reaches the exchange after all, or dies.
Arrive(w) ==
  /\ wire' = wire \ {w}
  /\ \/ \E o \in Fresh(w.coid, w.n, w.want) : Takes(w.coid, w.n, w.want, o)
     \/ UNCHANGED <<orders, coins>>
  /\ UNCHANGED <<db, process, posts, bar, kill, crashes, lost, late>>

\* A candle closes.
NextBar ==
  /\ bar < MaxBar
  /\ bar' = bar + 1
  /\ UNCHANGED <<db, process, market, posts, kill, crashes, lost, late>>

\* The operator creates or deletes the KILL file.
SetKill ==
  /\ ~kill
  /\ kill' = TRUE /\ late' = 0
  /\ UNCHANGED <<db, process, market, posts, bar, crashes, lost>>

ClearKill ==
  /\ kill
  /\ kill' = FALSE /\ late' = 0
  /\ UNCHANGED <<db, process, market, posts, bar, crashes, lost>>

-----------------------------------------------------------------------------
(* Asking the exchange what became of an 'error' row *)

\* Every path that declares c absent ends the book's interest in it; a
\* request of c still on the wire is then tracked by nobody.
Forget(c) ==
  lost' = IF \E w \in wire : w.coid = c THEN lost \cup {c} ELSE lost

\* reconcile.resolve_one, the answers that change no row: the lookup failed
\* (at any time), or the order is in a state that needs a human.
Unresolved == UNCHANGED <<db, lost>>

\* The exchange has no such order, or has it dead without a fill.
ResolveAbsent(c) ==
  /\ \/ AtExchange(c) = {}
     \/ \E o \in AtExchange(c), priced \in BOOLEAN :
          Newest(o) /\ (o.got > 0 => priced) /\ Verdict(o, priced) = "dead"
  /\ HealOrder(c, "rejected", 0)
  /\ Forget(c)
  /\ UNCHANGED pos

\* The exchange filled it: the row is healed in one transaction, then the
\* position is written in another (SetPosition).
ResolveFilled(c, next) ==
  /\ \E o \in AtExchange(c), priced \in BOOLEAN :
       /\ Newest(o) /\ (o.got > 0 => priced)
       /\ Verdict(o, priced) = "healed"
       /\ HealOrder(c, "placed", Signed(c, StatusFill(o)))
       /\ req' = [coid |-> c, qty |-> StatusFill(o), old |-> pos[c.strategy],
                  fill |-> StatusFill(o), reuse |-> TRUE, next |-> next]
  /\ pc' = "setpos"
  /\ UNCHANGED <<pos, lost>>

-----------------------------------------------------------------------------
(* Boot: Engine.run up to its loop *)

\* Mutant: the boot pass re-asks about every recent row, booked ones too.
BootAllRows ==
  /\ pc \in {"down", "halted"}
  /\ pc' = "heal"
  /\ pending' = {c \in Coid : status[c] # "none" /\ bar - c.ts <= HealBars}
  /\ UNCHANGED <<db, req, todo, market, posts, bar, kill, crashes, lost, late>>

\* The service manager starts the process; _startup_recovery lists the
\* recent 'error' rows.
Boot ==
  /\ pc \in {"down", "halted"}
  /\ pc' = "heal"
  /\ pending' = {c \in Coid : status[c] = "error" /\ bar - c.ts <= HealBars}
  /\ UNCHANGED <<db, req, todo, market, posts, bar, kill, crashes, lost, late>>

\* heal_lost_confirmations asks about one row.
HealRow(c) ==
  /\ pc = "heal" /\ c \in pending
  /\ pending' = pending \ {c}
  /\ \/ Unresolved /\ UNCHANGED <<pc, req>>
     \/ ResolveAbsent(c) /\ UNCHANGED <<pc, req>>
     \/ ResolveFilled(c, "heal")
  /\ UNCHANGED <<todo, market, posts, bar, kill, crashes, late>>

\* A failure that is not an ExchangeError (open circuit, clock halt) leaves
\* the pass; the engine logs it and starts with the remaining rows unasked.
HealAbort ==
  /\ pc = "heal" /\ pending # {}
  /\ pc' = "top" /\ pending' = {}
  /\ UNCHANGED <<db, req, todo, market, posts, bar, kill, crashes, lost, late>>

HealDone ==
  /\ pc = "heal" /\ pending = {}
  /\ pc' = "top"
  /\ UNCHANGED <<db, req, todo, pending, market, posts, bar, kill, crashes,
                 lost, late>>

-----------------------------------------------------------------------------
(* The engine loop and Executor.place *)

\* The kill file is looked at once per cycle, and halts the engine.
Halt ==
  /\ pc = "top" /\ kill
  /\ pc' = "halted"
  /\ UNCHANGED <<db, req, todo, pending, market, posts, bar, kill, crashes,
                 lost, late>>

\* Mutant: the loop does not look at the kill file.
StartCycleBlind ==
  /\ pc = "top"
  /\ pc' = "poll" /\ todo' = Strategies
  /\ UNCHANGED <<db, req, pending, market, posts, bar, kill, crashes, lost,
                 late>>

StartCycle ==
  /\ pc = "top" /\ ~kill
  /\ pc' = "poll" /\ todo' = Strategies
  /\ UNCHANGED <<db, req, pending, market, posts, bar, kill, crashes, lost,
                 late>>

EndCycle ==
  /\ pc = "poll" /\ todo = {}
  /\ pc' = "top"
  /\ UNCHANGED <<db, req, todo, pending, market, posts, bar, kill, crashes,
                 lost, late>>

\* No usable candles, HOLD, or an entry the engine's own filters drop.
Hold(s) ==
  /\ pc = "poll" /\ s \in todo
  /\ todo' = todo \ {s}
  /\ UNCHANGED <<db, pc, req, pending, market, posts, bar, kill, crashes,
                 lost, late>>

\* The orders run_once may hand to place(): an entry when flat; a ladder,
\* protective or signal exit of up to the whole position on the closed
\* candle; the crash brake's full exit on the candle in progress.
Intents(s) ==
  IF pos[s] <= 0
  THEN {[coid |-> [strategy |-> s, ts |-> bar, side |-> "buy"], qty |-> Lot]}
  ELSE {[coid |-> [strategy |-> s, ts |-> bar, side |-> "sell"], qty |-> q] :
          q \in 1..pos[s]}
       \cup
       {[coid |-> [strategy |-> s, ts |-> bar + 1, side |-> "sell"],
         qty |-> pos[s]]}

\* place() looks the client_order_id up first: no row, go on; an 'error'
\* row, ask the exchange; any other row, skip the order.
Decide(s) ==
  /\ pc = "poll" /\ s \in todo
  /\ todo' = todo \ {s}
  /\ \E i \in Intents(s) :
       LET r == [coid |-> i.coid, qty |-> i.qty, old |-> pos[s], fill |-> 0,
                 reuse |-> FALSE, next |-> "poll"]
       IN  \/ status[i.coid] = "none" /\ pc' = "gate" /\ req' = r
           \/ status[i.coid] = "error" /\ pc' = "resolve" /\ req' = r
           \/ status[i.coid] \in {"placed", "rejected"} /\ UNCHANGED <<pc,
                                                                       req>>
  /\ UNCHANGED <<db, pending, market, posts, bar, kill, crashes, lost, late>>

\* Mutant: a failed lookup frees the key too, and the order is sent again.
ResolveStuckBlind ==
  /\ pc = "resolve"
  /\ \/ Unresolved /\ pc' = "gate" /\ req' = [req EXCEPT !.reuse = TRUE]
     \/ /\ ResolveAbsent(req.coid)
        /\ pc' = "gate" /\ req' = [req EXCEPT !.reuse = TRUE]
     \/ ResolveFilled(req.coid, "poll")
  /\ UNCHANGED <<todo, pending, market, posts, bar, kill, crashes, late>>

\* Mutant: the order's locals are gone when the retry goes on.
ResolveStuckForgets ==
  /\ pc = "resolve"
  /\ \/ Unresolved /\ pc' = "poll" /\ req' = NoRequest
     \/ /\ ResolveAbsent(req.coid)
        /\ pc' = "gate" /\ req' = NoRequest
     \/ ResolveFilled(req.coid, "poll")
  /\ UNCHANGED <<todo, pending, market, posts, bar, kill, crashes, late>>

\* resolve_stuck_order: only a definitive absence frees the key for a
\* retry.  An exception that is not an ExchangeError ends the order here.
ResolveStuck ==
  /\ pc = "resolve"
  /\ \/ Unresolved /\ pc' = "poll" /\ req' = NoRequest
     \/ /\ ResolveAbsent(req.coid)
        /\ pc' = "gate" /\ req' = [req EXCEPT !.reuse = TRUE]
     \/ ResolveFilled(req.coid, "poll")
  /\ UNCHANGED <<todo, pending, market, posts, bar, kill, crashes, late>>

\* No-duplicate-asset: another strategy's position in this market.
HeldByOther(s) ==
  \E t \in Strategies \ {s} : MarketOf[t] = MarketOf[s] /\ pos[t] # 0

Increasing(c, old) ==
  old = 0 \/ (old > 0 <=> c.side = "buy")

\* RiskManager.check refuses.  Its limits on money (daily loss, drawdown,
\* exposure, trade counts) may refuse any order; they are modelled apart.
RiskRefuse ==
  /\ pc = "gate"
  /\ LogOrder(req.coid, "rejected", 0)
  /\ pc' = "poll" /\ req' = NoRequest
  /\ UNCHANGED <<pos, todo, pending, market, posts, bar, kill, crashes,
                 lost, late>>

\* Nothing is written: a market lookup raises, before the gate or behind it,
\* or the order is below the market's minimum quantity or notional.
Abandon ==
  /\ pc = "gate"
  /\ pc' = "poll" /\ req' = NoRequest
  /\ UNCHANGED <<db, todo, pending, market, posts, bar, kill, crashes,
                 lost, late>>

\* Mutant: the gate does not look at the kill file.
RiskPassBlind ==
  /\ pc = "gate"
  /\ Increasing(req.coid, req.old) => ~HeldByOther(req.coid.strategy)
  /\ posts < MaxPosts
  /\ pc' = "post"
  /\ UNCHANGED <<db, req, todo, pending, market, posts, bar, kill, crashes,
                 lost, late>>

RiskPass ==
  /\ pc = "gate" /\ ~kill
  /\ Increasing(req.coid, req.old) => ~HeldByOther(req.coid.strategy)
  /\ posts < MaxPosts
  /\ pc' = "post"
  /\ UNCHANGED <<db, req, todo, pending, market, posts, bar, kill, crashes,
                 lost, late>>

\* client.create_order issues the POST; it is answered, or its outcome is an
\* ExchangeError, or another exception that place() does not catch.
Issue ==
  /\ posts' = posts + 1
  /\ late' = IF kill THEN 1 + late ELSE late

\* The order is taken and the reply read.
PostAnswered ==
  /\ pc = "post"
  /\ Issue
  /\ \E o \in Fresh(req.coid, posts + 1, req.qty) :
       /\ Takes(req.coid, posts + 1, req.qty, o)
       /\ req' = [req EXCEPT !.fill = ReplyFill(o)]
  /\ pc' = "record"
  /\ UNCHANGED <<db, todo, pending, wire, bar, kill, crashes, lost>>

\* ExchangeError: the reply is lost after the order was taken, the request
\* is refused or never leaves, or it times out and is still under way.
PostFailed ==
  /\ pc = "post"
  /\ Issue
  /\ \/ /\ \E o \in Fresh(req.coid, posts + 1, req.qty) :
            Takes(req.coid, posts + 1, req.qty, o)
        /\ UNCHANGED wire
     \/ UNCHANGED market
     \/ /\ MayDelay
        /\ wire' = wire \cup {[coid |-> req.coid, n |-> posts + 1,
                               want |-> req.qty]}
        /\ UNCHANGED <<orders, coins>>
  /\ pc' = "noreply"
  /\ UNCHANGED <<db, req, todo, pending, bar, kill, crashes, lost>>

\* Any other exception unwinds to run_once and writes no row: raised before
\* the request leaves (open circuit, clock drift), or after the exchange took
\* the order (a reply that is no JSON, a failing markets() lookup).
PostRaised ==
  /\ pc = "post"
  /\ \/ UNCHANGED <<market, posts, late, lost>>
     \/ /\ Issue
        /\ \E o \in Fresh(req.coid, posts + 1, req.qty) :
             Takes(req.coid, posts + 1, req.qty, o)
        /\ lost' = lost \cup {req.coid}
        /\ UNCHANGED wire
  /\ pc' = "poll" /\ req' = NoRequest
  /\ UNCHANGED <<db, todo, pending, bar, kill, crashes>>

\* The fill goes into the order row ...
RecordPlaced ==
  /\ pc = "record"
  /\ Record(req.coid, "placed", Signed(req.coid, req.fill))
  /\ pc' = "setpos"
  /\ UNCHANGED <<pos, req, todo, pending, market, posts, bar, kill, crashes,
                 lost, late>>

\* Mutant: the position takes the quantity asked for, not the fill.
SetPositionRequested ==
  /\ pc = "setpos"
  /\ pos' = [pos EXCEPT ![req.coid.strategy] =
                req.old + Signed(req.coid, req.qty)]
  /\ pc' = req.next /\ req' = NoRequest
  /\ UNCHANGED <<status, booked, todo, pending, market, posts, bar, kill,
                 crashes, lost, late>>

\* ... and then, apart, into the position, computed from the quantity read
\* before the order (executor), or before the heal (reconcile).
SetPosition ==
  /\ pc = "setpos"
  /\ pos' = [pos EXCEPT ![req.coid.strategy] =
                req.old + Signed(req.coid, req.fill)]
  /\ pc' = req.next /\ req' = NoRequest
  /\ UNCHANGED <<status, booked, todo, pending, market, posts, bar, kill,
                 crashes, lost, late>>

\* Mutant: a lost reply is written down as a refusal.
RecordErrorAsRefusal ==
  /\ pc = "noreply"
  /\ Record(req.coid, "rejected", 0)
  /\ pc' = "poll" /\ req' = NoRequest
  /\ UNCHANGED <<pos, todo, pending, market, posts, bar, kill, crashes,
                 lost, late>>

\* An ExchangeError leaves an 'error' row and the position untouched.
RecordError ==
  /\ pc = "noreply"
  /\ Record(req.coid, "error", 0)
  /\ pc' = "poll" /\ req' = NoRequest
  /\ UNCHANGED <<pos, todo, pending, market, posts, bar, kill, crashes,
                 lost, late>>

\* The process dies.  The order in progress is lost to bot.db when it is at
\* the exchange, or on its way there, and not yet written down completely.
Crash ==
  /\ pc \in CrashPoints \ {"down", "halted"}
  /\ crashes < MaxCrashes
  /\ crashes' = crashes + 1
  /\ pc' = "down" /\ req' = NoRequest /\ todo' = {} /\ pending' = {}
  /\ lost' = IF /\ pc \in {"record", "noreply", "setpos"}
                /\ \E x \in orders \cup wire : x.coid = req.coid
             THEN lost \cup {req.coid} ELSE lost
  /\ UNCHANGED <<db, market, posts, bar, kill, late>>

-----------------------------------------------------------------------------

Heal == Boot \/ (\E c \in Coid : HealRow(c)) \/ HealAbort \/ HealDone

Place ==
  \/ ResolveStuck \/ RiskRefuse \/ Abandon \/ RiskPass
  \/ PostAnswered \/ PostFailed \/ PostRaised
  \/ RecordPlaced \/ SetPosition \/ RecordError

Loop ==
  \/ Halt \/ StartCycle \/ EndCycle
  \/ \E s \in Strategies : Hold(s) \/ Decide(s)

Engine == Heal \/ Loop \/ Place

Exchange ==
  \/ \E o \in orders : Fill(o) \/ Expire(o)
  \/ \E w \in wire : Arrive(w)

World == NextBar \/ SetKill \/ ClearKill

Next == Engine \/ Exchange \/ World \/ Crash

Spec == Init /\ [][Next]_vars

\* The engine thread keeps running while the process lives, and the service
\* manager (Restart=always, the supervisor) starts a dead one again.
FairSpec == Spec /\ WF_vars(Engine)

-----------------------------------------------------------------------------
(* Properties *)

\* Types of the store, the engine, the exchange and the bounds.
TypeOK ==
  /\ status \in [Coid -> Statuses]
  /\ booked \in [Coid -> Int]
  /\ pos \in [Strategies -> Int]
  /\ pc \in Points
  /\ pc \in {"resolve", "gate", "post", "record", "noreply", "setpos"}
       => req \in Request
  /\ todo \subseteq Strategies
  /\ pending \subseteq Coid
  /\ orders \subseteq Order
  /\ wire \subseteq Wired
  /\ coins \in [Strategies -> Int]
  /\ posts \in Nat
  /\ bar \in 1..MaxBar
  /\ kill \in BOOLEAN
  /\ crashes \in 0..MaxCrashes
  /\ lost \subseteq Coid
  /\ late \in Nat

\* A decision has at most one order that fills or may fill at the exchange,
\* through lost replies, boot healing, retries on the same bar and crashes:
\* a second one is possible only for a client_order_id bot.db lost track of
\* (executor.py: "a blind resend could double-fire").
OneLiveOrder ==
  \A o, p \in orders :
    o.coid = p.coid /\ o.coid \notin lost /\ Live(o) /\ Live(p) => o = p

-----------------------------------------------------------------------------
(* The invariant behind OneLiveOrder, KillBound and ImplementsLog *)

\* resolve_one would not declare the order dead.
Stands(o) == o.open \/ StatusFill(o) > 0

\* Sent, and its row not yet written.
InHand(c) == pc \in {"record", "noreply"} /\ req.coid = c

\* A serial number names one POST, at the exchange or on the wire.
Serials ==
  /\ \A x \in orders \cup wire : x.n \in 1..posts /\ x.want > 0
  /\ \A o, p \in orders : o.n = p.n => o = p
  /\ \A v, w \in wire : v.n = w.n => v = w
  /\ \A o \in orders, w \in wire : o.n # w.n

\* An order that may have traded is the newest of its client_order_id, the
\* one a lookup finds, and bot.db has a row that says so.
Standing ==
  \A o \in orders : Stands(o) /\ o.coid \notin lost =>
    /\ Newest(o)
    /\ status[o.coid] \in {"placed", "error"} \/ InHand(o.coid)

\* A request still on the wire is the only one of its client_order_id that
\* can still trade, and bot.db has it in doubt.
OnWire ==
  \A w \in wire : w.coid \notin lost =>
    /\ \A o \in AtExchange(w.coid) : ~Stands(o) /\ o.n < w.n
    /\ \A v \in wire : v.coid = w.coid => v = w
    /\ status[w.coid] = "error" \/ (pc = "noreply" /\ req.coid = w.coid)

\* What place() and the boot pass rely on from one step to the next.
InProgress ==
  /\ pc = "resolve" => status[req.coid] = "error"
  /\ pc \in {"gate", "post", "record", "noreply"} =>
       status[req.coid] = IF req.reuse THEN "rejected" ELSE "none"
  /\ pc \in {"resolve", "gate", "post", "record", "noreply", "setpos"} =>
       req.old = pos[req.coid.strategy]
  /\ pc \in {"resolve", "gate", "post", "record", "noreply"} =>
       req.qty > 0 /\ req.next = "poll"
  /\ pc \in {"record", "setpos"} => req.fill > 0
  /\ \A c \in pending : status[c] = "error"
  /\ pending # {} => pc = "heal" \/ (pc = "setpos" /\ req.next = "heal")

\* Between two looks at the kill file at most one order is past the gate.
Late ==
  /\ late <= 1
  /\ ~kill => late = 0
  /\ pc = "post" => late = 0

\* No decision loses its order: at every step a standing order, a request on
\* the wire and the order in progress agree with the rows of bot.db, so a
\* lookup that answers "absent" is right whenever it frees a key.
Tracking ==
  TypeOK /\ Serials /\ Standing /\ OnWire /\ InProgress /\ Late

-----------------------------------------------------------------------------
(* The book *)

\* What the placed rows of a strategy add up to.
BookedNet(s) ==
  MapThenSumSet(LAMBDA c : booked[c],
                {c \in Coid : c.strategy = s /\ status[c] = "placed"})

Tracked(s) == \A c \in lost : c.strategy # s

Unwritten(s) ==
  IF pc = "setpos" /\ req.coid.strategy = s
  THEN Signed(req.coid, req.fill) ELSE 0

\* The positions table is the sum of the placed orders: no interleaving of
\* orders, heals and retries books a fill twice or drops one, unless the
\* process died between the two writes of one.
PositionIsLedger ==
  \A s \in Strategies : Tracked(s) => pos[s] + Unwritten(s) = BookedNet(s)

InDoubt(s) ==
  \/ \E c \in Coid : c.strategy = s /\ status[c] = "error"
  \/ pc \in {"record", "noreply", "setpos"} /\ req.coid.strategy = s

\* With no order in doubt, the book holds exactly what the strategy's orders
\* traded at the exchange (README, "a partial fill can never desync the
\* book"), when market orders settle at once and payloads report the fill.
BookAgrees ==
  Immediate /\ ReportsFill =>
    \A s \in Strategies : Tracked(s) /\ ~InDoubt(s) => pos[s] = coins[s]

\* While its fill is being written down, an order is at the exchange.
Written == pc \in {"record", "setpos"} => AtExchange(req.coid) # {}

\* What the orders of each client_order_id traded, if it has only one.
Traded == [c \in Coid |->
  Signed(c, (CHOOSE got \in {o.got : o \in AtExchange(c)} : TRUE))]

\* The client_order_ids of a strategy that reached the exchange.
Sent(s) == {c \in Coid : c.strategy = s /\ AtExchange(c) # {}}

\* Every order traded at once what its reply reports, the rows and the fill
\* about to be booked say the same, and the coins of a strategy bot.db keeps
\* track of are what its decisions traded.
Settled ==
  /\ \A o \in orders : ~o.open /\ o.got > 0
  /\ \A c \in Coid \ lost :
       status[c] = "placed" => AtExchange(c) # {} /\ booked[c] = Traded[c]
  /\ pc \in {"record", "setpos"} /\ req.coid \notin lost =>
       Signed(req.coid, req.fill) = Traded[req.coid]
  /\ \A s \in Strategies : Tracked(s) =>
       coins[s] = MapThenSumSet(LAMBDA c : Traded[c], Sent(s))

\* The book and the exchange, step by step: what is written down, what is
\* about to be, and what was traded agree for every decision bot.db tracks.
Ledger ==
  /\ Tracking /\ Written /\ PositionIsLedger
  /\ Immediate /\ ReportsFill => Settled

\* At most one order leaves after the KILL file appears: the one whose gate
\* was passed before (README, "checked before every order").
KillBound == late <= 1

\* Once the KILL file is there the engine ends up halted, from anywhere in
\* boot, a cycle or an order, whatever the exchange answers.
KillHalts == kill ~> (pc = "halted" \/ ~kill)

\* The decision log this module implements: a decision is in doubt while its
\* row says 'error', and the strategy holds its position with the fill that
\* is about to be written to it.
FateOf(st) ==
  CASE st = "none" -> "none" [] st = "rejected" -> "refused"
    [] st = "error" -> "unknown" [] st = "placed" -> "filled"

Log == INSTANCE DecisionLog WITH
  Decisions <- Coid,
  fate <- [c \in Coid |-> FateOf(status[c])],
  holding <- [s \in Strategies |-> pos[s] + Unwritten(s)]

\* The order path implements the decision log: no step fills a decision a
\* second time, forgets a fill, or moves a position without one (audit.py,
\* "re-submitting the same logical order is rejected by the DB").
ImplementsLog == Log!Spec

\* Documented: a decision is never at the exchange twice, "even after a
\* crash/restart" (executor.py:6-8).
NeverTwice ==
  \A o, p \in orders : o.coid = p.coid /\ Live(o) /\ Live(p) => o = p

\* Documented: positions survive any restart, "a crash/restart never loses
\* safety accounting" (audit.py:5-6).
RestartSafe == \A s \in Strategies : pos[s] + Unwritten(s) = BookedNet(s)
=============================================================================
