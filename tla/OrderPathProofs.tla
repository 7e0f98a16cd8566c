--------------------------- MODULE OrderPathProofs ---------------------------
(***************************************************************************)
(* Proofs about OrderPath, for every set of strategies, every assignment   *)
(* of markets, every bound and every kind of exchange its constants admit: *)
(* what the order path records of each order, and the book of one engine   *)
(* (that its positions are the sum of its placed rows, and that they are   *)
(* what the strategy's orders traded).  Then, about the calls it makes     *)
(* (ApiClient), for every threshold, cooldown, cap, bucket size and number *)
(* of attempts: who passes a circuit breaker, and when.                    *)
(***************************************************************************)
EXTENDS OrderPath, ApiClient, Recursion, TLAPS

USE DEF Statuses, Points

-----------------------------------------------------------------------------
(* Types *)

\* The forms an order may take when accepted are orders.
LEMMA FreshType ==
  ASSUME NEW c \in Coid, NEW n \in Nat, NEW want \in Nat
  PROVE  Fresh(c, n, want) \subseteq Order
BY DEF Fresh, Order

\* Accepting an order keeps the exchange's records well-typed.
LEMMA TakesType ==
  ASSUME TypeOK, NEW c \in Coid, NEW n \in Nat, NEW want \in Nat,
         NEW o \in Fresh(c, n, want), Takes(c, n, want, o)
  PROVE  orders' \subseteq Order /\ coins' \in [Strategies -> Int]
<1>1. o \in Order
  BY FreshType
<1>2. o.got \in Nat /\ Signed(c, o.got) \in Int /\ c.strategy \in Strategies
  BY <1>1 DEF Order, Signed, Coid
<1> QED
  BY <1>1, <1>2 DEF Takes, TypeOK

\* The transactions on the orders table keep it well-typed.
LEMMA WriteType ==
  ASSUME TypeOK, NEW c \in Coid, NEW st \in Statuses, NEW q \in Int,
         LogOrder(c, st, q) \/ HealOrder(c, st, q)
  PROVE  status' \in [Coid -> Statuses] /\ booked' \in [Coid -> Int]
BY DEF TypeOK, LogOrder, HealOrder

\* So does either answer of resolve_one that writes.
LEMMA AbsentType ==
  ASSUME TypeOK, NEW c \in Coid, ResolveAbsent(c)
  PROVE  /\ status' \in [Coid -> Statuses] /\ booked' \in [Coid -> Int]
         /\ pos' \in [Strategies -> Int] /\ lost' \subseteq Coid
<1>1. status' \in [Coid -> Statuses] /\ booked' \in [Coid -> Int]
  <2>1. HealOrder(c, "rejected", 0)
    BY DEF ResolveAbsent
  <2> QED
    BY <2>1, WriteType
<1>2. lost' \subseteq Coid
  BY DEF ResolveAbsent, Forget, TypeOK
<1> QED
  BY <1>1, <1>2 DEF ResolveAbsent, TypeOK

\* A healed fill is written with the type of its row and of the request.
LEMMA FilledType ==
  ASSUME TypeOK, NEW c \in Coid, NEW next \in {"poll", "heal"},
         ResolveFilled(c, next)
  PROVE  /\ status' \in [Coid -> Statuses] /\ booked' \in [Coid -> Int]
         /\ pos' \in [Strategies -> Int] /\ lost' \subseteq Coid
         /\ pc' = "setpos" /\ req' \in Request
<1>1. PICK o \in AtExchange(c) :
        /\ HealOrder(c, "placed", Signed(c, StatusFill(o)))
        /\ req' = [coid |-> c, qty |-> StatusFill(o), old |-> pos[c.strategy],
                   fill |-> StatusFill(o), reuse |-> TRUE, next |-> next]
  BY DEF ResolveFilled
<1>2. StatusFill(o) \in Nat /\ Signed(c, StatusFill(o)) \in Int
  BY <1>1 DEF AtExchange, TypeOK, Order, StatusFill, Signed
<1>3. status' \in [Coid -> Statuses] /\ booked' \in [Coid -> Int]
  BY <1>1, <1>2, WriteType
<1>4. pos[c.strategy] \in Int
  BY DEF TypeOK, Coid
<1>5. req' \in Request
  BY <1>1, <1>2, <1>4 DEF Request
<1>6. pc' = "setpos" /\ pos' = pos /\ lost' = lost
  BY DEF ResolveFilled
<1>7. pos \in [Strategies -> Int] /\ lost \subseteq Coid
  BY DEF TypeOK
<1> QED
  BY <1>3, <1>5, <1>6, <1>7

\* A fresh bot.db, exchange and engine are well typed.
THEOREM TypeInit == Init => TypeOK
<1> SUFFICES ASSUME Init PROVE TypeOK
  OBVIOUS
<1>1. /\ status \in [Coid -> Statuses] /\ booked \in [Coid -> Int]
      /\ pos \in [Strategies -> Int] /\ coins \in [Strategies -> Int]
  BY DEF Init
<1>2. /\ pc = "down" /\ todo = {} /\ pending = {} /\ orders = {} /\ wire = {}
      /\ lost = {} /\ kill = FALSE
  BY DEF Init
<1>3. posts \in Nat /\ late \in Nat /\ bar \in 1..MaxBar /\ crashes \in 0..MaxCrashes
  BY ConstantsAssumption DEF Init
<1> QED
  BY <1>1, <1>2, <1>3 DEF TypeOK

\* Every step keeps the types, one case per action.
THEOREM TypeStep == TypeOK /\ [Next]_vars => TypeOK'
<1> SUFFICES ASSUME TypeOK, [Next]_vars PROVE TypeOK'
  OBVIOUS
<1> USE ConstantsAssumption
<1>1. ASSUME NEW o \in orders, Fill(o) PROVE TypeOK'
  <2>1. o \in Order /\ o.coid \in Coid /\ o.coid.strategy \in Strategies
    BY DEF TypeOK, Order, Coid
  <2>2. [o EXCEPT !.got = @ + 1, !.open = o.got + 1 < o.want] \in Order
    <3>1. \A g \in Nat, b \in BOOLEAN :
            [o EXCEPT !.got = g, !.open = b] \in Order
      BY <2>1 DEF Order
    <3>2. o.got + 1 \in Nat /\ (o.got + 1 < o.want) \in BOOLEAN
      BY <2>1 DEF Order
    <3> QED
      BY <3>1, <3>2
  <2>3. orders' \subseteq Order
    BY <1>1, <2>2 DEF Fill, TypeOK
  <2>4. coins' \in [Strategies -> Int]
    BY <1>1, <2>1 DEF Fill, TypeOK, Signed
  <2> QED
    BY <1>1, <2>3, <2>4 DEF Fill, TypeOK, db, process
<1>2. ASSUME NEW o \in orders, Expire(o) PROVE TypeOK'
  <2>1. o \in Order
    BY DEF TypeOK
  <2>2. [o EXCEPT !.open = FALSE] \in Order
    BY <2>1 DEF Order
  <2>3. orders' \subseteq Order
    BY <1>2, <2>2 DEF Expire, TypeOK
  <2> QED
    BY <1>2, <2>3 DEF Expire, TypeOK, db, process
<1>3. ASSUME NEW w \in wire, Arrive(w) PROVE TypeOK'
  <2>1. w.coid \in Coid /\ w.n \in Nat /\ w.want \in Nat
    BY DEF TypeOK, Wired
  <2>2. orders' \subseteq Order /\ coins' \in [Strategies -> Int]
    <3>1. CASE UNCHANGED <<orders, coins>>
      BY <3>1 DEF TypeOK
    <3>2. CASE \E o \in Fresh(w.coid, w.n, w.want) : Takes(w.coid, w.n, w.want, o)
      BY <3>2, <2>1, TakesType
    <3> QED
      BY <1>3, <3>1, <3>2 DEF Arrive
  <2> QED
    BY <1>3, <2>2 DEF Arrive, TypeOK, db, process
<1>4. CASE World
  <2>1. CASE NextBar
    BY <2>1 DEF NextBar, TypeOK, db, process, market
  <2>2. CASE SetKill
    BY <2>2 DEF SetKill, TypeOK, db, process, market
  <2>3. CASE ClearKill
    BY <2>3 DEF ClearKill, TypeOK, db, process, market
  <2> QED
    BY <1>4, <2>1, <2>2, <2>3 DEF World
<1>5. CASE Boot \/ HealAbort \/ HealDone
  BY <1>5 DEF Boot, HealAbort, HealDone, TypeOK, db, market
<1>6. ASSUME NEW c \in Coid, HealRow(c) PROVE TypeOK'
  <2>1. CASE Unresolved /\ UNCHANGED <<pc, req>>
    BY <1>6, <2>1 DEF HealRow, Unresolved, TypeOK, db, market
  <2>2. CASE ResolveAbsent(c) /\ UNCHANGED <<pc, req>>
    BY <1>6, <2>2, AbsentType DEF HealRow, TypeOK, market
  <2>3. CASE ResolveFilled(c, "heal")
    BY <1>6, <2>3, FilledType DEF HealRow, TypeOK, market
  <2> QED
    BY <1>6, <2>1, <2>2, <2>3 DEF HealRow
<1>7. CASE Halt \/ StartCycle \/ EndCycle
  BY <1>7 DEF Halt, StartCycle, EndCycle, TypeOK, db, market
<1>8. ASSUME NEW s \in Strategies, Hold(s) PROVE TypeOK'
  BY <1>8 DEF Hold, TypeOK, db, market
<1>9. ASSUME NEW s \in Strategies, Decide(s) PROVE TypeOK'
  <2>1. PICK i \in Intents(s) :
          \/ /\ pc' = "gate" \/ pc' = "resolve"
             /\ req' = [coid |-> i.coid, qty |-> i.qty, old |-> pos[s],
                        fill |-> 0, reuse |-> FALSE, next |-> "poll"]
          \/ UNCHANGED <<pc, req>>
    BY <1>9 DEF Decide
  <2>2. i.coid \in Coid /\ i.qty \in Nat
    BY DEF Intents, TypeOK, Coid, Ts, Sides
  <2>3. pos[s] \in Int
    BY DEF TypeOK
  <2>4. [coid |-> i.coid, qty |-> i.qty, old |-> pos[s], fill |-> 0,
         reuse |-> FALSE, next |-> "poll"] \in Request
    BY <2>2, <2>3 DEF Request
  <2>5. pc' \in Points /\ ((req' = req /\ pc' = pc) \/ req' \in Request)
    BY <2>1, <2>4 DEF TypeOK
  <2> QED
    BY <1>9, <2>5 DEF Decide, TypeOK, db, market
<1>10. CASE ResolveStuck
  <2>1. req \in Request /\ req.coid \in Coid
    BY <1>10 DEF ResolveStuck, TypeOK, Request
  <2>2. CASE Unresolved /\ pc' = "poll" /\ req' = NoRequest
    BY <1>10, <2>2 DEF ResolveStuck, Unresolved, TypeOK, db, market
  <2>3. CASE ResolveAbsent(req.coid) /\ pc' = "gate"
             /\ req' = [req EXCEPT !.reuse = TRUE]
    <3>1. req' \in Request
      BY <2>1, <2>3 DEF Request
    <3> QED
      BY <1>10, <2>1, <2>3, <3>1, AbsentType DEF ResolveStuck, TypeOK, market
  <2>4. CASE ResolveFilled(req.coid, "poll")
    BY <1>10, <2>1, <2>4, FilledType DEF ResolveStuck, TypeOK, market
  <2> QED
    BY <1>10, <2>2, <2>3, <2>4 DEF ResolveStuck
<1>11. CASE RiskRefuse
  <2>1. req.coid \in Coid
    BY <1>11 DEF RiskRefuse, TypeOK, Request
  <2>2. status' \in [Coid -> Statuses] /\ booked' \in [Coid -> Int]
    BY <1>11, <2>1, WriteType DEF RiskRefuse
  <2> QED
    BY <1>11, <2>2 DEF RiskRefuse, TypeOK, market
<1>12. CASE Abandon \/ RiskPass
  BY <1>12 DEF Abandon, RiskPass, TypeOK, db, market
<1>13. CASE PostAnswered \/ PostFailed \/ PostRaised
  <2>1. req \in Request /\ req.coid \in Coid /\ req.qty \in Nat
        /\ posts + 1 \in Nat
    BY <1>13 DEF PostAnswered, PostFailed, PostRaised, TypeOK, Request
  <2>2. ASSUME NEW o \in Fresh(req.coid, posts + 1, req.qty),
               Takes(req.coid, posts + 1, req.qty, o)
        PROVE  orders' \subseteq Order /\ coins' \in [Strategies -> Int]
    BY <2>1, <2>2, TakesType
  <2>3. CASE PostAnswered
    <3>1. PICK o \in Fresh(req.coid, posts + 1, req.qty) :
            /\ Takes(req.coid, posts + 1, req.qty, o)
            /\ req' = [req EXCEPT !.fill = ReplyFill(o)]
      BY <2>3 DEF PostAnswered
    <3>2. ReplyFill(o) \in Nat
      BY <2>1, FreshType DEF ReplyFill, Order
    <3>3. req' \in Request
      BY <2>1, <3>1, <3>2 DEF Request
    <3> QED
      BY <2>2, <2>3, <3>1, <3>3 DEF PostAnswered, Issue, TypeOK, db
  <2>4. CASE PostFailed
    <3>1. orders' \subseteq Order /\ coins' \in [Strategies -> Int]
      BY <2>2, <2>4 DEF PostFailed, TypeOK, market
    <3>2. [coid |-> req.coid, n |-> posts + 1, want |-> req.qty] \in Wired
      BY <2>1 DEF Wired
    <3>3. wire' \subseteq Wired
      BY <2>4, <3>2 DEF PostFailed, TypeOK, market
    <3> QED
      BY <2>4, <3>1, <3>3 DEF PostFailed, Issue, TypeOK, db
  <2>5. CASE PostRaised
    <3>1. orders' \subseteq Order /\ coins' \in [Strategies -> Int]
      BY <2>2, <2>5 DEF PostRaised, TypeOK, market
    <3> QED
      BY <2>1, <2>5, <3>1 DEF PostRaised, Issue, TypeOK, db, market
  <2> QED
    BY <1>13, <2>3, <2>4, <2>5
<1>14. CASE RecordPlaced \/ RecordError
  <2>1. req \in Request /\ req.coid \in Coid
        /\ Signed(req.coid, req.fill) \in Int
    BY <1>14 DEF RecordPlaced, RecordError, TypeOK, Request, Signed
  <2>2. status' \in [Coid -> Statuses] /\ booked' \in [Coid -> Int]
    BY <1>14, <2>1, WriteType DEF RecordPlaced, RecordError, Record
  <2> QED
    BY <1>14, <2>2 DEF RecordPlaced, RecordError, TypeOK, market
<1>15. CASE SetPosition
  <2>1. req \in Request /\ req.coid.strategy \in Strategies
        /\ req.old + Signed(req.coid, req.fill) \in Int
        /\ req.next \in {"poll", "heal"}
    BY <1>15 DEF SetPosition, TypeOK, Request, Signed, Coid
  <2>2. pos' \in [Strategies -> Int]
    BY <1>15, <2>1 DEF SetPosition, TypeOK
  <2> QED
    BY <1>15, <2>1, <2>2 DEF SetPosition, TypeOK, market
<1>16. CASE Crash
  <2>1. pc \in {"record", "noreply", "setpos"} => req.coid \in Coid
    BY DEF TypeOK, Request
  <2>2. lost' \subseteq Coid
    BY <1>16, <2>1 DEF Crash, TypeOK
  <2>3. crashes' \in 0..MaxCrashes
    BY <1>16 DEF Crash, TypeOK
  <2> QED
    BY <1>16, <2>2, <2>3 DEF Crash, TypeOK, db, market
<1>17. CASE UNCHANGED vars
  BY <1>17 DEF vars, TypeOK
<1> QED
  BY <1>1, <1>2, <1>3, <1>4, <1>5, <1>6, <1>7, <1>8, <1>9, <1>10, <1>11,
     <1>12, <1>13, <1>14, <1>15, <1>16, <1>17
     DEF Next, Engine, Heal, Loop, Place, Exchange, World

\* The tables, the process and the market keep their types in every
\* behaviour.
THEOREM TypeCorrect == Spec => []TypeOK
BY TypeInit, TypeStep, PTL DEF Spec
-----------------------------------------------------------------------------
(* The market: what each of its steps does to the orders and the wire *)

\* Every accepted order and every request on the wire carries a client_order_id,
\* a serial number and a quantity.
LEMMA MarketTypes ==
  ASSUME TypeOK
  PROVE  /\ \A o \in orders : /\ o \in Order /\ o.coid \in Coid /\ o.n \in Nat
                              /\ o.want \in Nat /\ o.got \in Nat
                              /\ o.open \in BOOLEAN
         /\ \A w \in wire : w.coid \in Coid /\ w.n \in Nat /\ w.want \in Nat
BY DEF TypeOK, Order, Wired

\* A step of the exchange on one order: it stays the same order, and it
\* stands afterwards only if it stood before.
Restates(o, q) ==
  /\ q.coid = o.coid /\ q.n = o.n /\ q.want = o.want
  /\ Stands(o)
  /\ orders' = (orders \ {o}) \cup {q}

\* A fill changes how much of its order is done and nothing that names it.
LEMMA FillRestates ==
  ASSUME TypeOK, NEW o \in orders, Fill(o) \/ Expire(o)
  PROVE  \E q : Restates(o, q)
<1>1. o \in Order /\ o.open
  BY MarketTypes DEF Fill, Expire
<1>2. Stands(o)
  BY <1>1 DEF Stands
<1>3. CASE Fill(o)
  <2> DEFINE q == [o EXCEPT !.got = @ + 1, !.open = o.got + 1 < o.want]
  <2>1. q.coid = o.coid /\ q.n = o.n /\ q.want = o.want
    BY <1>1 DEF Order
  <2>2. orders' = (orders \ {o}) \cup {q}
    BY <1>3 DEF Fill
  <2> QED
    BY <1>2, <2>1, <2>2 DEF Restates
<1>4. CASE Expire(o)
  <2> DEFINE q == [o EXCEPT !.open = FALSE]
  <2>1. q.coid = o.coid /\ q.n = o.n /\ q.want = o.want
    BY <1>1 DEF Order
  <2>2. orders' = (orders \ {o}) \cup {q}
    BY <1>4 DEF Expire
  <2> QED
    BY <1>2, <2>1, <2>2 DEF Restates
<1> QED
  BY <1>3, <1>4

\* What a POST may do to the market.
Accepts(c, n, want) ==
  \E o \in Order : /\ o.coid = c /\ o.n = n /\ o.want = want
                   /\ orders' = orders \cup {o}

\* What the exchange does with a request: it keeps its orders and adds at
\* most the one asked for.
LEMMA TakesAccepts ==
  ASSUME NEW c \in Coid, NEW n \in Nat, NEW want \in Nat,
         \E o \in Fresh(c, n, want) : Takes(c, n, want, o)
  PROVE  Accepts(c, n, want)
<1>1. PICK o \in Fresh(c, n, want) : Takes(c, n, want, o)
  OBVIOUS
<1>2. o \in Order
  BY FreshType
<1> QED
  BY <1>1, <1>2 DEF Takes, Accepts

\* The serial number of the next POST is new.
LEMMA NextSerial ==
  ASSUME TypeOK, Serials
  PROVE  /\ posts + 1 \in Nat
         /\ \A x \in orders \cup wire : x.n < posts + 1 /\ x.n # posts + 1
BY MarketTypes DEF TypeOK, Serials

\* The steps that touch the market, one disjunct per kind.
Posting == req.coid \in Coid /\ req.qty \in Nat /\ req.qty > 0 /\ posts' = posts + 1

Untouched == orders' = orders /\ wire' = wire /\ posts' = posts
Restated == wire' = wire /\ posts' = posts /\ \E o \in orders : \E q : Restates(o, q)
Arrived ==
  /\ posts' = posts
  /\ \E w \in wire :
       /\ wire' = wire \ {w}
       /\ orders' = orders \/ Accepts(w.coid, w.n, w.want)
Accepted == Posting /\ wire' = wire /\ Accepts(req.coid, posts + 1, req.qty)
Refused == Posting /\ wire' = wire /\ orders' = orders
Delayed ==
  /\ Posting /\ orders' = orders
  /\ \E w \in Wired : /\ w.coid = req.coid /\ w.n = posts + 1 /\ w.want = req.qty
                      /\ wire' = wire \cup {w}

MarketStep == Untouched \/ Restated \/ Arrived \/ Accepted \/ Refused \/ Delayed

\* Serial numbers stay unique over every step.
LEMMA SerialsStep ==
  ASSUME TypeOK, Serials, MarketStep
  PROVE  Serials'
<1> USE MarketTypes
<1>1. posts \in Nat
  BY DEF TypeOK
<1>2. CASE Untouched
  BY <1>2 DEF Untouched, Serials
<1>3. CASE Restated
  <2>1. PICK o \in orders : \E q : Restates(o, q)
    BY <1>3 DEF Restated
  <2>2. PICK q : Restates(o, q)
    BY <2>1
  <2> QED
    BY <1>1, <1>3, <2>1, <2>2 DEF Restated, Restates, Serials
<1>4. CASE Arrived
  <2>1. PICK w \in wire : /\ wire' = wire \ {w}
                          /\ orders' = orders \/ Accepts(w.coid, w.n, w.want)
    BY <1>4 DEF Arrived
  <2>2. CASE orders' = orders
    BY <1>4, <2>1, <2>2 DEF Arrived, Serials
  <2>3. CASE Accepts(w.coid, w.n, w.want)
    <3>1. PICK o \in Order : o.n = w.n /\ o.want = w.want /\ orders' = orders \cup {o}
      BY <2>3 DEF Accepts
    <3> QED
      BY <1>1, <1>4, <2>1, <3>1 DEF Arrived, Serials
  <2> QED
    BY <2>1, <2>2, <2>3
<1>5. CASE Accepted
  <2>1. PICK o \in Order : /\ o.n = posts + 1 /\ o.want = req.qty
                           /\ orders' = orders \cup {o}
    BY <1>5 DEF Accepted, Accepts
  <2> QED
    BY <1>1, <1>5, <2>1, NextSerial DEF Accepted, Posting, Serials
<1>6. CASE Refused
  BY <1>1, <1>6 DEF Refused, Posting, Serials
<1>7. CASE Delayed
  <2>1. PICK w \in Wired : /\ w.n = posts + 1 /\ w.want = req.qty
                           /\ wire' = wire \cup {w}
    BY <1>7 DEF Delayed
  <2> QED
    BY <1>1, <1>7, <2>1, NextSerial DEF Delayed, Posting, Serials
<1> QED
  BY <1>2, <1>3, <1>4, <1>5, <1>6, <1>7 DEF MarketStep

-----------------------------------------------------------------------------
(* Orders and rows agree *)

Agree == Standing /\ OnWire

\* The order in progress stays in progress, or bot.db lost track of it, or
\* there was nothing of it at the exchange.
Held ==
  pc \in {"record", "noreply"} =>
    \/ pc' = pc /\ req' = req
    \/ \A x \in orders \cup wire : x.coid = req.coid => x.coid \in lost'

\* A step that leaves the market and the rows alone.
LEMMA AgreeFrame ==
  ASSUME Agree, orders' = orders, wire' = wire, status' = status,
         lost \subseteq lost', Held
  PROVE  Agree'
<1>1. Standing'
  BY DEF Agree, Standing, Held, Newest, InHand
<1>2. OnWire'
  BY DEF Agree, OnWire, Held, AtExchange
<1> QED
  BY <1>1, <1>2 DEF Agree

\* Fills, expiries and arrivals happen to a process that does not notice.
LEMMA AgreeRestated ==
  ASSUME TypeOK, Serials, Agree, Restated, UNCHANGED <<status, lost, pc, req>>
  PROVE  Agree'
<1>0. PICK o \in orders : \E q : Restates(o, q)
  BY DEF Restated
<1>1. PICK q : Restates(o, q)
  BY <1>0
<1>2. wire' = wire
  BY DEF Restated
<1>3. Standing'
  BY <1>1 DEF Agree, Standing, Restates, Newest, InHand
<1>4. OnWire'
  BY <1>1, <1>2 DEF Agree, OnWire, Restates, AtExchange
<1> QED
  BY <1>3, <1>4 DEF Agree

\* A late request that arrives is still the only one that can trade.
LEMMA AgreeArrived ==
  ASSUME TypeOK, Serials, Agree, Arrived, UNCHANGED <<status, lost, pc, req>>
  PROVE  Agree'
<1>1. PICK w \in wire : /\ wire' = wire \ {w}
                        /\ orders' = orders \/ Accepts(w.coid, w.n, w.want)
  BY DEF Arrived
<1>2. CASE orders' = orders
  <2>1. Standing'
    BY <1>2 DEF Agree, Standing, Newest, InHand
  <2>2. OnWire'
    BY <1>1, <1>2 DEF Agree, OnWire, AtExchange
  <2> QED
    BY <2>1, <2>2 DEF Agree
<1>3. CASE Accepts(w.coid, w.n, w.want)
  <2>1. PICK o \in Order : o.coid = w.coid /\ o.n = w.n /\ orders' = orders \cup {o}
    BY <1>3 DEF Accepts
  <2>2. w.n \in Nat /\ \A p \in orders : p.n \in Nat
    BY MarketTypes
  <2>3. Standing'
    BY <2>1, <2>2 DEF Agree, Standing, OnWire, AtExchange, Newest, InHand
  <2>4. OnWire'
    BY <1>1, <2>1 DEF Agree, OnWire, AtExchange
  <2> QED
    BY <2>3, <2>4 DEF Agree
<1> QED
  BY <1>1, <1>2, <1>3

\* A POST of a decision without a standing order.
LEMMA Unposted ==
  ASSUME Agree, InProgress, pc \in {"gate", "post"}, req.coid \notin lost
  PROVE  /\ \A o \in orders : o.coid = req.coid => ~Stands(o)
         /\ \A w \in wire : w.coid # req.coid
<1>1. status[req.coid] \in {"none", "rejected"}
  BY DEF InProgress
<1> QED
  BY <1>1 DEF Agree, Standing, OnWire, InHand

\* A new POST for a decision without a standing order agrees with bot.db.
LEMMA AgreePosted ==
  ASSUME TypeOK, Serials, Agree, InProgress, pc = "post",
         Accepted \/ Refused \/ (Delayed /\ pc' = "noreply"),
         status' = status, lost \subseteq lost',
         \/ pc' \in {"record", "noreply"} /\ req'.coid = req.coid
         \/ req.coid \in lost'
  PROVE  Agree'
<1>1. \A x \in orders \cup wire : x.n \in Nat /\ x.n < posts + 1
  BY MarketTypes, NextSerial
<1>2. posts + 1 \in Nat
  BY NextSerial
<1>3. CASE Accepted
  <2>1. PICK o \in Order : /\ o.coid = req.coid /\ o.n = posts + 1
                           /\ orders' = orders \cup {o}
    BY <1>3 DEF Accepted, Accepts
  <2>2. wire' = wire
    BY <1>3 DEF Accepted
  <2>3. Standing'
    BY <1>1, <1>2, <2>1, Unposted DEF Agree, Standing, Newest, InHand
  <2>4. OnWire'
    BY <2>1, <2>2, Unposted DEF Agree, OnWire, AtExchange
  <2> QED
    BY <2>3, <2>4 DEF Agree
<1>4. CASE Refused
  <2>1. orders' = orders /\ wire' = wire
    BY <1>4 DEF Refused
  <2>2. Standing'
    BY <2>1 DEF Agree, Standing, Newest, InHand
  <2>3. OnWire'
    BY <2>1 DEF Agree, OnWire, AtExchange
  <2> QED
    BY <2>2, <2>3 DEF Agree
<1>5. CASE Delayed /\ pc' = "noreply"
  <2>1. PICK w \in Wired : /\ w.coid = req.coid /\ w.n = posts + 1
                           /\ wire' = wire \cup {w}
    BY <1>5 DEF Delayed
  <2>2. orders' = orders
    BY <1>5 DEF Delayed
  <2>3. Standing'
    BY <2>2 DEF Agree, Standing, Newest, InHand
  <2>4. OnWire'
    BY <1>1, <1>5, <2>1, <2>2, Unposted DEF Agree, OnWire, AtExchange
  <2> QED
    BY <2>3, <2>4 DEF Agree
<1> QED
  BY <1>3, <1>4, <1>5

-----------------------------------------------------------------------------
(* What the lookups find out *)

\* "Absent" is right: the row becomes rejected, and no order of it stands
\* nor can arrive, unless bot.db has lost track of it.
LEMMA AbsentEffect ==
  ASSUME TypeOK, Serials, Agree, NEW c \in Coid, status[c] = "error",
         pc \notin {"record", "noreply"}, ResolveAbsent(c)
  PROVE  /\ status' = [status EXCEPT ![c] = "rejected"]
         /\ lost \subseteq lost'
         /\ c \notin lost' => /\ \A o \in orders : o.coid = c => ~Stands(o)
                              /\ \A w \in wire : w.coid # c
<1>1. status' = [status EXCEPT ![c] = "rejected"]
  BY DEF ResolveAbsent, HealOrder
<1>2. lost \subseteq lost' /\ (c \notin lost' => \A w \in wire : w.coid # c)
  BY DEF ResolveAbsent, Forget
<1>3. ASSUME c \notin lost, NEW p \in orders, p.coid = c, Stands(p) PROVE FALSE
  <2>1. Newest(p)
    BY <1>3 DEF Agree, Standing
  <2>2. PICK o \in AtExchange(c), priced \in BOOLEAN :
          Newest(o) /\ Verdict(o, priced) = "dead"
    BY <1>3 DEF ResolveAbsent, AtExchange
  <2>3. o \in orders /\ o.coid = c
    BY <2>2 DEF AtExchange
  <2>4. ~Stands(o)
    <3>1. ~o.open /\ StatusFill(o) = 0
      BY <2>2 DEF Verdict
    <3> QED
      BY <3>1 DEF Stands
  <2>5. o.n \in Nat /\ p.n \in Nat /\ o.n <= p.n /\ p.n <= o.n
    BY <1>3, <2>1, <2>2, <2>3, MarketTypes DEF Newest
  <2>6. o = p
    BY <2>3, <2>5 DEF Serials
  <2> QED
    BY <1>3, <2>4, <2>6
<1> QED
  BY <1>1, <1>2, <1>3

\* "Filled" is right too: the newest order stands, so nothing of its
\* client_order_id is still on its way.
LEMMA FilledEffect ==
  ASSUME TypeOK, Serials, Agree, NEW c \in Coid, status[c] = "error",
         NEW next, ResolveFilled(c, next)
  PROVE  /\ status' = [status EXCEPT ![c] = "placed"]
         /\ UNCHANGED <<pos, lost>>
         /\ pc' = "setpos"
         /\ req'.coid = c /\ req'.old = pos[c.strategy] /\ req'.next = next
         /\ req'.fill \in Nat /\ req'.fill > 0
         /\ c \notin lost => \A w \in wire : w.coid # c
<1>1. PICK o \in AtExchange(c), priced \in BOOLEAN :
        /\ Verdict(o, priced) = "healed"
        /\ HealOrder(c, "placed", Signed(c, StatusFill(o)))
        /\ req' = [coid |-> c, qty |-> StatusFill(o), old |-> pos[c.strategy],
                   fill |-> StatusFill(o), reuse |-> TRUE, next |-> next]
  BY DEF ResolveFilled
<1>2. StatusFill(o) \in Nat
  BY MarketTypes DEF AtExchange, StatusFill
<1>3. StatusFill(o) > 0
  BY <1>1, <1>2 DEF Verdict
<1>4. status' = [status EXCEPT ![c] = "placed"]
  BY <1>1 DEF HealOrder
<1>5. c \notin lost => \A w \in wire : w.coid # c
  BY <1>3 DEF Agree, OnWire, Stands, AtExchange
<1> QED
  BY <1>1, <1>2, <1>3, <1>4, <1>5 DEF ResolveFilled

\* A row's status changes while the market does not.
LEMMA AgreeRow ==
  ASSUME TypeOK, Agree, orders' = orders, wire' = wire, lost \subseteq lost',
         NEW c \in Coid, NEW st \in Statuses,
         status' = [status EXCEPT ![c] = st],
         pc \in {"record", "noreply"} => req.coid = c,
         \/ st = "error" /\ pc = "noreply"
         \/ /\ st = "placed"
            /\ c \notin lost => \A w \in wire : w.coid # c
         \/ /\ st = "rejected"
            /\ c \notin lost' => /\ \A o \in orders : o.coid = c => ~Stands(o)
                                 /\ \A w \in wire : w.coid # c
  PROVE  Agree'
<1>1. status \in [Coid -> Statuses]
  BY DEF TypeOK
<1>2. Standing'
  BY <1>1 DEF Agree, Standing, Newest, InHand
<1>3. OnWire'
  <2>1. \A w \in wire : w.coid \in Coid
    BY MarketTypes
  <2> QED
    BY <1>1, <2>1 DEF Agree, OnWire, AtExchange
<1> QED
  BY <1>2, <1>3 DEF Agree

-----------------------------------------------------------------------------
(* Every step keeps the invariant *)

Rest == Serials /\ Agree /\ InProgress /\ Late

\* Tracking, split into the types and the rest.
LEMMA TrackingParts == Tracking <=> TypeOK /\ Rest
BY DEF Tracking, Rest, Agree

\* A step that leaves the market, the rows and the order in progress alone.
LEMMA QuietStep ==
  ASSUME TypeOK, Rest, UNCHANGED <<db, market, posts>>, lost \subseteq lost',
         Held, InProgress', Late'
  PROVE  Rest'
<1>1. Serials'
  BY SerialsStep DEF Rest, MarketStep, Untouched, market
<1>2. Agree'
  BY AgreeFrame DEF Rest, db, market
<1> QED
  BY <1>1, <1>2 DEF Rest

\* The exchange fills, expires and receives orders: tracking holds.
LEMMA ExchangeStep ==
  ASSUME TypeOK, Rest, Exchange
  PROVE  Rest'
<1>1. UNCHANGED <<db, process, posts, bar, kill, crashes, lost, late>>
  BY DEF Exchange, Fill, Expire, Arrive
<1>2. InProgress' /\ Late'
  BY <1>1 DEF Rest, InProgress, Late, db, process
<1>3. UNCHANGED <<status, lost, pc, req>>
  BY <1>1 DEF db, process
<1>4. CASE \E o \in orders : Fill(o) \/ Expire(o)
  <2>1. Restated
    BY <1>4, FillRestates DEF Restated, Fill, Expire
  <2> QED
    BY <1>2, <1>3, <2>1, SerialsStep, AgreeRestated DEF Rest, MarketStep
<1>5. CASE \E w \in wire : Arrive(w)
  <2>1. PICK w \in wire : Arrive(w)
    BY <1>5
  <2>2. w.coid \in Coid /\ w.n \in Nat /\ w.want \in Nat
    BY MarketTypes
  <2>3. orders' = orders \/ Accepts(w.coid, w.n, w.want)
    BY <2>1, <2>2, TakesAccepts DEF Arrive
  <2>4. Arrived
    BY <1>1, <2>1, <2>3 DEF Arrived, Arrive
  <2> QED
    BY <1>2, <1>3, <2>4, SerialsStep, AgreeArrived DEF Rest, MarketStep
<1> QED
  BY <1>4, <1>5 DEF Exchange

\* Time and the kill file do not touch orders or rows.
LEMMA WorldStep ==
  ASSUME TypeOK, Rest, World
  PROVE  Rest'
<1>1. UNCHANGED <<db, process, market, posts, lost>>
  BY DEF World, NextBar, SetKill, ClearKill
<1>2. InProgress' /\ Held
  BY <1>1 DEF Rest, InProgress, Held, db, process
<1>3. Late'
  BY DEF World, NextBar, SetKill, ClearKill, Rest, Late, process
<1> QED
  BY <1>1, <1>2, <1>3, QuietStep

\* A start collects rows in doubt and forgets nothing.
LEMMA BootStep ==
  ASSUME TypeOK, Rest, Boot \/ HealAbort \/ HealDone
  PROVE  Rest'
<1>1. UNCHANGED <<db, market, posts, lost, kill, late>>
  BY DEF Boot, HealAbort, HealDone
<1>2. pc \in {"down", "halted", "heal"} /\ pc' \in {"heal", "top"}
  BY DEF Boot, HealAbort, HealDone
<1>3. Held /\ Late'
  BY <1>1, <1>2 DEF Held, Rest, Late
<1>4. InProgress'
  BY <1>1, <1>2 DEF Boot, HealAbort, HealDone, Rest, InProgress, db
<1> QED
  BY <1>1, <1>3, <1>4, QuietStep

\* The engine loop picks what to do and writes nothing.
LEMMA LoopStep ==
  ASSUME TypeOK, Rest, Loop
  PROVE  Rest'
<1>1. UNCHANGED <<db, market, posts, lost, kill, late, pending>>
  BY DEF Loop, Halt, StartCycle, EndCycle, Hold, Decide
<1>2. pc \in {"top", "poll"}
         /\ pc' \in {"halted", "top", "poll", "gate", "resolve"}
  BY DEF Loop, Halt, StartCycle, EndCycle, Hold, Decide
<1>3. Held /\ Late'
  BY <1>1, <1>2 DEF Held, Rest, Late
<1>4. pending' = {}
  BY <1>1, <1>2 DEF Rest, InProgress
<1>5. InProgress'
  <2>1. CASE pc' \in {"halted", "top", "poll"}
    BY <1>4, <2>1 DEF InProgress
  <2>2. CASE pc' \in {"gate", "resolve"}
    <3>1. PICK s \in Strategies : Decide(s)
      BY <2>2, <1>2 DEF Loop, Halt, StartCycle, EndCycle, Hold
    <3>2. PICK i \in Intents(s) :
            /\ req' = [coid |-> i.coid, qty |-> i.qty, old |-> pos[s],
                       fill |-> 0, reuse |-> FALSE, next |-> "poll"]
            /\ \/ status[i.coid] = "none" /\ pc' = "gate"
               \/ status[i.coid] = "error" /\ pc' = "resolve"
      BY <3>1, <2>2, <1>2 DEF Decide
    <3>3. i.coid.strategy = s /\ i.qty > 0
      BY ConstantsAssumption DEF Intents, TypeOK
    <3> QED
      BY <1>1, <1>4, <3>2, <3>3 DEF InProgress, db
  <2> QED
    BY <1>2, <2>1, <2>2
<1> QED
  BY <1>1, <1>3, <1>5, QuietStep

\* resolve_one on the row of c, whoever asks.
LEMMA AbsentStep ==
  ASSUME TypeOK, Rest, NEW c \in Coid, status[c] = "error",
         pc \notin {"record", "noreply"}, ResolveAbsent(c),
         UNCHANGED <<market, posts>>
  PROVE  Serials' /\ Agree'
<1>1. Serials'
  BY SerialsStep DEF Rest, MarketStep, Untouched, market
<1>2. Agree'
  BY AbsentEffect, AgreeRow DEF Rest, market
<1> QED
  BY <1>1, <1>2

\* A heal that finds a fill settles the row it was about.
LEMMA FilledStep ==
  ASSUME TypeOK, Rest, NEW c \in Coid, status[c] = "error",
         pc \notin {"record", "noreply"}, NEW next, ResolveFilled(c, next),
         UNCHANGED <<market, posts>>
  PROVE  Serials' /\ Agree'
<1>1. Serials'
  BY SerialsStep DEF Rest, MarketStep, Untouched, market
<1>2. Agree'
  <2>1. Serials /\ Agree
    BY DEF Rest
  <2>2. /\ status' = [status EXCEPT ![c] = "placed"] /\ lost' = lost
        /\ c \notin lost => \A w \in wire : w.coid # c
    BY <2>1, FilledEffect
  <2> QED
    BY <2>1, <2>2, AgreeRow DEF market
<1> QED
  BY <1>1, <1>2

\* The boot pass on one row, whatever the exchange answers.
LEMMA HealRowStep ==
  ASSUME TypeOK, Rest, NEW c \in Coid, HealRow(c)
  PROVE  Rest'
<1>1. /\ pc = "heal" /\ c \in pending /\ pending' = pending \ {c}
      /\ UNCHANGED <<market, posts, kill, late>>
  BY DEF HealRow
<1>2. status[c] = "error"
  BY <1>1 DEF Rest, InProgress
<1>3. CASE Unresolved /\ UNCHANGED <<pc, req>>
  <2>1. UNCHANGED <<db, lost, pc, req>>
    BY <1>3 DEF Unresolved
  <2>2. Held /\ Late'
    BY <1>1, <2>1 DEF Held, Rest, Late
  <2>3. InProgress'
    BY <1>1, <2>1 DEF Rest, InProgress, db
  <2> QED
    BY <1>1, <2>1, <2>2, <2>3, QuietStep
<1>4. CASE ResolveAbsent(c) /\ UNCHANGED <<pc, req>>
  <2>1. Serials' /\ Agree'
    BY <1>1, <1>2, <1>4, AbsentStep
  <2>2. Late'
    BY <1>1, <1>4 DEF Rest, Late
  <2>3. status' = [status EXCEPT ![c] = "rejected"]
    BY <1>1, <1>2, <1>4, AbsentEffect DEF Rest
  <2>4. InProgress'
    BY <1>1, <1>4, <2>3 DEF Rest, InProgress, TypeOK
  <2> QED
    BY <2>1, <2>2, <2>4 DEF Rest
<1>5. CASE ResolveFilled(c, "heal")
  <2>1. Serials' /\ Agree'
    BY <1>1, <1>2, <1>5, FilledStep
  <2>2. /\ status' = [status EXCEPT ![c] = "placed"] /\ pos' = pos
        /\ pc' = "setpos" /\ req'.coid = c /\ req'.old = pos[c.strategy]
        /\ req'.next = "heal" /\ req'.fill > 0
    BY <1>2, <1>5, FilledEffect DEF Rest
  <2>3. Late'
    BY <1>1, <2>2 DEF Rest, Late
  <2>4. InProgress'
    BY <1>1, <2>2 DEF Rest, InProgress, TypeOK
  <2> QED
    BY <2>1, <2>3, <2>4 DEF Rest
<1> QED
  BY <1>3, <1>4, <1>5 DEF HealRow

\* The lookup before a retry on the same bar, whatever it answers.
LEMMA ResolveStuckStep ==
  ASSUME TypeOK, Rest, ResolveStuck
  PROVE  Rest'
<1>1. /\ pc = "resolve" /\ status[req.coid] = "error" /\ pending = {}
      /\ UNCHANGED <<pending, market, posts, kill, late>>
  BY DEF ResolveStuck, Rest, InProgress
<1>2. req \in Request /\ req.coid \in Coid
  BY <1>1 DEF TypeOK, Request
<1>3. CASE Unresolved /\ pc' = "poll" /\ req' = NoRequest
  <2>1. UNCHANGED <<db, lost>>
    BY <1>3 DEF Unresolved
  <2>2. Held /\ Late'
    BY <1>1, <1>3 DEF Held, Rest, Late
  <2>3. InProgress'
    BY <1>1, <1>3 DEF InProgress
  <2> QED
    BY <1>1, <2>1, <2>2, <2>3, QuietStep
<1>4. CASE ResolveAbsent(req.coid) /\ pc' = "gate"
           /\ req' = [req EXCEPT !.reuse = TRUE]
  <2>1. Serials' /\ Agree'
    BY <1>1, <1>2, <1>4, AbsentStep
  <2>2. Late'
    BY <1>1, <1>4 DEF Rest, Late
  <2>3. /\ req'.coid = req.coid /\ req'.old = req.old /\ req'.qty = req.qty
        /\ req'.next = req.next /\ req'.reuse = TRUE
    BY <1>2, <1>4 DEF Request
  <2>4. status' = [status EXCEPT ![req.coid] = "rejected"] /\ pos' = pos
    BY <1>1, <1>2, <1>4, AbsentEffect DEF Rest, ResolveAbsent
  <2>5. InProgress'
    BY <1>1, <1>2, <1>4, <2>3, <2>4 DEF Rest, InProgress, TypeOK
  <2> QED
    BY <2>1, <2>2, <2>5 DEF Rest
<1>5. CASE ResolveFilled(req.coid, "poll")
  <2>1. Serials' /\ Agree'
    BY <1>1, <1>2, <1>5, FilledStep
  <2>2. /\ pos' = pos /\ pc' = "setpos" /\ req'.coid = req.coid
        /\ req'.old = pos[req.coid.strategy] /\ req'.fill > 0
    BY <1>1, <1>2, <1>5, FilledEffect DEF Rest
  <2>3. Late'
    BY <1>1, <2>2 DEF Rest, Late
  <2>4. InProgress'
    BY <1>1, <2>2 DEF InProgress
  <2> QED
    BY <2>1, <2>3, <2>4 DEF Rest
<1> QED
  BY <1>3, <1>4, <1>5 DEF ResolveStuck

\* The risk gate passes, refuses or drops an order.
LEMMA GateStep ==
  ASSUME TypeOK, Rest, RiskRefuse \/ Abandon \/ RiskPass
  PROVE  Rest'
<1>1. /\ pc = "gate" /\ pending = {} /\ UNCHANGED <<pos, pending, market, posts, kill, lost, late>>
      /\ status[req.coid] = IF req.reuse THEN "rejected" ELSE "none"
  BY DEF RiskRefuse, Abandon, RiskPass, db, Rest, InProgress
<1>2. req.coid \in Coid
  BY <1>1 DEF TypeOK, Request
<1>3. CASE Abandon \/ RiskPass
  <2>1. Held
    BY <1>1 DEF Held
  <2>2. Late'
    BY <1>1, <1>3 DEF Abandon, RiskPass, Rest, Late
  <2>3. InProgress'
    BY <1>1, <1>3 DEF Abandon, RiskPass, Rest, InProgress, db
  <2>4. UNCHANGED db
    BY <1>3 DEF Abandon, RiskPass
  <2> QED
    BY <1>1, <2>1, <2>2, <2>3, <2>4, QuietStep
<1>4. CASE RiskRefuse
  <2>1. pc' = "poll"
    BY <1>4 DEF RiskRefuse
  <2>2. Serials'
    BY <1>1, SerialsStep DEF Rest, MarketStep, Untouched, market
  <2>3. Late' /\ InProgress'
    BY <1>1, <2>1 DEF Rest, Late, InProgress
  <2>4. Agree'
    <3>1. CASE status' = status
      <4>1. Held
        BY <1>1 DEF Held
      <4> QED
        BY <1>1, <3>1, <4>1, AgreeFrame DEF Rest, market
    <3>2. CASE status' = [status EXCEPT ![req.coid] = "rejected"]
      <4>1. req.coid \notin lost => /\ \A o \in orders : o.coid = req.coid => ~Stands(o)
                                    /\ \A w \in wire : w.coid # req.coid
        BY <1>1, Unposted DEF Rest
      <4> QED
        BY <1>1, <1>2, <3>2, <4>1, AgreeRow DEF Rest, market
    <3> QED
      BY <1>4, <3>1, <3>2 DEF RiskRefuse, LogOrder
  <2> QED
    BY <2>2, <2>3, <2>4 DEF Rest
<1> QED
  BY <1>3, <1>4

\* The POST and every way its answer can come, late or not at all.
LEMMA PostStep ==
  ASSUME TypeOK, Rest, PostAnswered \/ PostFailed \/ PostRaised
  PROVE  Rest'
<1>1. /\ pc = "post" /\ pending = {} /\ late = 0
      /\ req.qty > 0 /\ req.next = "poll"
      /\ UNCHANGED <<db, pending, kill>>
  BY DEF PostAnswered, PostFailed, PostRaised, Rest, InProgress, Late
<1>2. req \in Request /\ req.coid \in Coid /\ req.qty \in Nat /\ posts + 1 \in Nat
  BY <1>1, NextSerial DEF TypeOK, Request, Rest
<1>3. ASSUME \E o \in Fresh(req.coid, posts + 1, req.qty) :
               Takes(req.coid, posts + 1, req.qty, o)
      PROVE  Accepts(req.coid, posts + 1, req.qty)
  BY <1>2, <1>3, TakesAccepts
<1>4. Issue => Late' /\ posts' = posts + 1
  BY <1>1 DEF Issue, Rest, Late, PostAnswered, PostFailed, PostRaised
<1>5. CASE PostAnswered
  <2>1. Accepted
    BY <1>1, <1>2, <1>3, <1>4, <1>5 DEF PostAnswered, Accepted, Posting
  <2>2. PICK o \in Fresh(req.coid, posts + 1, req.qty) :
          req' = [req EXCEPT !.fill = ReplyFill(o)]
    BY <1>5 DEF PostAnswered
  <2>3. ReplyFill(o) > 0
    BY <1>1, <1>2, FreshType DEF Fresh, ReplyFill, Order
  <2>4. /\ req'.coid = req.coid /\ req'.old = req.old /\ req'.qty = req.qty
        /\ req'.next = req.next /\ req'.reuse = req.reuse /\ req'.fill > 0
    BY <1>2, <2>2, <2>3 DEF Request
  <2>5. pc' = "record" /\ lost' = lost /\ Late'
    BY <1>4, <1>5 DEF PostAnswered
  <2>6. InProgress'
    BY <1>1, <2>4, <2>5 DEF Rest, InProgress, db
  <2>7. Agree'
    BY <1>1, <2>1, <2>4, <2>5, AgreePosted DEF Rest, db
  <2> QED
    BY <2>1, <2>5, <2>6, <2>7, SerialsStep DEF Rest, MarketStep
<1>6. CASE PostFailed
  <2>1. Accepted \/ Refused \/ Delayed
    <3>1. CASE (\E o \in Fresh(req.coid, posts + 1, req.qty) :
                  Takes(req.coid, posts + 1, req.qty, o)) /\ UNCHANGED wire
      BY <1>1, <1>2, <1>3, <1>4, <1>6, <3>1 DEF PostFailed, Accepted, Posting
    <3>2. CASE UNCHANGED market
      BY <1>1, <1>2, <1>4, <1>6, <3>2 DEF PostFailed, Refused, Posting, market
    <3>3. CASE /\ wire' = wire \cup {[coid |-> req.coid, n |-> posts + 1,
                                     want |-> req.qty]}
               /\ UNCHANGED <<orders, coins>>
      <4>1. [coid |-> req.coid, n |-> posts + 1, want |-> req.qty] \in Wired
        BY <1>2 DEF Wired
      <4> QED
        BY <1>1, <1>2, <1>4, <1>6, <3>3, <4>1 DEF PostFailed, Delayed, Posting
    <3> QED
      BY <1>6, <3>1, <3>2, <3>3 DEF PostFailed
  <2>2. pc' = "noreply" /\ req' = req /\ lost' = lost /\ Late'
    BY <1>4, <1>6 DEF PostFailed
  <2>3. InProgress'
    BY <1>1, <2>2 DEF Rest, InProgress, db
  <2>4. Agree'
    BY <1>1, <2>1, <2>2, AgreePosted DEF Rest, db
  <2> QED
    BY <2>1, <2>2, <2>3, <2>4, SerialsStep DEF Rest, MarketStep
<1>7. CASE PostRaised
  <2>1. pc' = "poll"
    BY <1>7 DEF PostRaised
  <2>2. InProgress'
    BY <1>1, <2>1 DEF InProgress
  <2>3. CASE UNCHANGED <<market, posts, late, lost>>
    <3>1. Held /\ Late'
      BY <1>1, <2>1, <2>3 DEF Held, Rest, Late
    <3> QED
      BY <1>1, <2>2, <2>3, <3>1, QuietStep
  <2>4. CASE /\ Issue
             /\ \E o \in Fresh(req.coid, posts + 1, req.qty) :
                  Takes(req.coid, posts + 1, req.qty, o)
             /\ lost' = lost \cup {req.coid}
             /\ UNCHANGED wire
    <3>1. Accepted
      BY <1>1, <1>2, <1>3, <1>4, <2>4 DEF Accepted, Posting
    <3>2. Agree'
      BY <1>1, <2>4, <3>1, AgreePosted DEF Rest, db
    <3> QED
      BY <1>4, <2>2, <2>4, <3>1, <3>2, SerialsStep DEF Rest, MarketStep
  <2> QED
    BY <1>7, <2>3, <2>4 DEF PostRaised
<1> QED
  BY <1>5, <1>6, <1>7

\* The row in progress is written, whether inserted or reused.
LEMMA RecordEffect ==
  ASSUME TypeOK, InProgress, pc \in {"record", "noreply"},
         NEW st, NEW q, Record(req.coid, st, q)
  PROVE  status' = [status EXCEPT ![req.coid] = st]
BY DEF InProgress, Record, HealOrder, LogOrder

\* The row written after the POST, placed or in doubt.
LEMMA RecordStep ==
  ASSUME TypeOK, Rest, RecordPlaced \/ RecordError
  PROVE  Rest'
<1>1. /\ pc \in {"record", "noreply"} /\ pending = {} /\ req.coid \in Coid
      /\ UNCHANGED <<pos, pending, market, posts, kill, lost, late>>
  BY DEF RecordPlaced, RecordError, Rest, InProgress, TypeOK, Request
<1>2. Serials' /\ Late'
  BY <1>1, SerialsStep
     DEF Rest, MarketStep, Untouched, market, Late, RecordPlaced, RecordError
<1>3. CASE RecordPlaced
  <2>1. status' = [status EXCEPT ![req.coid] = "placed"] /\ pc = "record"
    BY <1>1, <1>3, RecordEffect DEF RecordPlaced, Rest
  <2>2. InProgress'
    BY <1>1, <1>3, <2>1 DEF RecordPlaced, Rest, InProgress
  <2>3. req.coid \notin lost => \A w \in wire : w.coid # req.coid
    BY <2>1 DEF Rest, Agree, OnWire, InProgress
  <2>4. Agree'
    <3>1. Agree /\ UNCHANGED <<orders, wire, lost>>
      BY <1>1 DEF Rest, market
    <3> QED
      BY <1>1, <2>1, <2>3, <3>1, AgreeRow
  <2> QED
    BY <1>2, <2>2, <2>4 DEF Rest
<1>4. CASE RecordError
  <2>1. status' = [status EXCEPT ![req.coid] = "error"] /\ pc = "noreply"
    BY <1>1, <1>4, RecordEffect DEF RecordError, Rest
  <2>2. InProgress'
    BY <1>1, <1>4 DEF RecordError, InProgress
  <2>3. Agree'
    BY <1>1, <2>1, AgreeRow DEF Rest, market
  <2> QED
    BY <1>2, <2>2, <2>3 DEF Rest
<1> QED
  BY <1>3, <1>4

\* The position written after the row.
LEMMA SetPositionStep ==
  ASSUME TypeOK, Rest, SetPosition
  PROVE  Rest'
<1>1. /\ pc = "setpos" /\ pc' = req.next /\ req.next \in {"poll", "heal"}
      /\ UNCHANGED <<status, pending, market, posts, kill, lost, late>>
  BY DEF SetPosition, TypeOK, Request
<1>2. Serials'
  BY <1>1, SerialsStep DEF Rest, MarketStep, Untouched, market
<1>3. Held /\ Late' /\ InProgress'
  BY <1>1 DEF Held, Rest, Late, InProgress
<1>4. Agree'
  BY <1>1, <1>3, AgreeFrame DEF Rest, market
<1> QED
  BY <1>2, <1>3, <1>4 DEF Rest

\* A death at any point: what bot.db lost track of is in lost.
LEMMA CrashStep ==
  ASSUME TypeOK, Rest, Crash
  PROVE  Rest'
<1>1. /\ pc' = "down" /\ pending' = {} /\ UNCHANGED <<db, market, posts, kill, late>>
      /\ lost \subseteq lost'
  BY DEF Crash
<1>2. Held
  BY DEF Crash, Held
<1>3. Late' /\ InProgress'
  BY <1>1 DEF Rest, Late, InProgress
<1> QED
  BY <1>1, <1>2, <1>3, QuietStep

\* Nothing happens.
LEMMA StutterStep ==
  ASSUME TypeOK, Rest, UNCHANGED vars
  PROVE  Rest'
<1>1. UNCHANGED <<db, process, market, posts, kill, late, lost>>
  BY DEF vars, db, process, market
<1>2. Held /\ InProgress' /\ Late'
  BY <1>1 DEF Held, Rest, InProgress, Late, db, process
<1> QED
  BY <1>1, <1>2, QuietStep

\* Nothing sent, nothing to track.
THEOREM TrackingInit == Init => Tracking
<1> SUFFICES ASSUME Init PROVE Tracking
  OBVIOUS
<1>1. TypeOK
  BY TypeInit
<1>2. Serials /\ Agree
  BY DEF Init, Serials, Agree, Standing, OnWire
<1>3. InProgress /\ Late
  BY DEF Init, InProgress, Late
<1> QED
  BY <1>1, <1>2, <1>3, TrackingParts DEF Rest

\* Every step keeps orders, wire, request and rows in agreement.
THEOREM TrackingStep == Tracking /\ [Next]_vars => Tracking'
<1> SUFFICES ASSUME Tracking, [Next]_vars PROVE Tracking'
  OBVIOUS
<1>1. TypeOK /\ Rest
  BY TrackingParts
<1>2. TypeOK'
  BY <1>1, TypeStep
<1>3. Rest'
  <2>1. CASE Exchange
    BY <1>1, <2>1, ExchangeStep
  <2>2. CASE World
    BY <1>1, <2>2, WorldStep
  <2>3. CASE Heal
    BY <1>1, <2>3, BootStep, HealRowStep DEF Heal
  <2>4. CASE Loop
    BY <1>1, <2>4, LoopStep
  <2>5. CASE Place
    BY <1>1, <2>5, ResolveStuckStep, GateStep, PostStep, RecordStep,
       SetPositionStep DEF Place
  <2>6. CASE Crash
    BY <1>1, <2>6, CrashStep
  <2>7. CASE UNCHANGED vars
    BY <1>1, <2>7, StutterStep
  <2> QED
    BY <2>1, <2>2, <2>3, <2>4, <2>5, <2>6, <2>7 DEF Next, Engine
<1> QED
  BY <1>2, <1>3 DEF Tracking, Rest, Agree

\* Whatever the exchange does with its orders, whenever the process dies, the
\* rows of bot.db and the orders at the exchange agree as Tracking says.
THEOREM TrackingCorrect == Spec => []Tracking
BY TrackingInit, TrackingStep, PTL DEF Spec

\* A decision never has two orders that trade, unless bot.db lost track of
\* it: boot healing, retries on the same bar and late requests included.
THEOREM OneLiveOrderCorrect == Spec => []OneLiveOrder
<1>1. Tracking => OneLiveOrder
  <2> SUFFICES ASSUME Tracking, NEW o \in orders, NEW p \in orders,
                      o.coid = p.coid, o.coid \notin lost, Live(o), Live(p)
               PROVE  o = p
    BY DEF OneLiveOrder
  <2>1. TypeOK /\ Serials /\ Standing
    BY DEF Tracking
  <2>2. ASSUME NEW q \in orders, Live(q) PROVE Stands(q)
    <3>1. q.got \in Nat /\ q.want > 0
      BY <2>1, MarketTypes DEF Serials
    <3> QED
      BY <2>2, <3>1 DEF Live, Stands, StatusFill
  <2>3. Newest(o) /\ Newest(p)
    BY <2>1, <2>2 DEF Standing
  <2>4. o.n \in Nat /\ p.n \in Nat
    BY <2>1, MarketTypes
  <2>5. o.n = p.n
    BY <2>3, <2>4 DEF Newest
  <2> QED
    BY <2>1, <2>5 DEF Serials
<1> QED
  BY <1>1, TrackingCorrect, PTL

\* At most one order leaves after the kill file appears.
THEOREM KillBoundCorrect == Spec => []KillBound
<1>1. Tracking => KillBound
  BY DEF Tracking, Late, KillBound
<1> QED
  BY <1>1, TrackingCorrect, PTL

-----------------------------------------------------------------------------
(* Refinement of the decision log *)

FateNow == [c \in Coid |-> FateOf(status[c])]
HoldingNow == [s \in Strategies |-> pos[s] + Unwritten(s)]

\* A write to one row is a change of one decision's fate.
LEMMA FateMoves ==
  ASSUME TypeOK, NEW c \in Coid, NEW st \in Statuses,
         status' = [status EXCEPT ![c] = st]
  PROVE  FateNow' = [FateNow EXCEPT ![c] = FateOf(st)]
BY DEF TypeOK, FateNow

\* Away from the write of a position, holdings are positions.
LEMMA HoldingSame ==
  ASSUME pos' = pos,
         \/ pc # "setpos" /\ pc' # "setpos"
         \/ pc' = pc /\ req' = req
  PROVE  HoldingNow' = HoldingNow
BY DEF HoldingNow, Unwritten

\* A step that only changes the fate of c.
LEMMA FateStep ==
  ASSUME TypeOK, NEW c \in Coid, NEW st \in Statuses,
         status' = [status EXCEPT ![c] = st], HoldingNow' = HoldingNow,
         \/ status[c] = "none" /\ st = "rejected"
         \/ status[c] \in {"none", "rejected"} /\ st = "error"
         \/ status[c] = "error" /\ st = "rejected"
  PROVE  Log!Next
<1>1. FateNow' = [FateNow EXCEPT ![c] = FateOf(st)]
  BY FateMoves
<1>2. FateNow[c] = FateOf(status[c])
  BY DEF FateNow
<1>3. Log!Refuse(c) \/ Log!Doubt(c) \/ Log!Clear(c)
  BY <1>1, <1>2
     DEF Log!Refuse, Log!Doubt, Log!Clear, FateNow, HoldingNow, FateOf
<1> QED
  BY <1>3 DEF Log!Next

\* A step that books a fill of c, its position still to be written.
LEMMA SettleStep ==
  ASSUME TypeOK, NEW c \in Coid, status[c] # "placed",
         status' = [status EXCEPT ![c] = "placed"],
         pos' = pos, pc # "setpos", pc' = "setpos", req'.coid = c,
         req'.fill \in Nat, req'.fill > 0
  PROVE  Log!Next
<1>1. FateNow' = [FateNow EXCEPT ![c] = "filled"] /\ FateNow[c] # "filled"
  <2>1. FateOf("placed") = "filled"
    BY DEF FateOf
  <2>2. FateNow[c] = FateOf(status[c]) /\ status[c] \in Statuses
    BY DEF FateNow, TypeOK
  <2>3. FateOf(status[c]) # "filled"
    BY <2>2 DEF FateOf
  <2> QED
    BY <2>1, <2>2, <2>3, FateMoves
<1>2. c.strategy \in Strategies /\ c.side \in {"buy", "sell"}
  BY DEF Coid, Sides
<1>3. \A s \in Strategies :
        /\ HoldingNow[s] = pos[s] /\ pos[s] \in Int
        /\ HoldingNow'[s] = IF s = c.strategy
                            THEN pos[s] + Signed(c, req'.fill) ELSE pos[s]
  BY DEF HoldingNow, Unwritten, Signed, TypeOK
<1>4. HoldingNow' = [HoldingNow EXCEPT ![c.strategy] = HoldingNow'[c.strategy]]
  BY ZenonT(60), <1>2, <1>3 DEF HoldingNow
<1>5. IF c.side = "buy"
      THEN HoldingNow'[c.strategy] > HoldingNow[c.strategy]
      ELSE HoldingNow'[c.strategy] < HoldingNow[c.strategy]
  BY <1>2, <1>3 DEF Signed
<1>6. Log!Settle(c)
  BY <1>1, <1>4, <1>5 DEF Log!Settle, FateNow, HoldingNow
<1> QED
  BY <1>6 DEF Log!Next

\* The initial states map to the initial state of DecisionLog.
THEOREM LogInit == Init => Log!Init
<1> SUFFICES ASSUME Init PROVE Log!Init
  OBVIOUS
<1>1. \A c \in Coid : FateOf(status[c]) = "none"
  BY DEF Init, FateOf
<1>2. \A s \in Strategies : pos[s] + Unwritten(s) = 0
  BY DEF Init, Unwritten
<1> QED
  BY <1>1, <1>2 DEF Log!Init

\* Every step of the order path is a step of the log or invisible to it.
LEMMA LogStep ==
  ASSUME "setpos" \notin CrashPoints, Tracking, [Next]_vars
  PROVE  Log!Next \/ (FateNow' = FateNow /\ HoldingNow' = HoldingNow)
<1> DEFINE Silent == FateNow' = FateNow /\ HoldingNow' = HoldingNow
<1>1. TypeOK /\ Rest /\ InProgress /\ Serials /\ Agree
  BY TrackingParts DEF Rest
<1>2. status' = status => FateNow' = FateNow
  BY DEF FateNow
<1>3. CASE Exchange \/ World \/ UNCHANGED vars
  <2>1. UNCHANGED <<status, pos, pc, req>>
    BY <1>3 DEF Exchange, Fill, Expire, Arrive, World, NextBar, SetKill,
                ClearKill, vars, db, process
  <2> QED
    BY <1>2, <2>1, HoldingSame
<1>4. CASE Boot \/ HealAbort \/ HealDone \/ Loop
  <2>1. UNCHANGED <<status, pos>> /\ pc # "setpos" /\ pc' # "setpos"
    BY <1>4 DEF Boot, HealAbort, HealDone, Loop, Halt, StartCycle, EndCycle,
                Hold, Decide, db
  <2> QED
    BY <1>2, <2>1, HoldingSame
<1>5. ASSUME NEW c \in Coid, status[c] = "error",
             pc \notin {"record", "noreply", "setpos"}, NEW next,
             \/ Unresolved /\ pc' # "setpos"
             \/ ResolveAbsent(c) /\ pc' # "setpos"
             \/ ResolveFilled(c, next)
      PROVE  Log!Next \/ Silent
  <2>1. CASE Unresolved /\ pc' # "setpos"
    BY <1>2, <1>5, <2>1, HoldingSame DEF Unresolved, db
  <2>2. CASE ResolveAbsent(c) /\ pc' # "setpos"
    <3>1. status' = [status EXCEPT ![c] = "rejected"]
      BY <1>1, <1>5, <2>2, AbsentEffect
    <3>2. HoldingNow' = HoldingNow
      BY <1>5, <2>2, HoldingSame DEF ResolveAbsent
    <3> QED
      BY <1>1, <1>5, <3>1, <3>2, FateStep
  <2>3. CASE ResolveFilled(c, next)
    BY <1>1, <1>5, <2>3, FilledEffect, SettleStep
  <2> QED
    BY <1>5, <2>1, <2>2, <2>3
<1>6. ASSUME NEW c \in Coid, HealRow(c) PROVE Log!Next \/ Silent
  <2>1. pc = "heal" /\ status[c] = "error"
    BY <1>1, <1>6 DEF HealRow, InProgress
  <2>2. \/ Unresolved /\ pc' # "setpos"
        \/ ResolveAbsent(c) /\ pc' # "setpos"
        \/ ResolveFilled(c, "heal")
    BY <1>6, <2>1 DEF HealRow
  <2> QED
    BY <1>5, <2>1, <2>2
<1>7. CASE ResolveStuck
  <2>1. pc = "resolve" /\ status[req.coid] = "error" /\ req.coid \in Coid
    BY <1>1, <1>7 DEF ResolveStuck, InProgress, TypeOK, Request
  <2>2. \/ Unresolved /\ pc' # "setpos"
        \/ ResolveAbsent(req.coid) /\ pc' # "setpos"
        \/ ResolveFilled(req.coid, "poll")
    BY <1>7 DEF ResolveStuck
  <2> QED
    BY <1>5, <2>1, <2>2
<1>8. CASE RiskRefuse
  <2>1. pc = "gate" /\ pc' = "poll" /\ pos' = pos /\ req.coid \in Coid
    BY <1>1, <1>8 DEF RiskRefuse, TypeOK, Request
  <2>2. HoldingNow' = HoldingNow
    BY <2>1, HoldingSame
  <2>3. CASE status' = status
    BY <1>2, <2>2, <2>3
  <2>4. CASE /\ status[req.coid] = "none"
             /\ status' = [status EXCEPT ![req.coid] = "rejected"]
    BY <1>1, <2>1, <2>2, <2>4, FateStep
  <2> QED
    BY <1>8, <2>3, <2>4 DEF RiskRefuse, LogOrder
<1>9. CASE Abandon \/ RiskPass \/ PostAnswered \/ PostFailed \/ PostRaised
  <2>1. UNCHANGED <<status, pos>> /\ pc # "setpos" /\ pc' # "setpos"
    BY <1>9 DEF Abandon, RiskPass, PostAnswered, PostFailed, PostRaised, db
  <2> QED
    BY <1>2, <2>1, HoldingSame
<1>10. CASE RecordPlaced
  <2>1. /\ pc = "record" /\ pc' = "setpos" /\ req' = req /\ pos' = pos
        /\ req.coid \in Coid /\ req.fill \in Nat /\ req.fill > 0
        /\ status[req.coid] # "placed"
    BY <1>1, <1>10 DEF RecordPlaced, InProgress, TypeOK, Request
  <2>2. status' = [status EXCEPT ![req.coid] = "placed"]
    BY <1>1, <1>10, <2>1, RecordEffect DEF RecordPlaced
  <2> QED
    BY <1>1, <2>1, <2>2, SettleStep
<1>11. CASE RecordError
  <2>1. /\ pc = "noreply" /\ pc' = "poll" /\ pos' = pos /\ req.coid \in Coid
        /\ status[req.coid] \in {"none", "rejected"}
    BY <1>1, <1>11 DEF RecordError, InProgress, TypeOK, Request
  <2>2. status' = [status EXCEPT ![req.coid] = "error"]
    BY <1>1, <1>11, <2>1, RecordEffect DEF RecordError
  <2>3. HoldingNow' = HoldingNow
    BY <2>1, HoldingSame
  <2> QED
    BY <1>1, <2>1, <2>2, <2>3, FateStep
<1>12. CASE SetPosition
  <2>1. /\ pc = "setpos" /\ pc' # "setpos" /\ status' = status
        /\ req.old = pos[req.coid.strategy] /\ req.coid.strategy \in Strategies
        /\ pos' = [pos EXCEPT ![req.coid.strategy] =
                     req.old + Signed(req.coid, req.fill)]
    BY <1>1, <1>12 DEF SetPosition, InProgress, TypeOK, Request, Coid
  <2>2. \A s \in Strategies : pos[s] \in Int /\ Signed(req.coid, req.fill) \in Int
    BY <1>1, <2>1 DEF TypeOK, Request, Signed
  <2>3. \A s \in Strategies : pos'[s] + Unwritten(s)' = pos[s] + Unwritten(s)
    BY <1>1, <2>1, <2>2 DEF Unwritten, TypeOK
  <2>4. HoldingNow' = HoldingNow
    BY <2>3 DEF HoldingNow
  <2> QED
    BY <1>2, <2>1, <2>4
<1>13. CASE Crash
  <2>1. UNCHANGED <<status, pos>> /\ pc # "setpos" /\ pc' # "setpos"
    BY <1>13 DEF Crash, db
  <2> QED
    BY <1>2, <2>1, HoldingSame
<1> QED
  BY <1>3, <1>4, <1>6, <1>7, <1>8, <1>9, <1>10, <1>11, <1>12, <1>13
     DEF Next, Engine, Heal, Place

\* When the process does not die between the row and the position of one
\* fill, the order path implements the decision log.
THEOREM ImplementsLogCorrect ==
  ASSUME "setpos" \notin CrashPoints
  PROVE  Spec => ImplementsLog
<1>1. Tracking /\ [Next]_vars => [Log!Next]_(Log!vars)
  BY LogStep DEF Log!vars, FateNow, HoldingNow
<1> QED
  BY <1>1, LogInit, TrackingCorrect, PTL DEF Spec, ImplementsLog, Log!Spec

-----------------------------------------------------------------------------
(* Sums over client_order_ids *)

\* The placed rows of a strategy.
Placed(s) == {c \in Coid : c.strategy = s /\ status[c] = "placed"}

\* There are finitely many client_order_ids.
LEMMA FiniteCoid == IsFiniteSet(Coid)
<1> DEFINE Triples == Strategies \X (Ts \X Sides)
           f == [x \in Triples |->
                   [strategy |-> x[1], ts |-> x[2][1], side |-> x[2][2]]]
<1>1. IsFiniteSet(Triples)
  <2>1. IsFiniteSet(Strategies)
    BY ConstantsAssumption
  <2>2. IsFiniteSet(Ts)
    BY ConstantsAssumption, FS_Interval DEF Ts
  <2>3. IsFiniteSet({"buy"}) /\ IsFiniteSet({"buy"} \cup {"sell"})
    BY FS_Singleton, FS_AddElement
  <2>4. IsFiniteSet(Sides)
    BY <2>3 DEF Sides
  <2>5. IsFiniteSet(Ts \X Sides)
    BY <2>2, <2>4, FS_Product
  <2> QED
    BY <2>1, <2>5, FS_Product
<1>2. f \in Surjection(Triples, Coid)
  <2>1. f \in [Triples -> Coid]
    BY DEF Coid
  <2>2. ASSUME NEW c \in Coid PROVE \E x \in Triples : f[x] = c
    <3>1. <<c.strategy, <<c.ts, c.side>>>> \in Triples
      BY DEF Coid
    <3>2. f[<<c.strategy, <<c.ts, c.side>>>>] = c
      BY <3>1 DEF Coid
    <3> QED
      BY <3>1, <3>2
  <2> QED
    BY <2>1, <2>2 DEF Surjection
<1> QED
  BY <1>1, <1>2, FS_Surjection

\* BookedNet is a sum in the form the lemmas of Recursion speak of.
LEMMA BookedIsSum ==
  ASSUME NEW s
  PROVE  BookedNet(s) = SumOver(booked, Placed(s))
BY DEF BookedNet, SumOver, Placed

\* It still is after a step.
LEMMA BookedIsSumNext ==
  ASSUME NEW s
  PROVE  BookedNet(s)' = SumOver(booked', Placed(s)')
BY DEF BookedNet, SumOver, Placed, MapThenSumSet, MapThenFoldSet

\* A sum grows by the value of the one element its set gains.
LEMMA SumGains ==
  ASSUME NEW S, IsFiniteSet(S), NEW a, a \notin S, NEW f, NEW g,
         \A x \in S : g[x] = f[x] /\ f[x] \in Int, g[a] \in Int
  PROVE  SumOver(g, S \cup {a}) = g[a] + SumOver(f, S)
<1>1. IsFiniteSet(S \cup {a}) /\ (S \cup {a}) \ {a} = S
  BY FS_AddElement
<1>2. SumOver(g, S \cup {a}) = g[a] + SumOver(g, S)
  <2>1. \A x \in S \cup {a} : g[x] \in Int
    OBVIOUS
  <2>2. SumOver(g, S \cup {a}) = g[a] + SumOver(g, (S \cup {a}) \ {a})
    BY <1>1, <2>1, SumTakes
  <2> QED
    BY <1>1, <2>2
<1>3. SumOver(g, S) = SumOver(f, S)
  BY SumSame
<1> QED
  BY <1>2, <1>3

-----------------------------------------------------------------------------
(* What a step does to the placed rows *)

\* No row becomes placed, and the placed ones keep their quantity.
RowsKept ==
  \A c \in Coid : /\ status'[c] = "placed" <=> status[c] = "placed"
                  /\ status[c] = "placed" => booked'[c] = booked[c]

\* The row of c becomes placed with quantity q.
RowBooked(c, q) ==
  /\ status[c] # "placed"
  /\ status' = [status EXCEPT ![c] = "placed"]
  /\ booked' = [booked EXCEPT ![c] = q]

\* What bot.db lost track of stays lost.
LEMMA LostGrows ==
  ASSUME [Next]_vars
  PROVE  lost \subseteq lost'
<1>1. CASE Exchange \/ World \/ UNCHANGED vars \/ Crash
  BY <1>1 DEF Exchange, Fill, Expire, Arrive, World, NextBar, SetKill,
              ClearKill, vars, Crash
<1>2. CASE Heal \/ Loop
  BY <1>2 DEF Heal, Boot, HealRow, HealAbort, HealDone, Unresolved,
              ResolveAbsent, ResolveFilled, Forget, Loop, Halt, StartCycle,
              EndCycle, Hold, Decide
<1>3. CASE Place
  BY <1>3 DEF Place, ResolveStuck, Unresolved, ResolveAbsent, ResolveFilled,
              Forget, RiskRefuse, Abandon, RiskPass, PostAnswered, PostFailed,
              PostRaised, RecordPlaced, SetPosition, RecordError
<1> QED
  BY <1>1, <1>2, <1>3 DEF Next, Engine

\* As long as no row is booked the sum stays.
LEMMA NetKept ==
  ASSUME TypeOK, RowsKept, NEW s \in Strategies
  PROVE  BookedNet(s)' = BookedNet(s)
<1>1. Placed(s)' = Placed(s)
  BY DEF Placed, RowsKept
<1>2. IsFiniteSet(Placed(s)) /\ \A c \in Placed(s) : booked'[c] = booked[c]
  BY FiniteCoid, FS_Subset DEF Placed, RowsKept
<1>3. SumOver(booked, Placed(s)) = SumOver(booked', Placed(s))
  BY <1>2, SumSame
<1>4. BookedNet(s)' = SumOver(booked', Placed(s)')
  BY BookedIsSumNext
<1> QED
  BY <1>1, <1>3, <1>4, BookedIsSum

\* A booked row moves the sum of its strategy by its quantity, no other.
LEMMA NetGains ==
  ASSUME TypeOK, NEW c \in Coid, NEW q \in Int, RowBooked(c, q),
         NEW s \in Strategies
  PROVE  BookedNet(s)' = IF s = c.strategy THEN BookedNet(s) + q
                                           ELSE BookedNet(s)
<1>1. IsFiniteSet(Placed(s)) /\ \A d \in Placed(s) : booked[d] \in Int
  BY FiniteCoid, FS_Subset DEF Placed, TypeOK
<1>2. \A d \in Placed(s) : booked'[d] = booked[d]
  BY DEF Placed, RowBooked
<1>3. BookedNet(s)' = SumOver(booked', Placed(s)')
  BY BookedIsSumNext
<1>4. booked'[c] = q
  BY DEF RowBooked, TypeOK
<1>5. SumOver(booked, Placed(s)) \in Int
  BY <1>1, SumInt
<1>6. CASE s = c.strategy
  <2>1. Placed(s)' = Placed(s) \cup {c} /\ c \notin Placed(s)
    BY <1>6 DEF Placed, RowBooked, TypeOK
  <2>2. SumOver(booked', Placed(s) \cup {c}) = q + SumOver(booked, Placed(s))
    BY ZenonT(60), <1>1, <1>2, <1>4, <2>1, SumGains
  <2> QED
    BY <1>3, <1>5, <1>6, <2>1, <2>2, BookedIsSum
<1>7. CASE s # c.strategy
  <2>1. Placed(s)' = Placed(s)
    BY <1>7 DEF Placed, RowBooked, TypeOK
  <2>2. SumOver(booked, Placed(s)) = SumOver(booked', Placed(s))
    BY <1>1, <1>2, SumSame
  <2> QED
    BY <1>3, <1>7, <2>1, <2>2, BookedIsSum
<1> QED
  BY <1>6, <1>7

\* A row that is not placed may be written without being booked.
LEMMA RowWritten ==
  ASSUME TypeOK, NEW c \in Coid, status[c] # "placed", NEW st, NEW q,
         st # "placed", LogOrder(c, st, q) \/ HealOrder(c, st, q)
  PROVE  RowsKept
BY DEF RowsKept, LogOrder, HealOrder, TypeOK

-----------------------------------------------------------------------------
(* What a step does to the book *)

\* A position with the fill about to be written to it.
Holds(s) == pos[s] + Unwritten(s)

\* A step that books nothing: no row becomes placed, and the holdings of a
\* strategy bot.db goes on tracking stay what they are.
Unbooked ==
  /\ RowsKept
  /\ \A s \in Strategies : Tracked(s)' => Holds(s)' = Holds(s)

\* A step that books the fill of c in its row, its position to follow.
Booking ==
  /\ pc # "setpos" /\ pc' = "setpos" /\ pos' = pos /\ lost' = lost
  /\ req'.coid \in Coid /\ req'.fill \in Nat
  /\ RowBooked(req'.coid, Signed(req'.coid, req'.fill))

\* Away from the write of a position, holdings are positions.
LEMMA HeldSame ==
  ASSUME pos' = pos,
         \/ pc # "setpos" /\ pc' # "setpos"
         \/ pc' = pc /\ req' = req
  PROVE  \A s \in Strategies : Holds(s)' = Holds(s)
BY DEF Holds, Unwritten

\* A step that leaves the rows and positions alone books nothing.
LEMMA IdleUnbooked ==
  ASSUME UNCHANGED <<status, booked, pos>>,
         \/ pc # "setpos" /\ pc' # "setpos"
         \/ pc' = pc /\ req' = req
  PROVE  Unbooked
BY HeldSame DEF Unbooked, RowsKept

\* resolve_one books what it finds, and nothing else, whoever asks.
LEMMA ResolveBooks ==
  ASSUME Tracking, NEW c \in Coid, status[c] = "error", pc # "setpos",
         NEW next,
         \/ Unresolved /\ pc' # "setpos"
         \/ ResolveAbsent(c) /\ pc' # "setpos"
         \/ ResolveFilled(c, next)
  PROVE  Unbooked \/ Booking
<1>1. TypeOK
  BY DEF Tracking
<1>2. CASE Unresolved /\ pc' # "setpos"
  BY <1>2, IdleUnbooked DEF Unresolved, db
<1>3. CASE ResolveAbsent(c) /\ pc' # "setpos"
  <2>1. HealOrder(c, "rejected", 0) /\ pos' = pos
    BY <1>3 DEF ResolveAbsent
  <2>2. RowsKept
    BY <1>1, <2>1, RowWritten
  <2> QED
    BY <1>3, <2>1, <2>2, HeldSame DEF Unbooked
<1>4. CASE ResolveFilled(c, next)
  <2>1. PICK o \in AtExchange(c) :
          /\ HealOrder(c, "placed", Signed(c, StatusFill(o)))
          /\ req' = [coid |-> c, qty |-> StatusFill(o),
                     old |-> pos[c.strategy], fill |-> StatusFill(o),
                     reuse |-> TRUE, next |-> next]
    BY <1>4 DEF ResolveFilled
  <2>2. StatusFill(o) \in Nat
    BY <1>1, MarketTypes DEF AtExchange, StatusFill
  <2>3. RowBooked(c, Signed(c, StatusFill(o)))
    BY <2>1 DEF HealOrder, RowBooked
  <2> QED
    BY <1>4, <2>1, <2>2, <2>3 DEF Booking, ResolveFilled
<1> QED
  BY <1>2, <1>3, <1>4

\* The position takes exactly the fill that was about to be written to it.
LEMMA SetPositionHeld ==
  ASSUME Tracking, SetPosition
  PROVE  Unbooked
<1>1. TypeOK /\ InProgress
  BY DEF Tracking
<1>2. /\ pc = "setpos" /\ pc' # "setpos" /\ UNCHANGED <<status, booked>>
      /\ req.old = pos[req.coid.strategy] /\ req.coid.strategy \in Strategies
      /\ pos' = [pos EXCEPT ![req.coid.strategy] =
                   req.old + Signed(req.coid, req.fill)]
  BY <1>1 DEF SetPosition, InProgress, TypeOK, Request, Coid
<1>3. \A s \in Strategies : pos[s] \in Int /\ Signed(req.coid, req.fill) \in Int
  BY <1>1, <1>2 DEF TypeOK, Request, Signed
<1>4. \A s \in Strategies : Holds(s)' = Holds(s)
  BY <1>1, <1>2, <1>3 DEF Holds, Unwritten, TypeOK
<1> QED
  BY <1>2, <1>4 DEF Unbooked, RowsKept

\* A death between the two writes of a fill is one bot.db lost track of.
LEMMA CrashUnbooked ==
  ASSUME TypeOK, Written, Crash
  PROVE  Unbooked
<1>1. UNCHANGED <<status, booked, pos>> /\ pc' = "down"
  BY DEF Crash, db
<1>2. ASSUME NEW s \in Strategies, Tracked(s)'
      PROVE  Holds(s)' = Holds(s)
  <2>1. CASE pc # "setpos"
    BY <1>1, <2>1 DEF Holds, Unwritten
  <2>2. CASE pc = "setpos"
    <3>1. req.coid \in lost'
      BY <2>2 DEF Crash, Written, AtExchange
    <3>2. req.coid.strategy # s
      BY <1>2, <3>1 DEF Tracked
    <3> QED
      BY <1>1, <3>2 DEF Holds, Unwritten
  <2> QED
    BY <2>1, <2>2
<1> QED
  BY <1>1, <1>2 DEF Unbooked, RowsKept

\* Every step books one fill or none.
LEMMA BookStep ==
  ASSUME Tracking, Written, [Next]_vars
  PROVE  Unbooked \/ Booking
<1>1. TypeOK /\ InProgress
  BY DEF Tracking
<1>2. CASE Exchange \/ World \/ UNCHANGED vars
  <2>1. UNCHANGED <<status, booked, pos, pc, req>>
    BY <1>2 DEF Exchange, Fill, Expire, Arrive, World, NextBar, SetKill,
                ClearKill, vars, db, process
  <2> QED
    BY <2>1, IdleUnbooked
<1>3. CASE \/ Boot \/ HealAbort \/ HealDone \/ Loop \/ Abandon \/ RiskPass
           \/ PostAnswered \/ PostFailed \/ PostRaised
  <2>1. UNCHANGED <<status, booked, pos>> /\ pc # "setpos" /\ pc' # "setpos"
    BY <1>3 DEF Boot, HealAbort, HealDone, Loop, Halt, StartCycle, EndCycle,
                Hold, Decide, Abandon, RiskPass, PostAnswered, PostFailed,
                PostRaised, db
  <2> QED
    BY <2>1, IdleUnbooked
<1>4. ASSUME NEW c \in Coid, HealRow(c) PROVE Unbooked \/ Booking
  <2>1. pc = "heal" /\ status[c] = "error"
    BY <1>1, <1>4 DEF HealRow, InProgress
  <2>2. \/ Unresolved /\ pc' # "setpos"
        \/ ResolveAbsent(c) /\ pc' # "setpos"
        \/ ResolveFilled(c, "heal")
    BY <1>4, <2>1 DEF HealRow
  <2> QED
    BY <2>1, <2>2, ResolveBooks
<1>5. CASE ResolveStuck
  <2>1. pc = "resolve" /\ status[req.coid] = "error" /\ req.coid \in Coid
    BY <1>1, <1>5 DEF ResolveStuck, InProgress, TypeOK, Request
  <2>2. \/ Unresolved /\ pc' # "setpos"
        \/ ResolveAbsent(req.coid) /\ pc' # "setpos"
        \/ ResolveFilled(req.coid, "poll")
    BY <1>5 DEF ResolveStuck
  <2> QED
    BY <2>1, <2>2, ResolveBooks
<1>6. CASE RiskRefuse \/ RecordError
  <2>1. /\ pc \in {"gate", "noreply"} /\ pc' = "poll" /\ pos' = pos
        /\ req.coid \in Coid /\ status[req.coid] # "placed"
    BY <1>1, <1>6 DEF RiskRefuse, RecordError, InProgress, TypeOK, Request
  <2>2. RowsKept
    BY <1>1, <1>6, <2>1, RowWritten DEF RiskRefuse, RecordError, Record
  <2> QED
    BY <2>1, <2>2, HeldSame DEF Unbooked
<1>7. CASE RecordPlaced
  <2>1. /\ pc = "record" /\ pc' = "setpos" /\ req' = req /\ pos' = pos
        /\ lost' = lost /\ req.coid \in Coid /\ req.fill \in Nat
        /\ status[req.coid] = IF req.reuse THEN "rejected" ELSE "none"
        /\ Record(req.coid, "placed", Signed(req.coid, req.fill))
    BY <1>1, <1>7 DEF RecordPlaced, InProgress, TypeOK, Request
  <2>2. RowBooked(req.coid, Signed(req.coid, req.fill))
    BY <2>1 DEF Record, LogOrder, HealOrder, RowBooked
  <2> QED
    BY <2>1, <2>2 DEF Booking
<1>8. CASE SetPosition
  BY <1>8, SetPositionHeld
<1>9. CASE Crash
  BY <1>1, <1>9, CrashUnbooked
<1> QED
  BY <1>2, <1>3, <1>4, <1>5, <1>6, <1>7, <1>8, <1>9
     DEF Next, Engine, Heal, Place

-----------------------------------------------------------------------------
(* The fill that is being written down *)

\* How a fill comes to be in hand: from a reply, from a lookup, or it was.
LEMMA InHandStep ==
  ASSUME Tracking, [Next]_vars, pc' \in {"record", "setpos"}
  PROVE  \/ PostAnswered
         \/ \E c \in Coid, next \in {"poll", "heal"} :
              /\ status[c] = "error" /\ ResolveFilled(c, next)
              /\ UNCHANGED <<orders, coins, wire, posts>>
         \/ pc \in {"record", "setpos"} /\ req' = req /\ lost' = lost
<1>1. TypeOK /\ InProgress
  BY DEF Tracking
<1>2. CASE Exchange \/ World \/ UNCHANGED vars
  BY <1>2 DEF Exchange, Fill, Expire, Arrive, World, NextBar, SetKill,
              ClearKill, vars, process
<1>3. CASE Heal
  <2>1. PICK c \in Coid : HealRow(c) /\ pc # "record"
    BY <1>3 DEF Heal, Boot, HealAbort, HealDone, HealRow
  <2>2. status[c] = "error" /\ pc = "heal"
    BY <1>1, <2>1 DEF HealRow, InProgress
  <2> QED
    BY <2>1, <2>2 DEF HealRow, market
<1>4. CASE ResolveStuck
  <2>1. status[req.coid] = "error" /\ req.coid \in Coid /\ pc = "resolve"
    BY <1>1, <1>4 DEF ResolveStuck, InProgress, TypeOK, Request
  <2> QED
    BY <1>4, <2>1 DEF ResolveStuck, market
<1>5. CASE RecordPlaced
  BY <1>5 DEF RecordPlaced
<1>6. CASE SetPosition
  BY <1>1, <1>6 DEF SetPosition, TypeOK, Request
<1>7. CASE \/ Loop \/ RiskRefuse \/ Abandon \/ RiskPass \/ PostFailed
           \/ PostRaised \/ RecordError \/ Crash
  BY <1>7 DEF Loop, Halt, StartCycle, EndCycle, Hold, Decide, RiskRefuse,
              Abandon, RiskPass, PostFailed, PostRaised, RecordError, Crash
<1> QED
  BY <1>2, <1>3, <1>4, <1>5, <1>6, <1>7 DEF Next, Engine, Place

\* What a step may do to the orders: nothing, restate one, or add one.
LEMMA OrdersStep ==
  ASSUME Tracking, [Next]_vars
  PROVE  \/ UNCHANGED <<orders, coins>>
         \/ \E o \in orders : Fill(o) \/ Expire(o)
         \/ \E w \in wire : /\ \E o \in Fresh(w.coid, w.n, w.want) :
                                 Takes(w.coid, w.n, w.want, o)
                            /\ lost' = lost
         \/ /\ pc = "post"
            /\ \E o \in Fresh(req.coid, posts + 1, req.qty) :
                 Takes(req.coid, posts + 1, req.qty, o)
            /\ lost \subseteq lost'
<1>1. CASE Exchange
  BY <1>1 DEF Exchange, Arrive
<1>2. CASE World \/ UNCHANGED vars \/ Crash
  BY <1>2 DEF World, NextBar, SetKill, ClearKill, vars, Crash, market
<1>3. CASE Heal \/ Loop
  BY <1>3 DEF Heal, Boot, HealRow, HealAbort, HealDone, Loop, Halt,
              StartCycle, EndCycle, Hold, Decide, market
<1>4. CASE \/ ResolveStuck \/ RiskRefuse \/ Abandon \/ RiskPass
           \/ RecordPlaced \/ SetPosition \/ RecordError
  BY <1>4 DEF ResolveStuck, RiskRefuse, Abandon, RiskPass, RecordPlaced,
              SetPosition, RecordError, market
<1>5. CASE PostAnswered \/ PostFailed \/ PostRaised
  BY <1>5 DEF PostAnswered, PostFailed, PostRaised, market
<1> QED
  BY <1>1, <1>2, <1>3, <1>4, <1>5 DEF Next, Engine, Place

\* The exchange forgets no client_order_id.
LEMMA OrdersStay ==
  ASSUME Tracking, [Next]_vars, NEW c, AtExchange(c) # {}
  PROVE  AtExchange(c)' # {}
<1>1. TypeOK
  BY DEF Tracking
<1>2. PICK p \in orders : p.coid = c
  BY DEF AtExchange
<1>3. CASE UNCHANGED <<orders, coins>>
  BY <1>2, <1>3 DEF AtExchange
<1>4. CASE \E o \in orders : Fill(o) \/ Expire(o)
  <2>1. PICK o \in orders : \E q : Restates(o, q)
    BY <1>1, <1>4, FillRestates
  <2>2. PICK q : Restates(o, q)
    BY <2>1
  <2> QED
    BY <1>2, <2>1, <2>2 DEF Restates, AtExchange
<1>5. ASSUME NEW d, NEW n, NEW want, NEW o, Takes(d, n, want, o)
      PROVE  AtExchange(c)' # {}
  BY <1>2, <1>5 DEF Takes, AtExchange
<1> QED
  BY <1>3, <1>4, <1>5, OrdersStep

\* An order whose fill is in hand is at the exchange.
LEMMA WrittenStep ==
  ASSUME Tracking, Written, [Next]_vars
  PROVE  Written'
<1> SUFFICES ASSUME pc' \in {"record", "setpos"}
             PROVE  AtExchange(req.coid)' # {}
  BY DEF Written
<1>1. TypeOK
  BY DEF Tracking
<1>2. CASE PostAnswered
  <2>1. req \in Request
    BY <1>1, <1>2 DEF PostAnswered, TypeOK
  <2>2. PICK o : Takes(req.coid, posts + 1, req.qty, o)
    BY <1>2 DEF PostAnswered
  <2>3. req'.coid = req.coid
    BY <1>2, <2>1 DEF PostAnswered, Request
  <2> QED
    BY <2>2, <2>3 DEF Takes, AtExchange
<1>3. CASE \E c \in Coid, next \in {"poll", "heal"} :
             ResolveFilled(c, next) /\ UNCHANGED orders
  BY <1>3 DEF ResolveFilled, AtExchange
<1>4. CASE pc \in {"record", "setpos"} /\ req' = req
  BY <1>4, OrdersStay DEF Written
<1> QED
  BY <1>2, <1>3, <1>4, InHandStep

-----------------------------------------------------------------------------
(* The positions table is the sum of the placed rows *)

\* Every step moves a strategy's holding and its placed rows together.
LEMMA LedgerStep ==
  ASSUME Tracking, Written, PositionIsLedger, [Next]_vars
  PROVE  PositionIsLedger'
<1>1. TypeOK
  BY DEF Tracking
<1>2. \A s \in Strategies : Tracked(s) => Holds(s) = BookedNet(s)
  BY DEF PositionIsLedger, Holds
<1>3. lost \subseteq lost'
  BY LostGrows
<1>4. CASE Unbooked
  <2>1. \A s \in Strategies : BookedNet(s)' = BookedNet(s)
    BY <1>1, <1>4, NetKept DEF Unbooked
  <2> QED
    BY <1>2, <1>3, <1>4, <2>1 DEF PositionIsLedger, Unbooked, Holds, Tracked
<1>5. CASE Booking
  <2> DEFINE c == req'.coid
             q == Signed(c, req'.fill)
  <2>1. c \in Coid /\ q \in Int /\ RowBooked(c, q)
    BY <1>5 DEF Booking, Signed
  <2>2. ASSUME NEW s \in Strategies
        PROVE  BookedNet(s)' = IF s = c.strategy THEN BookedNet(s) + q
                                                 ELSE BookedNet(s)
    <3> HIDE DEF c, q
    <3> QED
      BY <1>1, <2>1, NetGains
  <2>3. ASSUME NEW s \in Strategies
        PROVE  /\ Holds(s) = pos[s] /\ pos[s] \in Int
               /\ Holds(s)' = IF s = c.strategy THEN pos[s] + q ELSE pos[s]
    BY <1>1, <1>5, <2>1 DEF Booking, Holds, Unwritten, TypeOK
  <2> HIDE DEF c, q
  <2>4. \A s \in Strategies : Tracked(s)' => Holds(s)' = BookedNet(s)'
    BY <1>2, <1>3, <2>1, <2>2, <2>3 DEF Tracked
  <2> QED
    BY <2>4 DEF PositionIsLedger, Holds
<1> QED
  BY <1>4, <1>5, BookStep

-----------------------------------------------------------------------------
(* The coins are what the decisions traded *)

\* The case BookAgrees speaks of, with everything the argument rests on.
Settling ==
  Tracking /\ Written /\ Settled /\ Immediate /\ ReportsFill

\* The exchange takes an order that trades at once, the only one of its
\* client_order_id unless bot.db lost track of that.
Trades(o) ==
  /\ o \in Order /\ ~o.open /\ o.got > 0
  /\ orders' = orders \cup {o}
  /\ coins' = [coins EXCEPT ![o.coid.strategy] = @ + Signed(o.coid, o.got)]
  /\ o.coid \notin lost' => AtExchange(o.coid) = {}

\* A tracked decision has one order at most, and Traded is what it did.
LEMMA OneOrder ==
  ASSUME Settling, NEW c \in Coid, c \notin lost, NEW o \in AtExchange(c)
  PROVE  AtExchange(c) = {o} /\ Traded[c] = Signed(c, o.got)
<1>1. TypeOK /\ Serials /\ Standing
  BY DEF Settling, Tracking
<1>2. ASSUME NEW p \in AtExchange(c) PROVE p = o
  <2>1. /\ p \in orders /\ o \in orders /\ p.coid = c /\ o.coid = c
        /\ p.got > 0 /\ o.got > 0
    BY <1>2 DEF AtExchange, Settling, Settled
  <2>2. Stands(o) /\ Stands(p)
    BY <2>1 DEF Stands, StatusFill, Settling
  <2>3. Newest(o) /\ Newest(p)
    BY <1>1, <2>1, <2>2 DEF Standing
  <2>4. o.n = p.n
    BY <1>1, <2>1, <2>3, MarketTypes DEF Newest
  <2> QED
    BY <1>1, <2>1, <2>4 DEF Serials
<1>3. AtExchange(c) = {o}
  BY <1>2
<1>4. {p.got : p \in AtExchange(c)} = {o.got}
  BY <1>3
<1> QED
  BY <1>3, <1>4 DEF Traded

\* Every step of a settling exchange leaves the market alone or trades.
LEMMA MarketSettles ==
  ASSUME Settling, [Next]_vars
  PROVE  UNCHANGED <<orders, coins>> \/ \E o : Trades(o)
<1>1. TypeOK /\ Agree /\ InProgress
  BY DEF Settling, Tracking, Agree
<1>2. \A o \in orders : ~o.open /\ Stands(o)
  BY DEF Settling, Settled, Stands, StatusFill
<1>3. CASE \E o \in orders : Fill(o) \/ Expire(o)
  BY <1>2, <1>3 DEF Fill, Expire
<1>4. CASE \E w \in wire : /\ \E o \in Fresh(w.coid, w.n, w.want) :
                                Takes(w.coid, w.n, w.want, o)
                           /\ lost' = lost
  <2>1. PICK w \in wire : /\ \E o \in Fresh(w.coid, w.n, w.want) :
                               Takes(w.coid, w.n, w.want, o)
                          /\ lost' = lost
    BY <1>4
  <2>2. PICK o \in Fresh(w.coid, w.n, w.want) : Takes(w.coid, w.n, w.want, o)
    BY <2>1
  <2>3. w.coid \in Coid /\ w.n \in Nat /\ w.want \in Nat
    BY <1>1, MarketTypes
  <2>4. o \in Order /\ o.coid = w.coid
    BY <2>2, <2>3, FreshType DEF Takes
  <2>5. w.coid \notin lost => AtExchange(w.coid) = {}
    BY <1>1, <1>2 DEF Agree, OnWire, AtExchange
  <2>6. Trades(o)
    BY <2>1, <2>2, <2>4, <2>5 DEF Takes, Trades, Settling
  <2> QED
    BY <2>6
<1>5. CASE /\ pc = "post"
           /\ \E o \in Fresh(req.coid, posts + 1, req.qty) :
                Takes(req.coid, posts + 1, req.qty, o)
           /\ lost \subseteq lost'
  <2>1. PICK o \in Fresh(req.coid, posts + 1, req.qty) :
          Takes(req.coid, posts + 1, req.qty, o)
    BY <1>5
  <2>2. req.coid \in Coid /\ req.qty \in Nat /\ posts + 1 \in Nat
    BY <1>1, <1>5 DEF TypeOK, Request
  <2>3. o \in Order /\ o.coid = req.coid
    BY <2>1, <2>2, FreshType DEF Takes
  <2>4. req.coid \notin lost => AtExchange(req.coid) = {}
    BY <1>1, <1>2, <1>5, Unposted DEF AtExchange
  <2>5. Trades(o)
    BY <1>5, <2>1, <2>3, <2>4 DEF Takes, Trades, Settling
  <2> QED
    BY <2>5
<1> QED
  BY <1>3, <1>4, <1>5, OrdersStep DEF Settling

\* A trade is what its own decision traded, and changes no other.
LEMMA TradeEffect ==
  ASSUME Settling, NEW o, Trades(o)
  PROVE  /\ \A c \in Coid : c # o.coid =>
              AtExchange(c)' = AtExchange(c) /\ Traded'[c] = Traded[c]
         /\ AtExchange(o.coid) = {} => Traded'[o.coid] = Signed(o.coid, o.got)
<1>1. ASSUME NEW c \in Coid, c # o.coid
      PROVE  AtExchange(c)' = AtExchange(c) /\ Traded'[c] = Traded[c]
  <2>1. AtExchange(c)' = AtExchange(c)
    BY <1>1 DEF Trades, AtExchange
  <2> QED
    BY <2>1 DEF Traded
<1>2. ASSUME AtExchange(o.coid) = {}
      PROVE  Traded'[o.coid] = Signed(o.coid, o.got)
  <2> DEFINE mine == {p \in orders' : p.coid = o.coid}
  <2>1. mine = {o} /\ o.coid \in Coid
    BY <1>2 DEF Trades, AtExchange, Order
  <2>2. {p.got : p \in mine} = {o.got}
    BY <2>1
  <2> QED
    BY <2>1, <2>2 DEF Traded, AtExchange
<1> QED
  BY <1>1, <1>2

\* The first part of Settled: orders trade at once.
LEMMA TradedAtOnce ==
  ASSUME Settling, [Next]_vars
  PROVE  (\A o \in orders : ~o.open /\ o.got > 0)'
BY MarketSettles DEF Settling, Settled, Trades

\* The fill in hand is what its decision traded, whoever read it.
LEMMA FillTraded ==
  ASSUME Settling, [Next]_vars, pc' \in {"record", "setpos"},
         req'.coid \notin lost'
  PROVE  Signed(req'.coid, req'.fill) = Traded'[req'.coid]
<1>1. TypeOK
  BY DEF Settling, Tracking
<1>2. CASE PostAnswered
  <2>1. PICK o \in Fresh(req.coid, posts + 1, req.qty) :
          /\ Takes(req.coid, posts + 1, req.qty, o)
          /\ req' = [req EXCEPT !.fill = ReplyFill(o)]
    BY <1>2 DEF PostAnswered
  <2>2. /\ pc = "post" /\ req \in Request /\ req.coid \in Coid
        /\ lost' = lost
    BY <1>1, <1>2 DEF PostAnswered, TypeOK, Request
  <2>3. req'.coid = req.coid /\ req'.fill = ReplyFill(o) /\ o.coid = req.coid
    BY <2>1, <2>2 DEF Takes, Request
  <2>4. AtExchange(req.coid) = {}
    <3>1. Agree /\ InProgress
      BY DEF Settling, Tracking, Agree
    <3> QED
      BY <2>2, <2>3, <3>1, Unposted
         DEF AtExchange, Settling, Settled, Stands, StatusFill
  <2>5. ReplyFill(o) = o.got
    BY <2>1 DEF Takes, Settling, ReplyFill
  <2>6. {p \in orders' : p.coid = req.coid} = {o}
    BY <2>1, <2>3, <2>4 DEF Takes, AtExchange
  <2>7. {p.got : p \in {p \in orders' : p.coid = req.coid}} = {o.got}
    BY <2>6
  <2> QED
    BY <2>2, <2>3, <2>5, <2>7 DEF Traded, AtExchange
<1>3. CASE \E c \in Coid, next \in {"poll", "heal"} :
             ResolveFilled(c, next) /\ UNCHANGED <<orders, coins, wire, posts>>
  <2>1. PICK c \in Coid : /\ \E next \in {"poll", "heal"} : ResolveFilled(c, next)
                          /\ UNCHANGED orders
    BY <1>3
  <2>2. PICK o \in AtExchange(c) :
          req'.coid = c /\ req'.fill = StatusFill(o) /\ lost' = lost
    BY <2>1 DEF ResolveFilled
  <2>3. Traded[c] = Signed(c, o.got)
    BY <2>2, OneOrder
  <2>4. Traded' = Traded
    BY <2>1 DEF Traded, AtExchange
  <2> QED
    BY <2>2, <2>3, <2>4 DEF StatusFill, Settling
<1>4. CASE pc \in {"record", "setpos"} /\ req' = req /\ lost' = lost
  <2>1. req.coid \in Coid /\ AtExchange(req.coid) # {}
    BY <1>1, <1>4 DEF TypeOK, Request, Settling, Written
  <2>2. Signed(req.coid, req.fill) = Traded[req.coid]
    BY <1>4 DEF Settling, Settled
  <2>3. CASE UNCHANGED <<orders, coins>>
    <3>1. Traded' = Traded
      BY <2>3 DEF Traded, AtExchange
    <3> QED
      BY <1>4, <2>2, <3>1
  <2>4. CASE \E o : Trades(o)
    BY <1>4, <2>1, <2>2, <2>4, TradeEffect DEF Trades
  <2> QED
    BY <2>3, <2>4, MarketSettles
<1> QED
  BY <1>2, <1>3, <1>4, InHandStep DEF Settling

\* A placed row says what its decision traded.
LEMMA RowsTraded ==
  ASSUME Settling, [Next]_vars, NEW c \in Coid, c \notin lost',
         status'[c] = "placed"
  PROVE  AtExchange(c)' # {} /\ booked'[c] = Traded'[c]
<1>1. TypeOK /\ c \notin lost
  BY LostGrows DEF Settling, Tracking
<1>2. CASE status[c] = "placed"
  <2>1. AtExchange(c) # {} /\ booked[c] = Traded[c]
    BY <1>1, <1>2 DEF Settling, Settled
  <2>2. Traded'[c] = Traded[c]
    <3>1. CASE UNCHANGED <<orders, coins>>
      BY <3>1 DEF Traded, AtExchange
    <3>2. CASE \E o : Trades(o)
      BY <2>1, <3>2, TradeEffect DEF Trades
    <3> QED
      BY <3>1, <3>2, MarketSettles
  <2>3. booked'[c] = booked[c]
    <3>1. CASE Unbooked
      BY <1>2, <3>1 DEF Unbooked, RowsKept
    <3>2. CASE Booking
      BY <1>1, <1>2, <3>2 DEF Booking, RowBooked, TypeOK
    <3> QED
      BY <3>1, <3>2, BookStep DEF Settling
  <2> QED
    BY <2>1, <2>2, <2>3, OrdersStay DEF Settling
<1>3. CASE status[c] # "placed"
  <2>1. Booking
    BY <1>3, BookStep DEF Unbooked, RowsKept, Settling
  <2>2. c = req'.coid /\ pc' = "setpos"
    BY <1>1, <1>3, <2>1 DEF Booking, RowBooked, TypeOK
  <2>3. booked'[c] = Signed(c, req'.fill)
    BY <1>1, <2>1, <2>2 DEF Booking, RowBooked, TypeOK
  <2>4. Signed(c, req'.fill) = Traded'[c]
    BY <2>2, FillTraded
  <2>5. AtExchange(c)' # {}
    BY <2>2, WrittenStep DEF Settling, Written, AtExchange
  <2> QED
    BY <2>3, <2>4, <2>5
<1> QED
  BY <1>2, <1>3

\* The coins of a strategy in the form the lemmas of Recursion speak of.
CoinsTraded(s) == coins[s] = SumOver(Traded, Sent(s))

\* It is that form which Settled states, before a step and after it.
LEMMA CoinsAreSum ==
  /\ Settled => \A s \in Strategies : Tracked(s) => CoinsTraded(s)
  /\ (\A s \in Strategies : Tracked(s) =>
        coins[s] = MapThenSumSet(LAMBDA c : Traded[c], Sent(s)))'
     <=> (\A s \in Strategies : Tracked(s) => CoinsTraded(s))'
BY DEF Settled, CoinsTraded, SumOver, MapThenSumSet, MapThenFoldSet

\* The coins of a tracked strategy stay what its decisions traded.
LEMMA CoinsStep ==
  ASSUME Settling, [Next]_vars, NEW s \in Strategies, Tracked(s)'
  PROVE  CoinsTraded(s)'
<1>1. TypeOK /\ Tracked(s) /\ coins[s] = SumOver(Traded, Sent(s))
  BY LostGrows, CoinsAreSum DEF Settling, Tracking, Tracked, CoinsTraded
<1>2. CASE UNCHANGED <<orders, coins>>
  <2>1. Traded' = Traded /\ Sent(s)' = Sent(s)
    BY <1>2 DEF Traded, AtExchange, Sent
  <2> QED
    BY <1>1, <1>2, <2>1 DEF CoinsTraded
<1>3. ASSUME NEW o, Trades(o) PROVE CoinsTraded(s)'
  <2>1. /\ o \in Order /\ o.coid \in Coid /\ o.coid.strategy \in Strategies
        /\ Signed(o.coid, o.got) \in Int
    BY <1>3 DEF Trades, Order, Coid, Signed
  <2>2. \A c \in Coid : c # o.coid =>
          AtExchange(c)' = AtExchange(c) /\ Traded'[c] = Traded[c]
    BY <1>3, TradeEffect
  <2>3. IsFiniteSet(Sent(s)) /\ Sent(s) \subseteq Coid
    BY FiniteCoid, FS_Subset DEF Sent
  <2>4. coins'[s] = IF s = o.coid.strategy
                    THEN coins[s] + Signed(o.coid, o.got) ELSE coins[s]
    BY <1>1, <1>3, <2>1 DEF Trades, TypeOK
  <2>5. CASE s # o.coid.strategy
    <3>1. Sent(s)' = Sent(s)
      BY <2>2, <2>5 DEF Sent
    <3>2. \A c \in Sent(s) : Traded[c] = Traded'[c]
      BY <2>2, <2>5 DEF Sent
    <3>3. SumOver(Traded, Sent(s)) = SumOver(Traded', Sent(s))
      BY <2>3, <3>2, SumSame
    <3> QED
      BY <1>1, <2>4, <2>5, <3>1, <3>3 DEF CoinsTraded
  <2>6. CASE s = o.coid.strategy
    <3>1. AtExchange(o.coid) = {}
      BY <1>3, <2>6 DEF Trades, Tracked
    <3>2. AtExchange(o.coid)' # {}
      BY <1>3 DEF Trades, AtExchange
    <3>3. Sent(s)' = Sent(s) \cup {o.coid} /\ o.coid \notin Sent(s)
      BY <2>1, <2>2, <2>6, <3>1, <3>2 DEF Sent
    <3>4. Traded'[o.coid] = Signed(o.coid, o.got)
      BY <1>3, <3>1, TradeEffect
    <3>5. \A c \in Sent(s) : Traded'[c] = Traded[c] /\ Traded[c] \in Int
      <4> SUFFICES ASSUME NEW c \in Sent(s)
                   PROVE  Traded'[c] = Traded[c] /\ Traded[c] \in Int
        OBVIOUS
      <4>1. PICK p : p \in AtExchange(c)
        BY DEF Sent
      <4>2. c \in Coid /\ c \notin lost
        BY <1>1 DEF Sent, Tracked
      <4>3. Traded[c] = Signed(c, p.got)
        BY <4>1, <4>2, OneOrder
      <4>4. p.got \in Nat
        BY <1>1, <4>1, MarketTypes DEF AtExchange
      <4> QED
        BY <2>2, <3>3, <4>2, <4>3, <4>4 DEF Signed
    <3>6. SumOver(Traded', Sent(s) \cup {o.coid})
            = Traded'[o.coid] + SumOver(Traded, Sent(s))
      BY ZenonT(60), <2>1, <2>3, <3>3, <3>4, <3>5, SumGains
    <3>7. coins[s] \in Int
      BY <1>1 DEF TypeOK
    <3> QED
      BY <1>1, <2>1, <2>4, <2>6, <3>3, <3>4, <3>6, <3>7 DEF CoinsTraded
  <2> QED
    BY <2>5, <2>6
<1> QED
  BY <1>2, <1>3, MarketSettles

\* What was traded, written down and is about to be booked stay in agreement.
LEMMA SettledStep ==
  ASSUME Settling, [Next]_vars
  PROVE  Settled'
<1>1. (\A o \in orders : ~o.open /\ o.got > 0)'
  BY TradedAtOnce
<1>2. (\A c \in Coid \ lost :
         status[c] = "placed" => AtExchange(c) # {} /\ booked[c] = Traded[c])'
  BY RowsTraded
<1>3. (pc \in {"record", "setpos"} /\ req.coid \notin lost =>
         Signed(req.coid, req.fill) = Traded[req.coid])'
  BY FillTraded
<1>4. (\A s \in Strategies : Tracked(s) =>
         coins[s] = MapThenSumSet(LAMBDA c : Traded[c], Sent(s)))'
  BY CoinsStep, CoinsAreSum
<1> QED
  BY <1>1, <1>2, <1>3, <1>4 DEF Settled

-----------------------------------------------------------------------------
(* Theorems *)

\* An empty book agrees with an exchange that has nothing of the bot.
THEOREM LedgerInit == Init => Ledger
<1> SUFFICES ASSUME Init PROVE Ledger
  OBVIOUS
<1>1. Tracking /\ Written
  BY TrackingInit DEF Init, Written
<1>2. PositionIsLedger
  <2> SUFFICES ASSUME NEW s \in Strategies
               PROVE  pos[s] + Unwritten(s) = BookedNet(s)
    BY DEF PositionIsLedger
  <2>1. Placed(s) = {}
    BY DEF Init, Placed
  <2>2. BookedNet(s) = 0
    BY <2>1, BookedIsSum, SumEmpty
  <2> QED
    BY <2>2 DEF Init, Unwritten
<1>3. Settled
  <2>1. \A s \in Strategies : Sent(s) = {}
    BY DEF Init, Sent, AtExchange
  <2>2. \A s \in Strategies : CoinsTraded(s)
    BY <2>1, SumEmpty DEF Init, CoinsTraded
  <2>3. \A s \in Strategies : Tracked(s) =>
          coins[s] = MapThenSumSet(LAMBDA c : Traded[c], Sent(s))
    BY <2>2 DEF CoinsTraded, SumOver
  <2> QED
    BY <2>3 DEF Init, Settled
<1> QED
  BY <1>1, <1>2, <1>3 DEF Ledger

\* Every step of the engine, the exchange and the world keeps the ledger.
THEOREM LedgerKept == Ledger /\ [Next]_vars => Ledger'
<1> SUFFICES ASSUME Ledger, [Next]_vars PROVE Ledger'
  OBVIOUS
<1>1. Tracking'
  BY TrackingStep DEF Ledger
<1>2. Written' /\ PositionIsLedger'
  BY WrittenStep, LedgerStep DEF Ledger
<1>3. Immediate /\ ReportsFill => Settled'
  BY SettledStep DEF Ledger, Settling
<1> QED
  BY <1>1, <1>2, <1>3 DEF Ledger

\* Rows, positions, orders and coins agree as Ledger says, in every
\* behaviour of the order path.
THEOREM LedgerCorrect == Spec => []Ledger
BY LedgerInit, LedgerKept, PTL DEF Spec

\* The positions table is the sum of the placed orders: orders, heals and
\* retries book no fill twice and drop none, unless the process died between
\* the two writes of one.
THEOREM PositionIsLedgerCorrect == Spec => []PositionIsLedger
<1>1. Ledger => PositionIsLedger
  BY DEF Ledger
<1> QED
  BY <1>1, LedgerCorrect, PTL

\* With nothing in doubt a strategy holds what its orders traded, when market
\* orders settle at once and the payloads report the fill.
THEOREM BookAgreesCorrect == Spec => []BookAgrees
<1>1. Ledger => BookAgrees
  <2> SUFFICES ASSUME Ledger, Immediate, ReportsFill, NEW s \in Strategies,
                      Tracked(s), ~InDoubt(s)
               PROVE  pos[s] = coins[s]
    BY DEF BookAgrees
  <2>1. Settling /\ TypeOK /\ Standing
    BY DEF Ledger, Settling, Tracking
  <2>2. \A c \in Coid : c.strategy = s => c \notin lost
    BY DEF Tracked
  <2>3. pos[s] = BookedNet(s)
    <3>1. Unwritten(s) = 0 /\ pos[s] \in Int
      BY <2>1 DEF InDoubt, Unwritten, TypeOK
    <3> QED
      BY <3>1 DEF Ledger, PositionIsLedger
  <2>4. Placed(s) = Sent(s)
    <3>1. ASSUME NEW c \in Coid, c.strategy = s, AtExchange(c) # {}
          PROVE  status[c] = "placed"
      <4>1. PICK o \in orders : o.coid = c /\ Stands(o)
        BY <2>1, <3>1
           DEF AtExchange, Settling, Settled, Stands, StatusFill
      <4>2. status[c] \in {"placed", "error"} \/ InHand(c)
        BY <2>1, <2>2, <3>1, <4>1 DEF Standing
      <4> QED
        BY <3>1, <4>2 DEF InDoubt, InHand
    <3>2. ASSUME NEW c \in Coid, c.strategy = s, status[c] = "placed"
          PROVE  AtExchange(c) # {}
      BY <2>1, <2>2, <3>2 DEF Settling, Settled
    <3> QED
      BY <3>1, <3>2 DEF Placed, Sent
  <2>5. SumOver(booked, Placed(s)) = SumOver(Traded, Placed(s))
    <3>1. \A c \in Placed(s) : booked[c] = Traded[c]
      BY <2>1, <2>2 DEF Placed, Settling, Settled
    <3>2. IsFiniteSet(Placed(s))
      BY FiniteCoid, FS_Subset DEF Placed
    <3> QED
      BY <3>1, <3>2, SumSame
  <2>6. coins[s] = SumOver(Traded, Sent(s))
    BY <2>1, CoinsAreSum DEF CoinsTraded, Settling
  <2> QED
    BY <2>3, <2>4, <2>5, <2>6, BookedIsSum
<1> QED
  BY <1>1, LedgerCorrect, PTL


-----------------------------------------------------------------------------
(* The calls to the exchange: ApiClient *)

USE ApiAssumption DEF Least

-----------------------------------------------------------------------------
(* The invariant *)

\* One breaker: it has alerted iff it is not closed; a closed one counts the
\* failures of the streak, which is below the threshold; an open one was
\* opened by the last failure; a half open one waited its cooldown out.
Consistent(b) ==
  /\ wasOpen[b] <=> state[b] # "closed"
  /\ alerts[b] = IF state[b] = "closed" THEN 0 ELSE 1
  /\ state[b] = "closed" => failures[b] = streak[b] /\ streak[b] < Threshold
  /\ state[b] = "open" => age[b] = quiet[b]
  /\ state[b] = "half_open" => quiet[b] >= cooldown[b]

\* A request has passed a breaker that is not open; attempts are counted.
Admitted ==
  /\ stage \in {"acquire", "sent"} => state[cur] # "open"
  /\ stage = "backoff" => try < Attempts

ApiInv == ApiTypeOK /\ (\A b \in Breakers : Consistent(b)) /\ Admitted

\* A breaker that has failed Threshold times in a row is asked for nothing
\* before its current cooldown has passed since the last failure.
Rested ==
  stage \in {"acquire", "sent"} /\ streak[cur] >= Threshold
    => quiet[cur] >= cooldown[cur]

-----------------------------------------------------------------------------

\* The breakers start closed, the bucket full, the thread idle.
THEOREM ApiInvInit == ApiInit => ApiInv
<1> SUFFICES ASSUME ApiInit PROVE ApiInv
  OBVIOUS
<1>1. ApiTypeOK
  <2>1. Threshold \in Nat /\ MaxStreak \in Nat /\ Capacity \in Nat
        /\ 1 \in 1..Attempts /\ Base \in Base..MaxCooldown
        /\ MaxCooldown \in 0..MaxCooldown
    BY DEF MaxStreak
  <2>2. stage = "idle" /\ cur \in Breakers /\ try = 1 /\ tokens = Capacity
    BY DEF ApiInit, Breakers
  <2>3. /\ state = [b \in Breakers |-> "closed"]
        /\ failures = [b \in Breakers |-> 0] /\ cooldown = [b \in Breakers |-> Base]
        /\ age = [b \in Breakers |-> 0] /\ wasOpen = [b \in Breakers |-> FALSE]
        /\ streak = [b \in Breakers |-> 0] /\ quiet = [b \in Breakers |-> MaxCooldown]
        /\ alerts = [b \in Breakers |-> 0]
        /\ up \in [Breakers -> BOOLEAN]
    BY DEF ApiInit
  <2> QED
    BY <2>1, <2>2, <2>3 DEF ApiTypeOK
<1>2. \A b \in Breakers : Consistent(b)
  BY DEF ApiInit, Consistent
<1>3. Admitted
  BY DEF ApiInit, Admitted
<1> QED
  BY <1>1, <1>2, <1>3 DEF ApiInv

\* The three operations of a breaker keep it well-typed and consistent, and
\* leave the other breaker alone.
LEMMA AllowCallOK ==
  ASSUME ApiInv, NEW b \in Breakers, AllowCall(b)
  PROVE  /\ state' \in [Breakers -> {"closed", "open", "half_open"}]
         /\ state'[b] # "open"
         /\ \A c \in Breakers : Consistent(c)'
<1>1. /\ state' \in [Breakers -> {"closed", "open", "half_open"}]
      /\ state'[b] # "open"
      /\ \A c \in Breakers : state'[c] = IF c = b /\ state[b] = "open"
                                         THEN "half_open" ELSE state[c]
  BY DEF AllowCall, Allowed, ApiInv, ApiTypeOK
<1>2. \A c \in Breakers : Consistent(c)'
  BY <1>1 DEF AllowCall, Allowed, ApiInv, ApiTypeOK, Consistent
<1> QED
  BY <1>1, <1>2

\* A success closes the breaker and, if it was open, pairs its alert.
LEMMA RecordSuccessOK ==
  ASSUME ApiInv, NEW b \in Breakers, RecordSuccess(b),
         UNCHANGED <<tokens, cur, try, up>>, stage' = "idle"
  PROVE  ApiInv'
<1>1. ApiTypeOK'
  BY DEF RecordSuccess, ApiInv, ApiTypeOK, MaxStreak
<1>2. \A c \in Breakers : Consistent(c)'
  BY DEF RecordSuccess, ApiInv, ApiTypeOK, Consistent
<1> QED
  BY <1>1, <1>2 DEF ApiInv, Admitted

\* A counted failure opens the breaker at the threshold or at a failed
\* probe, with one alert at most.
LEMMA RecordFailureOK ==
  ASSUME ApiInv, NEW b \in Breakers, RecordFailure(b), state[b] # "open",
         UNCHANGED <<tokens, cur, try, up>>,
         stage' = "idle" \/ (stage' = "backoff" /\ try < Attempts)
  PROVE  ApiInv'
<1>1. ApiTypeOK'
  BY DEF RecordFailure, Reopens, Opens, Doubled, ApiInv, ApiTypeOK, MaxStreak
<1>2. \A c \in Breakers : Consistent(c)'
  <2> SUFFICES ASSUME NEW c \in Breakers PROVE Consistent(c)'
    OBVIOUS
  <2>1. Consistent(c) /\ Consistent(b)
    BY DEF ApiInv
  <2>2. CASE c # b
    BY <2>1, <2>2 DEF RecordFailure, ApiInv, ApiTypeOK, Consistent
  <2>3. CASE c = b
    <3>1. /\ state'[b] = IF Reopens(b) \/ Opens(b) THEN "open" ELSE state[b]
          /\ age'[b] = IF Reopens(b) \/ Opens(b) THEN 0 ELSE age[b]
          /\ wasOpen'[b] = (wasOpen[b] \/ Opens(b))
          /\ alerts'[b] = IF Opens(b) THEN alerts[b] + 1 ELSE alerts[b]
          /\ failures'[b] = Least(Threshold, failures[b] + 1)
          /\ streak'[b] = Least(MaxStreak, streak[b] + 1)
          /\ quiet'[b] = 0
      BY DEF RecordFailure, ApiInv, ApiTypeOK
    <3>2. state[b] \in {"closed", "half_open"}
      BY DEF ApiInv, ApiTypeOK
    <3>3. state'[b] \in {"closed", "open"} /\ (state'[b] = "closed" <=> ~Opens(b) /\ ~Reopens(b))
      BY <3>1, <3>2 DEF Opens, Reopens
    <3>4. wasOpen'[b] <=> state'[b] # "closed"
      BY <2>1, <3>1, <3>2, <3>3 DEF Consistent, Opens, Reopens
    <3>5. alerts'[b] = IF state'[b] = "closed" THEN 0 ELSE 1
      BY <2>1, <3>1, <3>2 DEF Consistent, Opens, Reopens
    <3>6. state'[b] = "closed" => failures'[b] = streak'[b] /\ streak'[b] < Threshold
      BY <2>1, <3>1, <3>2 DEF Consistent, Opens, Reopens, MaxStreak, ApiInv, ApiTypeOK
    <3>7. state'[b] = "open" => age'[b] = quiet'[b]
      BY <3>1, <3>2 DEF Opens, Reopens
    <3> QED
      BY <2>3, <3>3, <3>4, <3>5, <3>6, <3>7 DEF Consistent
  <2> QED
    BY <2>2, <2>3
<1> QED
  BY <1>1, <1>2 DEF ApiInv, Admitted

\* Every step of the calls keeps the invariant, one case per action.
THEOREM ApiInvStep == ApiInv /\ [ApiNext]_apiVars => ApiInv'
<1> SUFFICES ASSUME ApiInv, [ApiNext]_apiVars PROVE ApiInv'
  OBVIOUS
<1>1. CASE Admit
  <2>1. cur \in Breakers
    BY DEF ApiInv, ApiTypeOK
  <2>2. ApiTypeOK'
    BY <1>1, <2>1, AllowCallOK DEF Admit, AllowCall, ApiInv, ApiTypeOK
  <2>3. Admitted'
    BY <1>1, <2>1, AllowCallOK DEF Admit, Admitted
  <2> QED
    BY <1>1, <2>1, <2>2, <2>3, AllowCallOK DEF Admit, ApiInv
<1>2. CASE Answered
  BY <1>2, RecordSuccessOK DEF Answered, ApiInv, ApiTypeOK
<1>3. CASE Transient
  <2>1. cur \in Breakers /\ state[cur] # "open"
    BY <1>3 DEF Transient, ApiInv, ApiTypeOK, Admitted
  <2> QED
    BY <1>3, <2>1, RecordFailureOK DEF Transient
<1>4. CASE FailFast \/ Acquire \/ Escapes \/ Retry
  <2>1. ApiTypeOK'
    <3>1. UNCHANGED <<breaker, cur, up, ghosts>>
      BY <1>4 DEF FailFast, Acquire, Escapes, Retry
    <3>2. tokens' \in 0..Capacity
      BY <1>4 DEF FailFast, Acquire, Escapes, Retry, ApiInv, ApiTypeOK
    <3>3. try' \in 1..Attempts
      BY <1>4 DEF FailFast, Acquire, Escapes, Retry, ApiInv, ApiTypeOK, Admitted
    <3>4. stage' \in {"idle", "sent", "asking"}
      BY <1>4 DEF FailFast, Acquire, Escapes, Retry
    <3> QED
      BY <3>1, <3>2, <3>3, <3>4 DEF ApiInv, ApiTypeOK, breaker, ghosts
  <2>2. \A b \in Breakers : Consistent(b)'
    BY <1>4 DEF FailFast, Acquire, Escapes, Retry, ApiInv, Consistent, breaker, ghosts
  <2>3. Admitted'
    BY <1>4 DEF FailFast, Acquire, Escapes, Retry, ApiInv, Admitted, breaker
  <2> QED
    BY <2>1, <2>2, <2>3 DEF ApiInv
<1>5. ASSUME NEW b \in Breakers, Call(b) \/ Turn(b) PROVE ApiInv'
  <2>1. ApiTypeOK'
    <3>1. UNCHANGED <<breaker, tokens, ghosts>>
      BY <1>5 DEF Call, Turn
    <3>2. up' \in [Breakers -> BOOLEAN]
      <4>1. CASE Call(b)
        BY <4>1 DEF Call, ApiInv, ApiTypeOK
      <4>2. CASE Turn(b)
        <5>1. \A c \in Breakers : up[c] \in BOOLEAN
          BY DEF ApiInv, ApiTypeOK
        <5>2. up' = [c \in Breakers |-> IF c = b THEN ~up[b] ELSE up[c]]
          BY <4>2 DEF Turn, ApiInv, ApiTypeOK
        <5> QED
          BY <5>1, <5>2
      <4> QED
        BY <1>5, <4>1, <4>2
    <3>3. /\ stage' \in {"idle", "asking", "acquire", "sent", "backoff"}
          /\ cur' \in Breakers /\ try' \in 1..Attempts
      BY <1>5 DEF Call, Turn, ApiInv, ApiTypeOK, thread
    <3> QED
      BY <3>1, <3>2, <3>3 DEF ApiInv, ApiTypeOK, breaker, ghosts
  <2>2. \A c \in Breakers : Consistent(c)'
    BY <1>5 DEF Call, Turn, ApiInv, Consistent, breaker, ghosts
  <2>3. Admitted'
    BY <1>5 DEF Call, Turn, ApiInv, Admitted, breaker, thread
  <2> QED
    BY <2>1, <2>2, <2>3 DEF ApiInv
<1>6. CASE Tick
  <2>1. ApiTypeOK'
    BY <1>6 DEF Tick, ApiInv, ApiTypeOK, thread
  <2>2. \A b \in Breakers : Consistent(b)'
    BY <1>6 DEF Tick, ApiInv, ApiTypeOK, Consistent
  <2>3. Admitted'
    BY <1>6 DEF Tick, ApiInv, Admitted, thread
  <2> QED
    BY <2>1, <2>2, <2>3 DEF ApiInv
<1>7. CASE UNCHANGED apiVars
  BY <1>7 DEF apiVars, ApiInv, ApiTypeOK, Consistent, Admitted
<1> QED
  BY <1>1, <1>2, <1>3, <1>4, <1>5, <1>6, <1>7 DEF ApiNext, Step

\* The breakers and the thread keep their types and the consistency above.
THEOREM ApiInvCorrect == ApiSpec => []ApiInv
BY ApiInvInit, ApiInvStep, PTL DEF ApiSpec

\* Breakers, bucket and thread stay well typed: the cooldown never leaves
\* Base..MaxCooldown however often it is doubled.
THEOREM ApiTypeCorrect == ApiSpec => []ApiTypeOK
<1>1. ApiInv => ApiTypeOK
  BY DEF ApiInv
<1> QED
  BY <1>1, ApiInvCorrect, PTL

\* One outage is one "open" alert, taken back by one "closed" alert.
THEOREM AlertedOnceCorrect == ApiSpec => []AlertedOnce
<1>1. ApiInv => AlertedOnce
  BY DEF ApiInv, Consistent, AlertedOnce
<1> QED
  BY <1>1, ApiInvCorrect, PTL

\* No request, retry or new call, reaches an exchange whose circuit tripped
\* before the cooldown in force has passed.
THEOREM RestedCorrect == ApiSpec => []Rested
<1>1. ApiInv => Rested
  BY DEF ApiInv, ApiTypeOK, Consistent, Admitted, Rested
<1> QED
  BY <1>1, ApiInvCorrect, PTL

-----------------------------------------------------------------------------
(* Powers of two *)

\* The powers up to n.
Powers(n, g) == g = [i \in 0..n |-> IF i = 0 THEN 1 ELSE 2 * g[i - 1]]

\* Two lists of powers agree as far as both go.
LEMMA PowersAgree ==
  ASSUME NEW m \in Nat, NEW n \in Nat, NEW g, NEW h, Powers(m, g), Powers(n, h),
         NEW i \in Nat, i <= m, i <= n
  PROVE  g[i] = h[i]
<1> DEFINE T == {j \in 0..i : g[j] # h[j]}
<1> SUFFICES ASSUME T # {} PROVE FALSE
  OBVIOUS
<1>1. PICK j \in T : \A k \in T : j <= k
  <2> HIDE DEF T
  <2>1. T \subseteq Nat
    BY DEF T
  <2> QED
    BY <2>1, MinimalNat
<1>2. /\ g[j] = IF j = 0 THEN 1 ELSE 2 * g[j - 1]
      /\ h[j] = IF j = 0 THEN 1 ELSE 2 * h[j - 1]
  BY DEF Powers
<1>3. CASE j = 0
  BY <1>2, <1>3
<1>4. CASE j # 0
  <2>1. j - 1 \in 0..i /\ j - 1 \notin T
    BY <1>1, <1>4
  <2> QED
    BY <1>2, <1>4, <2>1
<1> QED
  BY <1>3, <1>4

\* There is a list of any length.
LEMMA PowersExist ==
  ASSUME NEW n \in Nat
  PROVE  \E g : Powers(n, g)
<1> DEFINE T == {m \in Nat : ~ \E g : Powers(m, g)}
<1> SUFFICES ASSUME T # {} PROVE FALSE
  OBVIOUS
<1>1. PICK m \in T : \A k \in T : m <= k
  <2> HIDE DEF T
  <2>1. T \subseteq Nat
    BY DEF T
  <2> QED
    BY <2>1, MinimalNat
<1>2. CASE m = 0
  <2>1. Powers(0, [i \in 0..0 |-> 1])
    BY DEF Powers
  <2> QED
    BY <1>2, <2>1
<1>3. CASE m # 0
  <2>1. m - 1 \in Nat /\ m - 1 \notin T
    BY <1>1, <1>3
  <2>2. PICK h : Powers(m - 1, h)
    BY <2>1
  <2> DEFINE g == [i \in 0..m |-> IF i = m THEN 2 * h[m - 1] ELSE h[i]]
  <2>3. \A i \in 0..m : g[i] = IF i = 0 THEN 1 ELSE 2 * g[i - 1]
    <3> SUFFICES ASSUME NEW i \in 0..m
                 PROVE  g[i] = IF i = 0 THEN 1 ELSE 2 * g[i - 1]
      OBVIOUS
    <3>1. CASE i = m
      BY <1>3, <3>1
    <3>2. CASE i # m
      <4>1. i \in 0..(m - 1)
        BY <3>2
      <4>2. h[i] = IF i = 0 THEN 1 ELSE 2 * h[i - 1]
        BY <2>2, <4>1 DEF Powers
      <4> QED
        BY <3>2, <4>1, <4>2
    <3> QED
      BY <3>1, <3>2
  <2>4. Powers(m, g)
    BY <2>3 DEF Powers
  <2> QED
    BY <2>4
<1> QED
  BY <1>2, <1>3

\* PowerOfTwo is what its definition says.
LEMMA PowerStep ==
  /\ PowerOfTwo[0] = 1
  /\ \A k \in Nat : PowerOfTwo[k + 1] = 2 * PowerOfTwo[k]
<1> DEFINE list(k) == CHOOSE g : Powers(k, g)
           power == [k \in Nat |-> list(k)[k]]
<1>1. \A k \in Nat : Powers(k, list(k))
  BY PowersExist
<1>2. ASSUME NEW k \in Nat
      PROVE  power[k] = IF k = 0 THEN 1 ELSE 2 * power[k - 1]
  <2> HIDE DEF list
  <2>1. list(k)[k] = IF k = 0 THEN 1 ELSE 2 * list(k)[k - 1]
    <3>1. Powers(k, list(k)) /\ k \in 0..k
      BY <1>1
    <3> QED
      BY <3>1 DEF Powers
  <2>2. CASE k = 0
    BY <2>1, <2>2
  <2>3. CASE k # 0
    <3>1. k - 1 \in Nat
      BY <2>3
    <3>2. list(k)[k - 1] = list(k - 1)[k - 1]
      BY <1>1, <3>1, PowersAgree
    <3> QED
      BY <2>1, <2>3, <3>1, <3>2
  <2> QED
    BY <2>2, <2>3
<1>3. power = [k \in Nat |-> IF k = 0 THEN 1 ELSE 2 * power[k - 1]]
  <2>1. power = [k \in Nat |-> power[k]]
    OBVIOUS
  <2> HIDE DEF power
  <2> QED
    BY <1>2, <2>1, Zenon
<1> HIDE DEF power
<1>4. PowerOfTwo = [k \in Nat |-> IF k = 0 THEN 1 ELSE 2 * PowerOfTwo[k - 1]]
  BY <1>3 DEF PowerOfTwo
<1> QED
  BY <1>4

\* The k-th power of two is a natural number above k.
LEMMA PowerGrows ==
  ASSUME NEW k \in Nat
  PROVE  PowerOfTwo[k] \in Nat /\ PowerOfTwo[k] > k
<1> DEFINE T == {m \in Nat : ~(PowerOfTwo[m] \in Nat /\ PowerOfTwo[m] > m)}
<1> SUFFICES ASSUME T # {} PROVE FALSE
  OBVIOUS
<1>1. PICK m \in T : \A i \in T : m <= i
  <2> HIDE DEF T
  <2>1. T \subseteq Nat
    BY DEF T
  <2> QED
    BY <2>1, MinimalNat
<1>2. m # 0
  BY PowerStep
<1>3. m - 1 \in Nat /\ m - 1 \notin T /\ m = (m - 1) + 1
  BY <1>1, <1>2
<1>4. PowerOfTwo[m] = 2 * PowerOfTwo[m - 1]
  BY <1>3, PowerStep
<1> QED
  BY <1>3, <1>4

-----------------------------------------------------------------------------
(* The pause a failing exchange gets *)

\* What the pause comes to: the base at the threshold, doubled and capped by
\* every further failure, at its cap where the streak is no longer counted.
LEMMA PauseValues ==
  /\ \A n \in Nat : n < Threshold => Pause(n) = 0
  /\ Pause(Threshold) = Base
  /\ \A n \in Nat : n >= Threshold =>
       Pause(n) \in Nat /\ Pause(n + 1) = Least(2 * Pause(n), MaxCooldown)
  /\ Pause(MaxStreak) = MaxCooldown
<1>1. \A n \in Nat : n < Threshold => Pause(n) = 0
  BY DEF Pause
<1>2. Pause(Threshold) = Base
  <2>1. Threshold - Threshold = 0 /\ Base * 1 = Base
    OBVIOUS
  <2> QED
    BY <2>1, PowerStep DEF Pause
<1>3. ASSUME NEW n \in Nat, n >= Threshold
      PROVE  Pause(n) \in Nat /\ Pause(n + 1) = Least(2 * Pause(n), MaxCooldown)
  <2> DEFINE k == n - Threshold
             p == PowerOfTwo[k]
  <2>1. k \in Nat /\ (n + 1) - Threshold = k + 1 /\ ~(n + 1 < Threshold)
    BY <1>3
  <2>2. p \in Nat /\ PowerOfTwo[k + 1] = 2 * p
    <3> HIDE DEF k
    <3> QED
      BY <2>1, PowerStep, PowerGrows
  <2>3. Pause(n) = Least(MaxCooldown, Base * p)
    BY <1>3 DEF Pause
  <2>4. Pause(n + 1) = Least(MaxCooldown, Base * (2 * p))
    BY <2>1, <2>2 DEF Pause
  <2> HIDE DEF p
  <2>5. Base * (2 * p) = 2 * (Base * p) /\ Base * p \in Nat
    BY <2>2
  <2> QED
    BY <2>3, <2>4, <2>5
<1>4. Pause(MaxStreak) = MaxCooldown
  <2> DEFINE p == PowerOfTwo[MaxCooldown]
  <2>1. p \in Nat /\ p > MaxCooldown
    BY PowerGrows
  <2>2. Pause(MaxStreak) = Least(MaxCooldown, Base * p)
    <3>1. MaxStreak - Threshold = MaxCooldown /\ ~(MaxStreak < Threshold)
      BY DEF MaxStreak
    <3> QED
      BY <3>1 DEF Pause
  <2> HIDE DEF p
  <2>3. Base * p \in Nat /\ Base * p >= p
    BY <2>1
  <2> QED
    BY <2>1, <2>2, <2>3
<1> QED
  BY <1>1, <1>2, <1>3, <1>4

\* A circuit that is not closed waits the pause its streak is due.
Due(b) ==
  state[b] # "closed" =>
    streak[b] >= Threshold /\ cooldown[b] = Pause(streak[b])

\* The streak and the cooldown move together, in every step of every call.
LEMMA DueStep ==
  ASSUME ApiInv, \A b \in Breakers : Due(b), [ApiNext]_apiVars
  PROVE  (\A b \in Breakers : Due(b))'
<1> SUFFICES ASSUME NEW b \in Breakers PROVE Due(b)'
  OBVIOUS
<1>1. CASE Admit
  <2>1. cur \in Breakers /\ UNCHANGED <<streak, cooldown>>
    BY <1>1 DEF Admit, AllowCall, ApiInv, ApiTypeOK
  <2>2. state'[b] # "closed" => state[b] # "closed"
    BY <1>1, <2>1 DEF Admit, AllowCall, ApiInv, ApiTypeOK
  <2> QED
    BY <2>1, <2>2 DEF Due, Pause
<1>2. CASE Answered
  <2>1. cur \in Breakers
    BY DEF ApiInv, ApiTypeOK
  <2>2. CASE b = cur
    BY <1>2, <2>1, <2>2 DEF Answered, RecordSuccess, ApiInv, ApiTypeOK, Due
  <2>3. CASE b # cur
    BY <1>2, <2>1, <2>3 DEF Answered, RecordSuccess, ApiInv, ApiTypeOK, Due, Pause
  <2> QED
    BY <2>2, <2>3
<1>3. CASE Transient
  <2>1. /\ cur \in Breakers /\ RecordFailure(cur)
        /\ state[cur] \in {"closed", "half_open"}
    BY <1>3 DEF Transient, ApiInv, ApiTypeOK, Admitted
  <2>2. CASE b # cur
    BY <2>1, <2>2 DEF RecordFailure, ApiInv, ApiTypeOK, Due, Pause
  <2>3. CASE b = cur
    <3>1. /\ streak'[b] = Least(MaxStreak, streak[b] + 1)
          /\ cooldown'[b] = IF Reopens(b) THEN Doubled(b)
                            ELSE IF Opens(b) THEN Base ELSE cooldown[b]
          /\ state'[b] = IF Reopens(b) \/ Opens(b) THEN "open" ELSE state[b]
          /\ streak[b] \in 0..MaxStreak /\ MaxStreak \in Nat
          /\ Threshold < MaxStreak
      BY <2>1, <2>3 DEF RecordFailure, ApiInv, ApiTypeOK, MaxStreak
    <3>2. CASE Reopens(b)
      <4>1. /\ streak[b] >= Threshold
            /\ cooldown'[b] = Least(2 * Pause(streak[b]), MaxCooldown)
        BY <3>1, <3>2 DEF Reopens, Doubled, Due
      <4>2. CASE streak[b] < MaxStreak
        <5>1. streak'[b] = streak[b] + 1
          BY <3>1, <4>2
        <5> QED
          BY <3>1, <4>1, <5>1, PauseValues DEF Due, Pause
      <4>3. CASE streak[b] = MaxStreak
        <5>1. streak'[b] = MaxStreak /\ Pause(streak[b]) = MaxCooldown
          BY <3>1, <4>3, PauseValues
        <5>2. cooldown'[b] = MaxCooldown
          BY <4>1, <5>1
        <5>3. Due(b)' <=> (state'[b] # "closed" =>
                 streak'[b] >= Threshold /\ cooldown'[b] = Pause(MaxStreak))
          BY <5>1 DEF Due, Pause
        <5> QED
          BY <3>1, <5>1, <5>2, <5>3, PauseValues
      <4> QED
        BY <3>1, <4>2, <4>3
    <3>3. CASE ~Reopens(b) /\ Opens(b)
      <4>1. streak'[b] = Threshold /\ cooldown'[b] = Base
        BY <3>1, <3>3 DEF Opens, ApiInv, Consistent
      <4>2. Due(b)' <=> (state'[b] # "closed" =>
               streak'[b] >= Threshold /\ cooldown'[b] = Pause(Threshold))
        BY <4>1 DEF Due, Pause
      <4> QED
        BY <4>1, <4>2, PauseValues
    <3>4. CASE ~Reopens(b) /\ ~Opens(b)
      BY <2>1, <2>3, <3>1, <3>4 DEF Reopens, Due
    <3> QED
      BY <3>2, <3>3, <3>4
  <2> QED
    BY <2>2, <2>3
<1>4. CASE \/ FailFast \/ Acquire \/ Escapes \/ Retry \/ Tick
           \/ UNCHANGED apiVars \/ \E c \in Breakers : Call(c) \/ Turn(c)
  <2>1. UNCHANGED <<state, streak, cooldown>>
    BY <1>4 DEF FailFast, Acquire, Escapes, Retry, Tick, Call, Turn, apiVars,
                breaker, ghosts
  <2> QED
    BY <2>1 DEF Due, Pause
<1> QED
  BY <1>1, <1>2, <1>3, <1>4 DEF ApiNext, Step

\* A struggling exchange is left alone for as long as its failures in a row
\* call for: no request goes to it before that pause is over.
THEOREM PacedCorrect == ApiSpec => []Paced
<1> DEFINE AllDue == \A b \in Breakers : Due(b)
<1>1. ApiInit => AllDue
  BY DEF ApiInit, Due
<1>2. ApiInv /\ AllDue /\ [ApiNext]_apiVars => AllDue'
  BY DueStep
<1>3. ApiInv /\ AllDue => Paced
  <2> SUFFICES ASSUME ApiInv, AllDue, stage \in {"acquire", "sent"}
               PROVE  quiet[cur] >= Pause(streak[cur])
    BY DEF Paced
  <2>1. /\ cur \in Breakers /\ state[cur] \in {"closed", "half_open"}
        /\ quiet[cur] \in Nat /\ streak[cur] \in Nat /\ Consistent(cur)
        /\ Due(cur)
    BY DEF ApiInv, ApiTypeOK, Admitted, MaxStreak
  <2>2. CASE state[cur] = "closed"
    <3>1. Pause(streak[cur]) = 0
      BY <2>1, <2>2, PauseValues DEF Consistent
    <3> QED
      BY <2>1, <3>1
  <2>3. CASE state[cur] = "half_open"
    BY <2>1, <2>3 DEF Consistent, Due
  <2> QED
    BY <2>1, <2>2, <2>3
<1> QED
  BY <1>1, <1>2, <1>3, ApiInvCorrect, PTL DEF ApiSpec
=============================================================================
