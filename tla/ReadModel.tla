----------------------------- MODULE ReadModel -----------------------------
(***************************************************************************)
(* What the dashboard, the strategies page and the tax report compute from *)
(* the tables the supervisor publishes (lib/queries.ts, the analytics and  *)
(* tax read models; app/dashboard/page.tsx; app/api/tax-report).  Trades   *)
(* are only ever appended, while days pass and the user may move to        *)
(* another exchange with another quote currency.  Every query is an        *)
(* operator over the table; the properties relate the queries to each      *)
(* other and to the definitions a reader would give.                       *)
(***************************************************************************)
EXTENDS Integers, Sequences, FiniteSetsExt

CONSTANTS Legs,        \* what a published trade can be, its time and venue apart
          BookVenues,  \* exchanges; each has a quote currency of its own
          YEAR, APRIL, \* days in a year, and the day the fiscal year starts
          MaxTradeRows, MaxToday   \* bounds

VARIABLES trades,   \* rows of trades, in the order they were recorded
          today,    \* the day
          linked    \* the exchange whose keys are linked

readVars == <<trades, today, linked>>

-----------------------------------------------------------------------------
(* Tables and filters.                                                     *)

Total(f, S) == MapThenSumSet(LAMBDA i : f[i], S)
pnlOf       == [i \in DOMAIN trades |-> trades[i].pnl]

(* Mutant: every row counts toward money.                                  *)
AnyStatus == DOMAIN trades
Placed    == {"placed", "dry_run"}
EXECUTED  == {i \in DOMAIN trades : trades[i].status \in Placed}

Won(S)  == {i \in S : trades[i].side = "sell" /\ trades[i].pnl > 0}
Lost(S) == {i \in S : trades[i].side = "sell" /\ trades[i].pnl < 0}
Live(S) == {i \in S : ~trades[i].dry}

-----------------------------------------------------------------------------
(* The analytics queries.                                                  *)

tradeStats ==
  LET S == EXECUTED
  IN [total |-> Cardinality(S), wins |-> Cardinality(Won(S)),
      losses |-> Cardinality(Lost(S)), pnl |-> Total(pnlOf, S),
      livePnl |-> Total(pnlOf, Live(S)), paperPnl |-> Total(pnlOf, S \ Live(S)),
      liveTrades |-> Cardinality(Live(S)), paperTrades |-> Cardinality(S \ Live(S))]

KeyOf(i) == <<trades[i].strategy, trades[i].venue>>

(* Per strategy and market; here a venue stands for its markets.           *)
strategyBreakdown ==
  [k \in {KeyOf(i) : i \in EXECUTED} |->
     LET S == {i \in EXECUTED : KeyOf(i) = k}
     IN [trades |-> Cardinality(S), pnl |-> Total(pnlOf, S),
         wins |-> Cardinality(Won(S)), losses |-> Cardinality(Lost(S))]]

TradeDays == {trades[i].day : i \in EXECUTED}

(* The latest n days that have trades.                                     *)
dailyPnl(n) ==
  LET shown == {d \in TradeDays : Cardinality({e \in TradeDays : e > d}) < n}
  IN [d \in shown |->
        LET S == {i \in EXECUTED : trades[i].day = d}
        IN [pnl |-> Total(pnlOf, S), trades |-> Cardinality(S)]]

-----------------------------------------------------------------------------
(* The tax read model.                                                     *)

(* Mutant: the year turns a day late.                                      *)
YearAfterApril(d) == IF d % YEAR > APRIL THEN d \div YEAR ELSE d \div YEAR - 1
FYof(d) == IF d % YEAR >= APRIL THEN d \div YEAR ELSE d \div YEAR - 1

Bounds(y)        == [start |-> y * YEAR + APRIL, end |-> (y + 1) * YEAR + APRIL]
financialYear(d) == Bounds(FYof(d))

Disposals(fy) == {i \in DOMAIN trades :
                    /\ ~trades[i].dry /\ trades[i].status = "placed"
                    /\ trades[i].side = "sell"
                    /\ trades[i].day >= fy.start /\ trades[i].day < fy.end}

taxSummary(fy) ==
  LET S == Disposals(fy)
  IN [sells |-> Cardinality(S), gains |-> Total(pnlOf, Won(S)),
      losses |-> Total(pnlOf, Lost(S))]

(* The report of a year that was asked for; it must be one the route takes.*)
Accepted(y)  == y <= today \div YEAR + 1
taxReport(y) == Disposals(Bounds(y))

-----------------------------------------------------------------------------
(* What the headline says: the sum, in the currency of the linked venue.   *)
hasLive  == tradeStats.liveTrades > 0
Headline == [value |-> IF hasLive THEN tradeStats.livePnl ELSE tradeStats.paperPnl,
             quote |-> linked]

-----------------------------------------------------------------------------
(* The supervisor's publisher, the clock and the user.                     *)

publish(leg) ==
  /\ Len(trades) < MaxTradeRows
  /\ trades' = Append(trades, [strategy |-> leg.strategy, side |-> leg.side,
                               status |-> leg.status, dry |-> leg.dry, pnl |-> leg.pnl,
                               day |-> today, venue |-> linked])
  /\ UNCHANGED <<today, linked>>

DayPasses ==
  /\ today < MaxToday
  /\ today' = today + 1
  /\ UNCHANGED <<trades, linked>>

switchExchange(v) ==
  /\ v # linked
  /\ linked' = v
  /\ UNCHANGED <<trades, today>>

ReadInit == trades = <<>> /\ today = 0 /\ linked \in BookVenues

ReadNext ==
  \/ \E leg \in Legs : publish(leg)
  \/ DayPasses
  \/ \E v \in BookVenues : switchExchange(v)

ReadSpec == ReadInit /\ [][ReadNext]_readVars

-----------------------------------------------------------------------------
ReadTypeOK ==
  /\ \A i \in DOMAIN trades : trades[i].day \in 0 .. today
  /\ today \in 0 .. MaxToday /\ linked \in BookVenues

(* Every view adds up to the same money: the breakdown by strategy, the    *)
(* days, and the split into live and paper all sum to the totals.          *)
ViewsAgree ==
  LET b == strategyBreakdown  d == dailyPnl(MaxToday + 1)  s == tradeStats
      ByKey(field) == Total([k \in DOMAIN b |-> b[k][field]], DOMAIN b)
      ByDay(field) == Total([k \in DOMAIN d |-> d[k][field]], DOMAIN d)
  IN /\ s.pnl = ByKey("pnl") /\ s.pnl = ByDay("pnl")
     /\ s.pnl = s.livePnl + s.paperPnl
     /\ s.total = ByKey("trades") /\ s.total = ByDay("trades")
     /\ s.wins = ByKey("wins") /\ s.losses = ByKey("losses")
     /\ s.pnl = Total(pnlOf, {i \in DOMAIN trades : trades[i].status \in Placed})

(* Each live sale is in the report of one fiscal year, a sale made today   *)
(* in the year the dashboard shows, and the summary is the report's sum.   *)
EachSaleTaxedOnce ==
  LET years == FYof(0) .. FYof(MaxToday)
  IN /\ \A i \in DOMAIN trades :
          trades[i].side = "sell" /\ trades[i].status = "placed" /\ ~trades[i].dry =>
            /\ Cardinality({y \in years : i \in taxReport(y)}) = 1
            /\ trades[i].day = today => i \in Disposals(financialYear(today))
     /\ \A y \in years :
          LET t == taxSummary(Bounds(y))
          IN t.gains + t.losses = Total(pnlOf, taxReport(y)) /\ Accepted(FYof(today))

(* "Book figures are in the linked exchange's quote currency"              *)
(* (app/dashboard/page.tsx:70): no amount of another currency is in them.  *)
OneCurrency ==
  \A i \in EXECUTED : trades[i].dry = ~hasLive => trades[i].venue = Headline.quote
=============================================================================
