------------------------------ MODULE PriceFeed ------------------------------
(***************************************************************************)
(* The live price chart (components/PriceChart.tsx) and the trade stream   *)
(* it draws from (components/chart/useBinanceTradeStream.ts).  Choosing a  *)
(* market or a range tears one effect down and starts the next; answers    *)
(* asked for by an effect that is gone may still arrive.  The stream is a  *)
(* socket that is opened again after a pause whenever it closes.           *)
(*                                                                         *)
(* A price is kept as the market it is a price of; a chart as the market   *)
(* and range it was last filled with, and the markets whose trades were    *)
(* put into it since.  React runs the clean-ups and the effects of one     *)
(* choice in one step (it is a discrete event), the hook's effect first.   *)
(* A socket that was closed by the hook delivers nothing more (external).  *)
(***************************************************************************)
EXTENDS Integers, FiniteSets

CONSTANTS Markets, FirstMarket,   \* one entry per coin: no two stream the same symbol
          Windows, FirstWindow,   \* the ranges drawn as candles
          LIVE,                   \* the range drawn as a tape
          NoPrice,                \* priceRef.current = null
          MaxChoices, MaxFetches, MaxDrops   \* bounds

ASSUME FeedAssumption ==
  /\ FirstMarket \in Markets /\ NoPrice \notin Markets
  /\ FirstWindow \in Windows /\ LIVE \notin Windows
  /\ {MaxChoices, MaxFetches, MaxDrops} \subseteq Nat

VARIABLES pair, range,    \* the selection
          effect,         \* number of the effect that is alive
          status, degraded, haveData,
          candles, tape,  \* what each is filled with
          price,          \* priceRef.current
          asked,          \* fetches under way
          sockets,        \* open sockets by market
          timers,         \* reconnects that are due
          attempt, stale, quiet,   \* exponent of the pause; flag; no message for STALE_MS
          choices, fetches, drops  \* bounds: choices, fetches, sockets lost

selection  == <<pair, range, effect, choices>>
streamVars == <<sockets, timers, attempt, stale, quiet, drops>>
chartVars  == <<status, degraded, haveData, candles, tape>>
feedVars   == <<selection, chartVars, price, asked, fetches, streamVars>>

-----------------------------------------------------------------------------
(* What is drawn.                                                          *)

live == range = LIVE
Filling(m, r) == [market |-> m, range |-> r, traded |-> {}]
Empty == Filling(NoPrice, LIVE)

Drawn       == IF live THEN tape ELSE candles
ShownChart  == status # "error" /\ Drawn # Empty
ShownPrice  == status = "ok" /\ Drawn # Empty

-----------------------------------------------------------------------------
(* The stream.                                                             *)

Longer == IF attempt < 6 THEN attempt + 1 ELSE 6

(* Mutant: a socket that fails is reported by onerror and by onclose.      *)
ScheduleTwice(n) == n + 2
scheduleRetry(n) == n + 1

(* The socket of a market, or a retry when the constructor throws.  Every  *)
(* market has a symbol of the exchange: for one without, the hook does     *)
(* nothing (useBinanceTradeStream.ts:23).                                  *)
connect(open, due) ==
  \/ sockets' = [open EXCEPT ![pair'] = @ + 1] /\ timers' = due /\ UNCHANGED drops
  \/ /\ drops < MaxDrops /\ drops' = drops + 1
     /\ sockets' = open /\ timers' = scheduleRetry(due)

Reconnect ==
  /\ timers > 0
  /\ UNCHANGED <<selection, chartVars, price, asked, fetches, stale, quiet>>
  /\ connect(sockets, timers - 1)
  /\ attempt' = IF drops' = drops THEN attempt ELSE Longer

onclose ==
  /\ sockets[pair] > 0 /\ drops < MaxDrops
  /\ drops' = drops + 1
  /\ sockets' = [sockets EXCEPT ![pair] = @ - 1]
  /\ timers' = scheduleRetry(timers)
  /\ attempt' = Longer
  /\ UNCHANGED <<selection, chartVars, price, asked, fetches, stale, quiet>>

onmessage(m) ==
  /\ sockets[m] > 0
  /\ price' = m
  /\ IF m = pair THEN attempt' = 0 /\ quiet' = FALSE ELSE UNCHANGED <<attempt, quiet>>
  /\ UNCHANGED <<selection, chartVars, asked, fetches, sockets, timers, stale, drops>>

TimePasses ==
  /\ ~quiet /\ quiet' = TRUE
  /\ UNCHANGED <<selection, chartVars, price, asked, fetches, sockets, timers, attempt, stale, drops>>

CheckStale ==
  /\ stale # quiet /\ stale' = quiet
  /\ UNCHANGED <<selection, chartVars, price, asked, fetches, sockets, timers, attempt, quiet, drops>>

(* The hook's clean-up and effect when the symbol changes: the last socket *)
(* is closed, the pending retry cleared.                                   *)
NewSymbol ==
  /\ connect([sockets EXCEPT ![pair] = IF @ > 0 THEN @ - 1 ELSE 0], 0)
  /\ attempt' = IF drops' = drops THEN 0 ELSE 1
  /\ price' = NoPrice /\ stale' = FALSE /\ quiet' = FALSE

-----------------------------------------------------------------------------
(* The chart's effect.                                                     *)

Ask(m, r, e) == asked \cup {[market |-> m, range |-> r, effect |-> e, n |-> fetches]}

Choose(m, r) ==
  /\ <<m, r>> # <<pair, range>> /\ choices < MaxChoices /\ fetches < MaxFetches
  /\ pair' = m /\ range' = r /\ effect' = effect + 1 /\ choices' = choices + 1
  /\ IF m # pair THEN NewSymbol ELSE UNCHANGED <<streamVars, price>>
  /\ status' = "loading" /\ degraded' = FALSE /\ haveData' = FALSE
  /\ tape' = IF r = LIVE THEN Empty ELSE tape
  /\ asked' = Ask(m, r, effect + 1) /\ fetches' = fetches + 1
  /\ UNCHANGED candles

Poll ==
  /\ ~live /\ fetches < MaxFetches
  /\ asked' = Ask(pair, range, effect) /\ fetches' = fetches + 1
  /\ UNCHANGED <<selection, chartVars, price, streamVars>>

(* Mutant: the answer of an effect that is gone counts.                    *)
AnyEffect(q) == TRUE
alive(q)     == q.effect = effect

Failed == IF haveData THEN degraded' = TRUE /\ UNCHANGED status
                      ELSE status' = "error" /\ UNCHANGED degraded

(* The answer to a poll: candles, possibly none.                           *)
load(q) ==
  \/ /\ haveData' = TRUE /\ status' = "ok" /\ degraded' = FALSE
     /\ candles' \in {Filling(q.market, q.range), Empty}
     /\ UNCHANGED <<tape, price>>
  \/ Failed /\ UNCHANGED <<haveData, candles, tape, price>>

(* The answer to a tape's seed: points, something else, or a failure.      *)
seed(q) ==
  \/ /\ price' = q.market /\ tape' = Filling(q.market, LIVE) /\ status' = "ok"
     /\ UNCHANGED <<degraded, haveData, candles>>
  \/ UNCHANGED <<chartVars, price>>
  \/ status' = "error" /\ UNCHANGED <<degraded, haveData, candles, tape, price>>

Arrives(q) ==
  /\ q \in asked /\ asked' = asked \ {q}
  /\ IF ~alive(q) THEN UNCHANGED <<chartVars, price>>
     ELSE IF q.range = LIVE THEN seed(q) ELSE load(q)
  /\ UNCHANGED <<selection, fetches, streamVars>>

(* Every 500 ms: the price last seen is the tape's next point.             *)
TapeTick ==
  /\ live /\ price # NoPrice
  /\ status' = "ok"
  /\ tape' = [tape EXCEPT !.market = IF tape = Empty THEN price ELSE @,
                          !.traded = @ \cup {price}]
  /\ UNCHANGED <<selection, degraded, haveData, candles, price, asked, fetches, streamVars>>

(* Every 400 ms: a price not seen yet goes into the last candle.           *)
CandleTick ==
  /\ ~live /\ price # NoPrice
  /\ price' = NoPrice
  /\ candles' = IF candles = Empty THEN Empty ELSE [candles EXCEPT !.traded = @ \cup {price}]
  /\ UNCHANGED <<selection, status, degraded, haveData, tape, asked, fetches, streamVars>>

FeedInit ==
  /\ pair = FirstMarket /\ range = FirstWindow /\ effect = 0
  /\ status = "loading" /\ degraded = FALSE /\ haveData = FALSE
  /\ candles = Empty /\ tape = Empty /\ price = NoPrice
  /\ asked = {[market |-> FirstMarket, range |-> FirstWindow, effect |-> 0, n |-> 0]}
  /\ sockets = [m \in Markets |-> IF m = FirstMarket THEN 1 ELSE 0]
  /\ timers = 0 /\ attempt = 0 /\ stale = FALSE /\ quiet = FALSE
  /\ choices = 0 /\ fetches = 1 /\ drops = 0

FeedNext ==
  \/ \E m \in Markets, r \in Windows \cup {LIVE} : Choose(m, r)
  \/ Poll \/ \E q \in asked : Arrives(q)
  \/ TapeTick \/ CandleTick
  \/ Reconnect \/ onclose \/ \E m \in Markets : onmessage(m)
  \/ TimePasses \/ CheckStale

FeedSpec == FeedInit /\ [][FeedNext]_feedVars

-----------------------------------------------------------------------------
FeedTypeOK ==
  /\ pair \in Markets /\ range \in Windows \cup {LIVE}
  /\ status \in {"loading", "ok", "error"} /\ degraded \in BOOLEAN /\ haveData \in BOOLEAN
  /\ {candles.market, tape.market, price} \subseteq Markets \cup {NoPrice}
  /\ timers \in 0 .. 1 /\ attempt \in 0 .. 6 /\ {stale, quiet} \subseteq BOOLEAN

(* What is drawn as good is of the market and range chosen last, and no    *)
(* trade of another market was put into it: late answers, late ticks and   *)
(* sockets of an earlier choice never get there.                           *)
ShownIsOfMarket ==
  ShownPrice => /\ Drawn.market = pair /\ Drawn.range = range
                /\ Drawn.traded \subseteq {pair}

(* useBinanceTradeStream.ts, "reconnect from one place only": the stream   *)
(* always has one socket or one retry that is due, never two, never none,  *)
(* and no socket of a market that was left stays open.                     *)
OneConnection ==
  /\ sockets[pair] + timers = 1
  /\ \A m \in Markets \ {pair} : sockets[m] = 0
=============================================================================
