------------------------------ MODULE ScreensProofs ------------------------------
(***************************************************************************)
(* The machines behind the dashboard's screens, for any markets, clients,  *)
(* tabs and numbers of choices, requests and faults: the stream of the     *)
(* price chart, the limiter in front of the routes, the account page.      *)
(***************************************************************************)
EXTENDS MCScreens, Recursion, SequenceTheorems

-----------------------------------------------------------------------------
(***************************************************************************)
(* Proof, for any markets and ranges and any number of choices, fetches    *)
(* and lost sockets, that the chart's stream is one connection and that    *)
(* what the chart draws as good is of the market and range chosen last.    *)
(*                                                                         *)
(* The second rests on the first: a price can only come from the one       *)
(* socket, which is of the chosen market, or from the answer to the effect *)
(* that is alive (AsksAreOurs); so the price held is of the chosen market  *)
(* (PriceIsOurs) and may be put into what is drawn (TapeIsOurs,            *)
(* CandlesAreOurs).  Candles are only vouched for once they are loaded.    *)
(***************************************************************************)

Ranges == Windows \cup {LIVE}
Prices == Markets \cup {NoPrice}
Charts == [market : Prices, range : Ranges, traded : SUBSET Markets]
Asks   == [market : Markets, range : Ranges, effect : Nat, n : Nat]

FeedTypes ==
  /\ pair \in Markets /\ range \in Ranges /\ effect \in Nat
  /\ status \in {"loading", "ok", "error"} /\ degraded \in BOOLEAN /\ haveData \in BOOLEAN
  /\ candles \in Charts /\ tape \in Charts
  /\ price \in Prices
  /\ asked \in SUBSET Asks
  /\ sockets \in [Markets -> Nat] /\ timers \in Nat
  /\ attempt \in 0 .. 6 /\ stale \in BOOLEAN /\ quiet \in BOOLEAN
  /\ fetches \in Nat

PriceIsOurs == price \in {pair, NoPrice}

AsksAreOurs ==
  \A q \in asked : /\ q.effect <= effect
                   /\ alive(q) => q.market = pair /\ q.range = range

OursOrEmpty(chart) ==
  \/ chart = Empty
  \/ chart.market = pair /\ chart.range = range /\ chart.traded \subseteq {pair}

TapeIsOurs     == live => OursOrEmpty(tape)
CandlesAreOurs == ~live /\ status = "ok" => OursOrEmpty(candles)

FeedInv == FeedTypes /\ OneConnection /\ PriceIsOurs /\ AsksAreOurs /\ TapeIsOurs /\ CandlesAreOurs

-----------------------------------------------------------------------------
\* What a chart can be filled with.
LEMMA EmptyIsChart == Empty \in Charts
  BY DEF Empty, Filling, Charts, Prices, Ranges

LEMMA FillingIsChart ==
  ASSUME NEW m \in Markets, NEW r \in Ranges
  PROVE  Filling(m, r) \in Charts
  BY DEF Filling, Charts, Prices

\* The chart starts empty, with one socket.
LEMMA FeedStarts == FeedInit => FeedInv
<1> SUFFICES ASSUME FeedInit PROVE FeedInv
  OBVIOUS
<1> USE FeedAssumption
<1>1. FeedTypes
  <2>1. asked \in SUBSET Asks
    BY DEF FeedInit, Asks, Ranges
  <2>2. sockets \in [Markets -> Nat] /\ timers \in Nat /\ attempt \in 0 .. 6
        /\ fetches \in Nat /\ effect \in Nat
    BY DEF FeedInit
  <2>3. degraded \in BOOLEAN /\ haveData \in BOOLEAN /\ stale \in BOOLEAN /\ quiet \in BOOLEAN
    BY Zenon DEF FeedInit
  <2>4. pair \in Markets /\ range \in Ranges /\ price \in Prices
        /\ status \in {"loading", "ok", "error"}
    BY DEF FeedInit, Ranges, Prices
  <2>5. candles \in Charts /\ tape \in Charts
    BY EmptyIsChart DEF FeedInit
  <2> QED
    BY <2>1, <2>2, <2>3, <2>4, <2>5, Zenon DEF FeedTypes
<1>2. OneConnection
  BY DEF FeedInit, OneConnection
<1>3. PriceIsOurs /\ TapeIsOurs /\ CandlesAreOurs
  BY DEF FeedInit, PriceIsOurs, TapeIsOurs, CandlesAreOurs, live, OursOrEmpty
<1>4. AsksAreOurs
  BY DEF FeedInit, AsksAreOurs, alive
<1> QED
  BY <1>1, <1>2, <1>3, <1>4 DEF FeedInv

-----------------------------------------------------------------------------
(* What connect does to a market without a socket or a retry.              *)
LEMMA ConnectOnce ==
  ASSUME NEW open \in [Markets -> Nat], pair' \in Markets,
         \A m \in Markets : open[m] = 0, connect(open, 0)
  PROVE  /\ sockets' \in [Markets -> Nat] /\ timers' \in Nat
         /\ sockets'[pair'] + timers' = 1
         /\ \A m \in Markets \ {pair'} : sockets'[m] = 0
<1>1. CASE sockets' = [open EXCEPT ![pair'] = @ + 1] /\ timers' = 0
  BY <1>1
<1>2. CASE sockets' = open /\ timers' = scheduleRetry(0)
  BY <1>2 DEF scheduleRetry
<1> QED
  BY <1>1, <1>2 DEF connect

(* The steps of the stream: the chart's own state stays.                   *)
LEMMA StreamCorrect ==
  ASSUME FeedInv, Reconnect \/ onclose \/ TimePasses \/ CheckStale
  PROVE  FeedInv'
<1> UNCHANGED <<selection, chartVars, price, asked, fetches>>
  BY DEF Reconnect, onclose, TimePasses, CheckStale, selection
<1> pair' = pair
  BY DEF selection
<1>1. /\ sockets' \in [Markets -> Nat] /\ timers' \in Nat
      /\ attempt' \in 0 .. 6 /\ stale' \in BOOLEAN /\ quiet' \in BOOLEAN
      /\ OneConnection'
  <2>1. CASE Reconnect
    <3>1. timers = 1 /\ \A m \in Markets : sockets[m] = 0
      BY <2>1 DEF FeedInv, FeedTypes, OneConnection, Reconnect
    <3>2. connect(sockets, 0)
      BY <2>1, <3>1 DEF Reconnect
    <3>3. attempt' \in 0 .. 6 /\ stale' \in BOOLEAN /\ quiet' \in BOOLEAN
      BY <2>1 DEF FeedInv, FeedTypes, Reconnect, Longer
    <3> QED
      BY <3>1, <3>2, <3>3, ConnectOnce DEF FeedInv, FeedTypes, OneConnection
  <2>2. CASE onclose
    <3>1. sockets[pair] = 1 /\ timers = 0
      BY <2>2 DEF FeedInv, FeedTypes, OneConnection, onclose
    <3> QED
      BY <2>2, <3>1 DEF FeedInv, FeedTypes, OneConnection, onclose, scheduleRetry, Longer
  <2>3. CASE TimePasses \/ CheckStale
    BY <2>3 DEF FeedInv, FeedTypes, OneConnection, TimePasses, CheckStale
  <2> QED
    BY <2>1, <2>2, <2>3
<1>2. FeedTypes'
  BY <1>1 DEF FeedInv, FeedTypes, selection, chartVars
<1>3. PriceIsOurs' /\ AsksAreOurs' /\ TapeIsOurs' /\ CandlesAreOurs'
  BY DEF FeedInv, PriceIsOurs, AsksAreOurs, TapeIsOurs, CandlesAreOurs, OursOrEmpty, live, alive,
         selection, chartVars
<1> QED
  BY <1>1, <1>2, <1>3 DEF FeedInv

\* A trade arrives on the one socket, so it is of the chosen market.
LEMMA MessageCorrect ==
  ASSUME FeedInv, NEW m \in Markets, onmessage(m)
  PROVE  FeedInv'
<1>1. m = pair
  BY DEF FeedInv, FeedTypes, OneConnection, onmessage
<1> pair' = pair /\ range' = range
  BY DEF onmessage, selection
<1>2. FeedTypes'
  <2>1. attempt' \in 0 .. 6 /\ price' \in Prices
    BY <1>1 DEF FeedInv, FeedTypes, onmessage, Prices
  <2>2. quiet' \in BOOLEAN
    BY <1>1, Zenon DEF FeedInv, FeedTypes, onmessage
  <2>3. UNCHANGED <<selection, chartVars, asked, fetches, sockets, timers, stale, drops>>
    BY Zenon DEF onmessage
  <2> QED
    BY <2>1, <2>2, <2>3 DEF FeedInv, FeedTypes, selection, chartVars
<1>3. OneConnection' /\ PriceIsOurs'
  BY <1>1 DEF FeedInv, OneConnection, PriceIsOurs, onmessage
<1>4. AsksAreOurs' /\ TapeIsOurs' /\ CandlesAreOurs'
  BY DEF FeedInv, AsksAreOurs, TapeIsOurs, CandlesAreOurs, OursOrEmpty, live, alive,
         onmessage, selection, chartVars
<1> QED
  BY <1>2, <1>3, <1>4 DEF FeedInv

(* Choosing a market or a range.                                           *)
LEMMA ChooseCorrect ==
  ASSUME FeedInv, NEW m \in Markets, NEW r \in Ranges, Choose(m, r)
  PROVE  FeedInv'
<1> /\ pair' = m /\ range' = r /\ effect' = effect + 1 /\ effect \in Nat /\ fetches \in Nat
    /\ fetches' = fetches + 1 /\ status' = "loading" /\ candles' = candles
    /\ degraded' = FALSE /\ haveData' = FALSE
    /\ tape' = IF r = LIVE THEN Empty ELSE tape
  BY DEF Choose, FeedInv, FeedTypes
<1>1. /\ sockets' \in [Markets -> Nat] /\ timers' \in Nat /\ OneConnection'
      /\ attempt' \in 0 .. 6 /\ stale' \in BOOLEAN /\ quiet' \in BOOLEAN
      /\ price' \in Prices /\ PriceIsOurs'
  <2>1. CASE m = pair
    BY <2>1 DEF Choose, FeedInv, FeedTypes, OneConnection, PriceIsOurs, streamVars
  <2>2. CASE m # pair
    <3> DEFINE open == [sockets EXCEPT ![pair] = IF @ > 0 THEN @ - 1 ELSE 0]
    <3>1. NewSymbol
      BY <2>2 DEF Choose
    <3>2. open \in [Markets -> Nat] /\ \A k \in Markets : open[k] = 0
      BY DEF FeedInv, FeedTypes, OneConnection
    <3>3. connect(open, 0)
      BY <3>1 DEF NewSymbol
    <3>4. /\ sockets' \in [Markets -> Nat] /\ timers' \in Nat
          /\ sockets'[pair'] + timers' = 1
          /\ \A k \in Markets \ {pair'} : sockets'[k] = 0
      <4> HIDE DEF open
      <4> QED
        BY <3>2, <3>3, ConnectOnce
    <3>5. /\ attempt' \in 0 .. 6 /\ stale' \in BOOLEAN /\ quiet' \in BOOLEAN
          /\ price' \in Prices /\ PriceIsOurs'
      <4>1. stale' \in BOOLEAN /\ quiet' \in BOOLEAN
        BY <3>1, Zenon DEF NewSymbol
      <4>2. attempt' \in 0 .. 6
        BY <3>1 DEF NewSymbol
      <4>3. price' \in Prices /\ PriceIsOurs'
        BY <3>1, Zenon DEF NewSymbol, Prices, PriceIsOurs
      <4> QED
        BY <4>1, <4>2, <4>3
    <3> QED
      BY <3>4, <3>5 DEF OneConnection
  <2> QED
    BY <2>1, <2>2
<1>2. asked' \in SUBSET Asks
  BY DEF Choose, Ask, Asks, FeedInv, FeedTypes
<1>3. FeedTypes'
  <2>1. degraded' \in BOOLEAN /\ haveData' \in BOOLEAN
    BY Zenon
  <2>2. candles' \in Charts /\ tape' \in Charts
    BY EmptyIsChart DEF FeedInv, FeedTypes
  <2>3. pair' \in Markets /\ range' \in Ranges /\ status' \in {"loading", "ok", "error"}
        /\ effect' \in Nat /\ fetches' \in Nat
    OBVIOUS
  <2> QED
    BY <1>1, <1>2, <2>1, <2>2, <2>3, Zenon DEF FeedTypes
<1>4. AsksAreOurs'
  <2> SUFFICES ASSUME NEW q \in asked'
               PROVE  /\ q.effect <= effect'
                      /\ q.effect = effect' => q.market = pair' /\ q.range = range'
    BY DEF AsksAreOurs, alive
  <2>1. CASE q \in asked
    BY <2>1 DEF FeedInv, FeedTypes, Asks, AsksAreOurs
  <2>2. CASE q = [market |-> m, range |-> r, effect |-> effect + 1, n |-> fetches]
    BY <2>2
  <2> QED
    BY <2>1, <2>2 DEF Choose, Ask
<1>5. TapeIsOurs' /\ CandlesAreOurs'
  BY DEF TapeIsOurs, CandlesAreOurs, OursOrEmpty, live
<1> QED
  BY <1>1, <1>3, <1>4, <1>5 DEF FeedInv

\* A poll is sent by the effect that is alive.
LEMMA FeedPollCorrect ==
  ASSUME FeedInv, Poll
  PROVE  FeedInv'
<1>1. /\ UNCHANGED <<selection, chartVars, price, streamVars>> /\ fetches' = fetches + 1
      /\ asked' = asked \cup {[market |-> pair, range |-> range, effect |-> effect, n |-> fetches]}
  BY DEF Poll, Ask
<1>2. FeedTypes'
  BY <1>1 DEF FeedInv, FeedTypes, Asks, selection, chartVars, streamVars
<1>3. AsksAreOurs'
  BY <1>1 DEF FeedInv, FeedTypes, AsksAreOurs, alive, selection
<1>4. OneConnection' /\ PriceIsOurs' /\ TapeIsOurs' /\ CandlesAreOurs'
  BY <1>1 DEF FeedInv, OneConnection, PriceIsOurs, TapeIsOurs, CandlesAreOurs, OursOrEmpty, live,
              selection, chartVars, streamVars
<1> QED
  BY <1>2, <1>3, <1>4 DEF FeedInv

(* An answer: dropped, or of the effect that is alive and so of the market *)
(* and range chosen.                                                       *)
LEMMA AnswerCorrect ==
  ASSUME FeedInv, NEW q \in asked, Arrives(q)
  PROVE  FeedInv'
<1>1. /\ UNCHANGED <<selection, fetches, streamVars>> /\ asked' = asked \ {q}
      /\ pair' = pair /\ range' = range /\ effect' = effect
  BY DEF Arrives, selection
<1>2. q \in Asks /\ q.market \in Markets /\ q.range \in Ranges
  BY DEF FeedInv, FeedTypes, Asks
<1>3. AsksAreOurs' /\ OneConnection'
  BY <1>1 DEF FeedInv, AsksAreOurs, alive, OneConnection, streamVars
<1>4. /\ status' \in {"loading", "ok", "error"} /\ degraded' \in BOOLEAN /\ haveData' \in BOOLEAN
      /\ candles' \in Charts /\ tape' \in Charts /\ price' \in Prices
      /\ PriceIsOurs' /\ TapeIsOurs' /\ CandlesAreOurs'
  <2>1. CASE ~alive(q)
    BY <1>1, <2>1 DEF Arrives, chartVars, FeedInv, FeedTypes, PriceIsOurs, TapeIsOurs, CandlesAreOurs,
                      OursOrEmpty, live
  <2>2. CASE alive(q) /\ q.range = LIVE
    <3>1. seed(q) /\ q.market = pair /\ range = LIVE
      BY <2>2 DEF Arrives, FeedInv, AsksAreOurs
    <3>2. Filling(q.market, LIVE) \in Charts
      BY <1>2, FillingIsChart DEF Ranges
    <3>3. CASE /\ price' = q.market /\ tape' = Filling(q.market, LIVE) /\ status' = "ok"
               /\ UNCHANGED <<degraded, haveData, candles>>
      <4>1. tape'.market = pair /\ tape'.range = range /\ tape'.traded = {}
        BY <3>1, <3>3 DEF Filling
      <4>2. PriceIsOurs' /\ TapeIsOurs' /\ CandlesAreOurs'
        BY <1>1, <3>1, <3>3, <4>1 DEF PriceIsOurs, TapeIsOurs, CandlesAreOurs, OursOrEmpty, live
      <4> QED
        BY <1>2, <3>2, <3>3, <4>2 DEF FeedInv, FeedTypes, Prices
    <3>4. CASE UNCHANGED <<chartVars, price>>
      BY <1>1, <3>4 DEF chartVars, FeedInv, FeedTypes, PriceIsOurs, TapeIsOurs, CandlesAreOurs,
                        OursOrEmpty, live
    <3>5. CASE status' = "error" /\ UNCHANGED <<degraded, haveData, candles, tape, price>>
      BY <1>1, <3>5 DEF FeedInv, FeedTypes, PriceIsOurs, TapeIsOurs, CandlesAreOurs, OursOrEmpty, live
    <3> QED
      BY <3>1, <3>3, <3>4, <3>5 DEF seed
  <2>3. CASE alive(q) /\ q.range # LIVE
    <3>1. load(q) /\ q.market = pair /\ q.range = range /\ range # LIVE
      BY <2>3 DEF Arrives, FeedInv, AsksAreOurs
    <3>2. Filling(q.market, q.range) \in Charts
      BY <1>2, FillingIsChart
    <3>3. CASE Failed /\ UNCHANGED <<haveData, candles, tape, price>>
      BY <1>1, <3>1, <3>3 DEF Failed, FeedInv, FeedTypes, PriceIsOurs, TapeIsOurs, CandlesAreOurs,
                              OursOrEmpty, live
    <3>4. CASE /\ haveData' = TRUE /\ status' = "ok" /\ degraded' = FALSE
               /\ candles' \in {Filling(q.market, q.range), Empty} /\ UNCHANGED <<tape, price>>
      <4>1. /\ Filling(q.market, q.range).market = pair /\ Filling(q.market, q.range).range = range
            /\ Filling(q.market, q.range).traded = {}
        BY <3>1 DEF Filling
      <4>2. OursOrEmpty(candles)'
        BY <1>1, <3>4, <4>1 DEF OursOrEmpty, Empty
      <4>3. PriceIsOurs' /\ TapeIsOurs' /\ CandlesAreOurs'
        BY <1>1, <3>1, <3>4, <4>2 DEF FeedInv, PriceIsOurs, TapeIsOurs, CandlesAreOurs, live
      <4>4. candles' \in Charts
        BY <3>2, <3>4, EmptyIsChart
      <4>5. haveData' \in BOOLEAN /\ degraded' \in BOOLEAN
        BY <3>4, Zenon
      <4> QED
        BY <3>4, <4>3, <4>4, <4>5 DEF FeedInv, FeedTypes
    <3> QED
      BY <3>1, <3>3, <3>4 DEF load
  <2> QED
    BY <2>1, <2>2, <2>3
<1>5. FeedTypes'
  BY <1>1, <1>4 DEF FeedInv, FeedTypes, streamVars
<1> QED
  BY <1>3, <1>4, <1>5 DEF FeedInv

\* The tape takes the price held.
LEMMA TapeTickCorrect ==
  ASSUME FeedInv, TapeTick
  PROVE  FeedInv'
<1>1. /\ UNCHANGED <<selection, degraded, haveData, candles, price, asked, fetches, streamVars>>
      /\ pair' = pair /\ range' = range /\ status' = "ok" /\ range = LIVE
      /\ price = pair /\ pair \in Markets /\ tape \in Charts
      /\ tape' = [tape EXCEPT !.market = IF tape = Empty THEN price ELSE @,
                              !.traded = @ \cup {price}]
  BY DEF TapeTick, live, selection, FeedInv, FeedTypes, PriceIsOurs
<1>2. /\ tape' \in Charts
      /\ tape'.market = (IF tape = Empty THEN pair ELSE tape.market)
      /\ tape'.range = tape.range /\ tape'.traded = tape.traded \cup {pair}
  BY <1>1 DEF Charts, Prices
<1>3. TapeIsOurs'
  BY <1>1, <1>2 DEF FeedInv, TapeIsOurs, OursOrEmpty, live, Empty, Filling
<1>4. CandlesAreOurs' /\ PriceIsOurs' /\ AsksAreOurs' /\ OneConnection'
  BY <1>1 DEF FeedInv, CandlesAreOurs, live, PriceIsOurs, AsksAreOurs, alive, OneConnection,
              selection, streamVars
<1>5. FeedTypes'
  BY <1>1, <1>2 DEF FeedInv, FeedTypes, selection, streamVars
<1> QED
  BY <1>3, <1>4, <1>5 DEF FeedInv

\* The last candle takes the price held.
LEMMA CandleTickCorrect ==
  ASSUME FeedInv, CandleTick
  PROVE  FeedInv'
<1>1. /\ UNCHANGED <<selection, status, degraded, haveData, tape, asked, fetches, streamVars>>
      /\ pair' = pair /\ range' = range /\ range # LIVE /\ price' = NoPrice
      /\ price = pair /\ pair \in Markets /\ candles \in Charts
      /\ candles' = IF candles = Empty THEN Empty
                    ELSE [candles EXCEPT !.traded = @ \cup {price}]
  BY DEF CandleTick, live, selection, FeedInv, FeedTypes, PriceIsOurs
<1>2. /\ candles' \in Charts
      /\ candles' = Empty
         \/ /\ candles # Empty /\ candles'.market = candles.market
            /\ candles'.range = candles.range /\ candles'.traded = candles.traded \cup {pair}
  BY <1>1, EmptyIsChart DEF Charts
<1>3. CandlesAreOurs'
  BY <1>1, <1>2 DEF FeedInv, CandlesAreOurs, OursOrEmpty, live
<1>4. TapeIsOurs' /\ PriceIsOurs' /\ AsksAreOurs' /\ OneConnection'
  BY <1>1 DEF FeedInv, TapeIsOurs, live, PriceIsOurs, AsksAreOurs, alive, OneConnection,
              selection, streamVars
<1>5. FeedTypes'
  BY <1>1, <1>2 DEF FeedInv, FeedTypes, Prices, selection, streamVars
<1> QED
  BY <1>3, <1>4, <1>5 DEF FeedInv

\* Every step keeps the invariant.
LEMMA FeedSteps == FeedInv /\ [FeedNext]_feedVars => FeedInv'
<1> SUFFICES ASSUME FeedInv, [FeedNext]_feedVars PROVE FeedInv'
  OBVIOUS
<1>1. ASSUME NEW m \in Markets, NEW r \in Windows \cup {LIVE}, Choose(m, r)
      PROVE  FeedInv'
  BY <1>1, ChooseCorrect DEF Ranges
<1>2. CASE Poll
  BY <1>2, FeedPollCorrect
<1>3. ASSUME NEW q \in asked, Arrives(q)
      PROVE  FeedInv'
  BY <1>3, AnswerCorrect
<1>4. CASE TapeTick
  BY <1>4, TapeTickCorrect
<1>5. CASE CandleTick
  BY <1>5, CandleTickCorrect
<1>6. CASE Reconnect \/ onclose \/ TimePasses \/ CheckStale
  BY <1>6, StreamCorrect
<1>7. ASSUME NEW m \in Markets, onmessage(m)
      PROVE  FeedInv'
  BY <1>7, MessageCorrect
<1>8. CASE UNCHANGED feedVars
  BY <1>8 DEF feedVars, selection, chartVars, streamVars, FeedInv, FeedTypes, OneConnection, PriceIsOurs,
              AsksAreOurs, alive, TapeIsOurs, CandlesAreOurs, OursOrEmpty, live
<1> QED
  BY <1>1, <1>2, <1>3, <1>4, <1>5, <1>6, <1>7, <1>8 DEF FeedNext

(* The inductive invariant of the chart and its stream                     *)
(* (PriceChart.tsx:101-240, useBinanceTradeStream.ts:17-83).               *)
THEOREM FeedInvariant == FeedSpec => []FeedInv
<1> QED
  BY FeedStarts, FeedSteps, PTL DEF FeedSpec

(* The stream has one socket of the chosen market or one retry that is     *)
(* due, and no other socket, for any number of choices and lost sockets.   *)
THEOREM OneConnectionCorrect == FeedSpec => []OneConnection
<1>1. FeedInv => OneConnection
  BY DEF FeedInv
<1> QED
  BY <1>1, FeedInvariant, PTL

(* What is drawn as good is of the market and range chosen last, whatever  *)
(* answers, ticks and messages come late.                                  *)
THEOREM ShownIsOfMarketCorrect == FeedSpec => []ShownIsOfMarket
<1>1. FeedInv => ShownIsOfMarket
  BY DEF FeedInv, ShownIsOfMarket, ShownPrice, Drawn, TapeIsOurs, CandlesAreOurs, OursOrEmpty
<1> QED
  BY <1>1, FeedInvariant, PTL

-----------------------------------------------------------------------------
(***************************************************************************)
(* Proof that the limiter keeps its promise for any number of clients, any *)
(* maximum, window and sweep threshold: over any stretch of one window no  *)
(* more than two windows' worth of one client's requests pass.             *)
(*                                                                         *)
(* The argument: the requests counted in a bucket are the last ones let    *)
(* through, the first of them at reset - Window (Kept); when that first    *)
(* one passed, the one MaxHits places before it was at least a window old  *)
(* (Spaced); and where no bucket is kept, the next request would find the  *)
(* same (Gone), because only buckets that have expired are ever dropped.   *)
(***************************************************************************)

LimitTypes ==
  /\ now \in Nat
  /\ DOMAIN buckets \subseteq Keys
  /\ buckets \in [DOMAIN buckets -> [count : 1 .. MaxHits, reset : Nat]]
  /\ passed \in [Keys -> Seq(Nat)]

Ordered ==
  \A k \in Keys : \A j \in DOMAIN passed[k] :
    /\ passed[k][j] <= now
    /\ \A i \in DOMAIN passed[k] : i <= j => passed[k][i] <= passed[k][j]

\* The place in passed[k] of the first request a bucket counts.
First(k) == Len(passed[k]) - buckets[k].count + 1

Kept ==
  \A k \in DOMAIN buckets :
    /\ First(k) \in DOMAIN passed[k]
    /\ buckets[k].reset = passed[k][First(k)] + Window

Spaced ==
  \A k \in DOMAIN buckets : \A i \in DOMAIN passed[k] :
    i + MaxHits <= First(k) => passed[k][i] + Window <= passed[k][First(k)]

\* The next request of k, if it opens a window, is a window after the one MaxHits before it.
Ready(k) ==
  \A i \in DOMAIN passed[k] : i + MaxHits <= Len(passed[k]) + 1 => passed[k][i] + Window <= now

Gone == \A k \in Keys \ DOMAIN buckets : Ready(k)

LimitInv == LimitTypes /\ Ordered /\ Kept /\ Spaced /\ Gone /\ Burst

-----------------------------------------------------------------------------
(* A bucket that has expired leaves its key as if it had none.             *)
LEMMA ExpiredReady ==
  ASSUME LimitInv, NEW k \in DOMAIN buckets, Expired(k)
  PROVE  Ready(k)
<1> SUFFICES ASSUME NEW i \in DOMAIN passed[k], i + MaxHits <= Len(passed[k]) + 1
             PROVE  passed[k][i] + Window <= now
  BY DEF Ready
<1> k \in Keys /\ passed[k] \in Seq(Nat) /\ buckets[k] \in [count : 1 .. MaxHits, reset : Nat]
  BY DEF LimitInv, LimitTypes
<1>1. i <= First(k)
  BY LimitAssumption DEF First
<1>2. passed[k][i] <= passed[k][First(k)]
  BY <1>1 DEF LimitInv, Ordered, Kept
<1>3. passed[k][First(k)] + Window <= now
  BY DEF LimitInv, Kept, Expired
<1>4. now \in Nat /\ Window \in Nat /\ passed[k][i] \in Nat /\ passed[k][First(k)] \in Nat
  BY SMTT(30), LimitAssumption DEF LimitInv, LimitTypes, Kept
<1>5. \A a, b, w, n \in Nat : a <= b /\ b + w <= n => a + w <= n
  OBVIOUS
<1> QED
  BY <1>2, <1>3, <1>4, <1>5, Zenon

(* What a sweep leaves: no key it drops had requests to hold against it.   *)
LEMMA SweptReady ==
  ASSUME LimitInv, NEW k \in Keys, k \notin Swept \/ Expired(k)
  PROVE  Ready(k)
<1>1. CASE k \in DOMAIN buckets
  <2>1. Expired(k)
    BY <1>1 DEF Swept
  <2> QED
    BY <1>1, <2>1, ExpiredReady
<1>2. CASE k \notin DOMAIN buckets
  BY <1>2 DEF LimitInv, Gone
<1> QED
  BY <1>1, <1>2

\* A sweep drops buckets and adds none.
LEMMA SweptKept == Swept \subseteq DOMAIN buckets
  BY DEF Swept

(* One more request of k is let through now, with bucket b: what has to    *)
(* hold of k alone.                                                        *)
LEMMA Passing ==
  ASSUME LimitInv, NEW k \in Keys, NEW b \in [count : 1 .. MaxHits, reset : Nat],
         buckets' = Keep(Swept, k, b),
         passed' = [passed EXCEPT ![k] = Append(@, now)],
         now' = now,
         First(k)' \in DOMAIN passed[k]',
         b.reset = passed[k]'[First(k)'] + Window,
         \A i \in DOMAIN passed[k]' :
            i + MaxHits <= First(k)' => passed[k]'[i] + Window <= passed[k]'[First(k)'],
         \A i \in DOMAIN passed[k] :
            i + 2 * MaxHits <= Len(passed[k]) + 1 => passed[k][i] + Window <= now
  PROVE  LimitInv'
<1> USE LimitAssumption
<1> Swept \subseteq DOMAIN buckets /\ DOMAIN buckets \subseteq Keys
  BY SweptKept DEF LimitInv, LimitTypes
<1>1. /\ DOMAIN buckets' = Swept \cup {k}
      /\ buckets'[k] = b
      /\ \A j \in Swept \ {k} : buckets'[j] = buckets[j]
  BY DEF Keep
<1>2. /\ passed \in [Keys -> Seq(Nat)] /\ now \in Nat
      /\ passed' \in [Keys -> Seq(Nat)]
      /\ passed'[k] = Append(passed[k], now)
      /\ \A j \in Keys \ {k} : passed'[j] = passed[j]
  BY SMTT(30) DEF LimitInv, LimitTypes
<1>3. /\ Len(passed'[k]) = Len(passed[k]) + 1
      /\ DOMAIN passed'[k] = 1 .. Len(passed[k]) + 1
      /\ DOMAIN passed[k] = 1 .. Len(passed[k])
      /\ passed'[k][Len(passed[k]) + 1] = now
      /\ \A i \in 1 .. Len(passed[k]) : passed'[k][i] = passed[k][i] /\ passed[k][i] \in Nat
  BY SMTT(30), <1>2
<1>4. LimitTypes'
  <2>1. \A j \in Swept \cup {k} : buckets'[j] \in [count : 1 .. MaxHits, reset : Nat]
    BY <1>1 DEF LimitInv, LimitTypes
  <2>2. buckets' = [j \in Swept \cup {k} |-> buckets'[j]]
    BY DEF Keep
  <2> QED
    BY <1>1, <1>2, <2>1, <2>2 DEF LimitTypes
<1>5. Ordered'
  <2>1. ASSUME NEW j \in Keys \ {k}
        PROVE  \A m \in DOMAIN passed'[j] :
                 /\ passed'[j][m] <= now'
                 /\ \A i \in DOMAIN passed'[j] : i <= m => passed'[j][i] <= passed'[j][m]
    BY <1>2 DEF LimitInv, Ordered
  <2>2. \A m \in DOMAIN passed'[k] :
                 /\ passed'[k][m] <= now'
                 /\ \A i \in DOMAIN passed'[k] : i <= m => passed'[k][i] <= passed'[k][m]
    <3>1. /\ \A m \in 1 .. Len(passed[k]) : passed[k][m] <= now
          /\ \A i, m \in 1 .. Len(passed[k]) : i <= m => passed[k][i] <= passed[k][m]
      BY <1>3 DEF LimitInv, Ordered
    <3>2. \A m \in 1 .. Len(passed[k]) + 1 :
             m \in 1 .. Len(passed[k]) \/ (m = Len(passed[k]) + 1 /\ passed'[k][m] = now)
      BY <1>2, <1>3
    <3> QED
      BY SMTT(30), <1>2, <1>3, <3>1, <3>2
  <2> QED
    BY <2>1, <2>2 DEF Ordered
<1>6. \A j \in Swept \ {k} : First(j)' = First(j)
  BY <1>1, <1>2 DEF First
<1>7. Kept' /\ Spaced'
  <2>1. ASSUME NEW j \in Swept \ {k}
        PROVE  /\ First(j)' \in DOMAIN passed'[j]
               /\ buckets'[j].reset = passed'[j][First(j)'] + Window
               /\ \A i \in DOMAIN passed'[j] :
                    i + MaxHits <= First(j)' => passed'[j][i] + Window <= passed'[j][First(j)']
    <3>1. j \in DOMAIN buckets /\ j \in Keys \ {k}
      OBVIOUS
    <3>2. /\ First(j) \in DOMAIN passed[j]
          /\ buckets[j].reset = passed[j][First(j)] + Window
          /\ \A i \in DOMAIN passed[j] :
               i + MaxHits <= First(j) => passed[j][i] + Window <= passed[j][First(j)]
      BY <3>1 DEF LimitInv, Kept, Spaced
    <3>3. passed'[j] = passed[j] /\ buckets'[j] = buckets[j] /\ First(j)' = First(j)
      BY <1>1, <1>2, <1>6, <3>1
    <3> QED
      BY <3>2, <3>3
  <2> QED
    BY <1>1, <2>1 DEF Kept, Spaced
<1>8. Gone'
  <2> SUFFICES ASSUME NEW j \in Keys \ (Swept \cup {k})
               PROVE  Ready(j)'
    BY <1>1 DEF Gone
  <2>1. Ready(j)
    BY SweptReady
  <2> QED
    BY <1>2, <2>1 DEF Ready
<1>9. Burst'
  <2>1. ASSUME NEW j \in Keys \ {k}
        PROVE  \A i, m \in DOMAIN passed'[j] :
                 i + 2 * MaxHits <= m => passed'[j][m] >= passed'[j][i] + Window
    BY <1>2 DEF LimitInv, Burst
  <2>2. ASSUME NEW i \in DOMAIN passed'[k], NEW m \in DOMAIN passed'[k], i + 2 * MaxHits <= m
        PROVE  passed'[k][m] >= passed'[k][i] + Window
    <3>1. CASE m \in DOMAIN passed[k]
      <4>1. i \in DOMAIN passed[k]
        BY <1>3, <2>2, <3>1
      <4>2. passed[k][m] >= passed[k][i] + Window
        BY <2>2, <3>1, <4>1 DEF LimitInv, Burst
      <4> QED
        BY <1>3, <3>1, <4>1, <4>2
    <3>2. CASE m = Len(passed[k]) + 1
      <4>1. i \in DOMAIN passed[k]
        BY <1>3, <2>2, <3>2
      <4>2. passed[k][i] + Window <= now
        BY <2>2, <3>2, <4>1
      <4> QED
        BY <1>2, <1>3, <3>2, <4>1, <4>2
    <3> QED
      BY <1>3, <3>1, <3>2
  <2> QED
    BY <2>1, <2>2 DEF Burst
<1> QED
  BY <1>4, <1>5, <1>7, <1>8, <1>9 DEF LimitInv

-----------------------------------------------------------------------------
\* No request has passed and no bucket is kept.
LEMMA LimitStarts == LimitInit => LimitInv
<1> SUFFICES ASSUME LimitInit PROVE LimitInv
  OBVIOUS
<1>1. DOMAIN buckets = {} /\ \A k \in Keys : passed[k] = <<>> /\ DOMAIN passed[k] = {}
  BY DEF LimitInit
<1>2. LimitTypes
  <2>1. buckets = [j \in DOMAIN buckets |-> buckets[j]]
    BY DEF LimitInit
  <2> QED
    BY <1>1, <2>1 DEF LimitInit, LimitTypes
<1> QED
  BY <1>1, <1>2 DEF LimitInv, Ordered, Kept, Spaced, Gone, Ready, Burst

(* A request that opens a window.                                          *)
LEMMA OpensWindow ==
  ASSUME LimitInv, NEW k \in Keys, NewBucket(k), now' = now
  PROVE  LimitInv'
<1> USE LimitAssumption
<1> DEFINE b == [count |-> 1, reset |-> now + Window]
<1>1. now \in Nat /\ passed \in [Keys -> Seq(Nat)] /\ b \in [count : 1 .. MaxHits, reset : Nat]
  BY DEF LimitInv, LimitTypes
<1>2. /\ passed' = [passed EXCEPT ![k] = Append(@, now)]
      /\ buckets' = Keep(Swept, k, b)
  BY DEF NewBucket
<1>3. /\ Len(passed'[k]) = Len(passed[k]) + 1
      /\ DOMAIN passed'[k] = 1 .. Len(passed[k]) + 1
      /\ passed'[k][Len(passed[k]) + 1] = now
      /\ \A i \in 1 .. Len(passed[k]) : passed'[k][i] = passed[k][i]
      /\ Len(passed[k]) \in Nat /\ DOMAIN passed[k] = 1 .. Len(passed[k])
  BY <1>1, <1>2
<1>4. First(k)' = Len(passed[k]) + 1
  <2>1. buckets'[k] = b
    BY <1>2 DEF Keep
  <2> QED
    BY <1>3, <2>1 DEF First
<1>5. Ready(k)
  BY SweptReady DEF NewBucket
<1>6. \A i \in DOMAIN passed[k] :
         i + MaxHits <= Len(passed[k]) + 1 => passed[k][i] + Window <= now
  BY <1>5 DEF Ready
<1>7. \A i \in DOMAIN passed[k] :
         i + 2 * MaxHits <= Len(passed[k]) + 1 => passed[k][i] + Window <= now
  BY <1>3, <1>6
<1>8. \A i \in DOMAIN passed'[k] :
         i + MaxHits <= First(k)' => passed'[k][i] + Window <= passed'[k][First(k)']
  <2> SUFFICES ASSUME NEW i \in DOMAIN passed'[k], i + MaxHits <= Len(passed[k]) + 1
               PROVE  passed'[k][i] + Window <= now
    BY <1>3, <1>4
  <2>1. i \in DOMAIN passed[k]
    BY <1>3
  <2> QED
    BY <1>3, <1>6, <2>1
<1>9. First(k)' \in DOMAIN passed'[k] /\ b.reset = passed'[k][First(k)'] + Window
  BY <1>3, <1>4
<1> HIDE DEF b
<1> QED
  BY <1>1, <1>2, <1>7, <1>8, <1>9, Passing

(* A request counted in the bucket it finds.                               *)
LEMMA CountsOn ==
  ASSUME LimitInv, NEW k \in Keys, Counted(k), now' = now
  PROVE  LimitInv'
<1> USE LimitAssumption
<1> DEFINE b == [buckets[k] EXCEPT !.count = @ + 1]
<1>1. /\ k \in DOMAIN buckets /\ now \in Nat /\ passed \in [Keys -> Seq(Nat)]
      /\ buckets[k] \in [count : 1 .. MaxHits, reset : Nat]
      /\ buckets[k].count < MaxHits
  BY SweptKept DEF LimitInv, LimitTypes, Counted, Full
<1>2. /\ passed' = [passed EXCEPT ![k] = Append(@, now)]
      /\ buckets' = Keep(Swept, k, b)
      /\ b \in [count : 1 .. MaxHits, reset : Nat]
      /\ b.count = buckets[k].count + 1 /\ b.reset = buckets[k].reset
  BY SMTT(30), <1>1 DEF Counted
<1>3. /\ Len(passed'[k]) = Len(passed[k]) + 1
      /\ DOMAIN passed'[k] = 1 .. Len(passed[k]) + 1
      /\ passed'[k][Len(passed[k]) + 1] = now
      /\ \A i \in 1 .. Len(passed[k]) : passed'[k][i] = passed[k][i] /\ passed[k][i] \in Nat
      /\ Len(passed[k]) \in Nat /\ DOMAIN passed[k] = 1 .. Len(passed[k])
  <2>1. passed[k] \in Seq(Nat) /\ passed'[k] = Append(passed[k], now)
    BY <1>1, <1>2
  <2>2. \A s \in Seq(Nat) :
          /\ Len(s) \in Nat /\ DOMAIN s = 1 .. Len(s) /\ \A i \in 1 .. Len(s) : s[i] \in Nat
          /\ Len(Append(s, now)) = Len(s) + 1 /\ DOMAIN Append(s, now) = 1 .. Len(s) + 1
          /\ Append(s, now)[Len(s) + 1] = now
          /\ \A i \in 1 .. Len(s) : Append(s, now)[i] = s[i]
    BY <1>1
  <2> QED
    BY <2>1, <2>2
<1>4. First(k)' = First(k) /\ First(k) \in DOMAIN passed[k] /\ First(k) \in Nat
  <2>1. buckets'[k] = b
    BY <1>2 DEF Keep
  <2>2. First(k) \in DOMAIN passed[k]
    BY <1>1 DEF LimitInv, Kept
  <2>3. buckets'[k].count = buckets[k].count + 1
    BY <1>2, <2>1
  <2>4. First(k)' = Len(passed'[k]) - buckets'[k].count + 1
    BY DEF First
  <2>5. First(k)' = First(k)
    BY <1>1, <1>3, <2>3, <2>4 DEF First
  <2> QED
    BY <1>3, <2>2, <2>5
<1>5. passed'[k][First(k)] = passed[k][First(k)] /\ buckets[k].reset = passed[k][First(k)] + Window
  BY <1>1, <1>3, <1>4 DEF LimitInv, Kept
<1>6. \A i \in DOMAIN passed[k] :
         i + MaxHits <= First(k) => passed[k][i] + Window <= passed[k][First(k)]
  BY <1>1 DEF LimitInv, Spaced
<1>7. \A i \in DOMAIN passed'[k] :
         i + MaxHits <= First(k)' => passed'[k][i] + Window <= passed'[k][First(k)']
  <2> SUFFICES ASSUME NEW i \in DOMAIN passed'[k], i + MaxHits <= First(k)
               PROVE  passed'[k][i] + Window <= passed'[k][First(k)]
    BY <1>4
  <2>1. i \in DOMAIN passed[k]
    BY <1>3, <1>4
  <2> QED
    BY <1>3, <1>5, <1>6, <2>1
<1>8. passed[k][First(k)] <= now
  BY <1>4 DEF LimitInv, Ordered
<1>9. \A i \in DOMAIN passed[k] :
         i + 2 * MaxHits <= Len(passed[k]) + 1 => passed[k][i] + Window <= now
  <2> SUFFICES ASSUME NEW i \in DOMAIN passed[k], i + 2 * MaxHits <= Len(passed[k]) + 1
               PROVE  passed[k][i] + Window <= now
    OBVIOUS
  <2>1. i + MaxHits <= First(k)
    BY SMTT(30), <1>1, <1>3 DEF First
  <2>2. passed[k][i] + Window <= passed[k][First(k)]
    BY <1>6, <2>1
  <2>3. passed[k][i] + Window \in Nat /\ passed[k][First(k)] \in Nat
    BY SMTT(30), <1>3, <1>4
  <2>4. \A x, y, z \in Nat : x <= y /\ y <= z => x <= z
    OBVIOUS
  <2> QED
    BY <1>1, <1>8, <2>2, <2>3, <2>4, Zenon
<1>10. First(k)' \in DOMAIN passed'[k] /\ b.reset = passed'[k][First(k)'] + Window
  BY SMTT(30), <1>2, <1>3, <1>4, <1>5
<1> HIDE DEF b
<1> QED
  BY <1>1, <1>2, <1>7, <1>9, <1>10, Passing

(* A request refused only sweeps.                                          *)
LEMMA OnlySweeps ==
  ASSUME LimitInv, NEW k \in Keys, Refused(k), now' = now
  PROVE  LimitInv'
<1>1. /\ Swept \subseteq DOMAIN buckets /\ passed' = passed
      /\ DOMAIN buckets' = Swept /\ \A j \in Swept : buckets'[j] = buckets[j]
      /\ buckets' = [j \in Swept |-> buckets[j]]
  BY SweptKept DEF Refused
<1>2. LimitTypes'
  BY <1>1 DEF LimitInv, LimitTypes
<1>3. Ordered' /\ Burst'
  BY <1>1 DEF LimitInv, Ordered, Burst
<1>4. \A j \in Swept : First(j)' = First(j)
  BY <1>1 DEF First
<1>5. Kept' /\ Spaced'
  BY <1>1, <1>4 DEF LimitInv, Kept, Spaced
<1>6. Gone'
  <2> SUFFICES ASSUME NEW j \in Keys \ Swept
               PROVE  Ready(j)'
    BY <1>1 DEF Gone
  <2>1. Ready(j)
    BY SweptReady
  <2> QED
    BY <1>1, <2>1 DEF Ready
<1> QED
  BY <1>2, <1>3, <1>5, <1>6 DEF LimitInv

\* Time passes: buckets expire, nothing is counted.
LEMMA LimitTimeCorrect ==
  ASSUME LimitInv, TimePassed
  PROVE  LimitInv'
<1> now' = now + 1 /\ buckets' = buckets /\ passed' = passed /\ now \in Nat
  BY DEF LimitInv, LimitTypes, TimePassed
<1>1. LimitTypes' /\ Burst'
  BY DEF LimitInv, LimitTypes, Burst
<1>2. Ordered'
  <2>1. \A k \in Keys : \A j \in DOMAIN passed[k] : passed[k][j] \in Nat
    BY DEF LimitInv, LimitTypes
  <2> QED
    BY <2>1 DEF LimitInv, Ordered
<1>3. Kept' /\ Spaced'
  BY DEF LimitInv, Kept, Spaced, First
<1>4. Gone'
  <2>1. \A k \in Keys : \A j \in DOMAIN passed[k] : passed[k][j] + Window \in Nat
    BY LimitAssumption DEF LimitInv, LimitTypes
  <2> QED
    BY <2>1 DEF LimitInv, Gone, Ready
<1> QED
  BY <1>1, <1>2, <1>3, <1>4 DEF LimitInv

\* Every step keeps the invariant.
LEMMA LimitSteps == LimitInv /\ [LimitNext]_limitVars => LimitInv'
<1> SUFFICES ASSUME LimitInv, [LimitNext]_limitVars PROVE LimitInv'
  OBVIOUS
<1>1. CASE TimePassed
  BY <1>1, LimitTimeCorrect
<1>2. ASSUME NEW k \in Keys, rateLimit(k)
      PROVE  LimitInv'
  BY <1>2, OpensWindow, CountsOn, OnlySweeps DEF rateLimit
<1>3. CASE UNCHANGED limitVars
  BY <1>3 DEF limitVars, LimitInv, LimitTypes, Ordered, Kept, Spaced, First, Gone, Ready, Burst
<1> QED
  BY <1>1, <1>2, <1>3 DEF LimitNext

(* Every reachable state keeps the limiter's books (rate-limit.ts:10-24).  *)
THEOREM LimitInvariant == LimitSpec => []LimitInv
<1> QED
  BY LimitStarts, LimitSteps, PTL DEF LimitSpec

\* Every reachable state of the limiter (rate-limit.ts) is well typed; no bucket counts past the maximum.
THEOREM LimitTypeCorrect == LimitSpec => []LimitTypeOK
<1>1. LimitInv => LimitTypeOK
  BY DEF LimitInv, LimitTypes, LimitTypeOK
<1> QED
  BY <1>1, LimitInvariant, PTL

(* For every number of clients, maximum, window and sweep threshold: over  *)
(* any stretch of one window, no more than twice the maximum passes.       *)
THEOREM BurstCorrect == LimitSpec => []Burst
<1>1. LimitInv => Burst
  BY DEF LimitInv
<1> QED
  BY <1>1, LimitInvariant, PTL

-----------------------------------------------------------------------------
(***************************************************************************)
(* The account page in any number of tabs.  A tab nobody has overtaken has *)
(* at most one call for the bot and one for the keys on its way, and each  *)
(* keeps a promise (Promise) whatever order the two are sent, answered or  *)
(* refused in.  From the promises of the calls follows what the page shows *)
(* once they are through: Rested for the switch, Seen for the keys.        *)
(***************************************************************************)

Shops == Venues \cup {"coindcx", PANEL!NoKeys}

PanelCalls == [op : {"set", "goLive", "save"}, active : {"on", "off", PANEL!NoPatch},
               live : {"on", "off", PANEL!NoPatch}, ex : Shops, switching : BOOLEAN,
               prev : [active : BOOLEAN, live : BOOLEAN], at : {"sent", "ok", "failed"}]

PanelTypes ==
  /\ bot \in [active : BOOLEAN, live : BOOLEAN]
  /\ keys \in Shops /\ runnable \in BOOLEAN
  /\ props \in [Pages -> [linked : Shops, canRun : BOOLEAN]]
  /\ panel \in [Pages -> [active : BOOLEAN, live : BOOLEAN, confirming : BOOLEAN,
                          phrase : BOOLEAN, showForm : BOOLEAN, exchange : Shops]]
  /\ queue \in [Pages -> Seq(PanelCalls)]
  /\ overtaken \subseteq Pages

\* One call for the bot and one for the keys; only the first is under way.
Apart(t) ==
  /\ \A i, j \in 1 .. Len(queue[t]) :
       (queue[t][i].op = "save") = (queue[t][j].op = "save") => i = j
  /\ \A i \in 1 .. Len(queue[t]) : i # 1 => queue[t][i].at = "sent"

DryIfShown(t) == ~panel[t].live => ~bot.live

\* What a call in the queue of t says about what is shown and stored.
Promise(t, c) ==
  CASE c.op = "goLive" -> /\ c.live = "on" /\ ~panel[t].live /\ ~c.switching
                          /\ c.at # "ok" => ~bot.live
    [] c.op = "set"    -> /\ ~c.switching
                          /\ \/ c.live = PANEL!NoPatch /\ c.prev.live = panel[t].live
                                /\ DryIfShown(t)
                             \/ c.live = "off" /\ c.prev.live /\ (c.at = "ok" => ~bot.live)
    [] c.op = "save"   -> c.switching => /\ c.at = "ok" => ~bot.live
                                         /\ c.at = "sent" => keys \notin {PANEL!NoKeys, c.ex}

Rested(t) ==
  (\A i \in 1 .. Len(queue[t]) : queue[t][i].op = "save") => DryIfShown(t)

Seen(t) ==
  (\A i \in 1 .. Len(queue[t]) : queue[t][i].op = "save" => queue[t][i].at # "ok")
    => props[t].linked = keys

Queued(t, c) == \E i \in 1 .. Len(queue[t]) : queue[t][i] = c

Kempt(t) ==
  /\ Apart(t) /\ Rested(t) /\ Seen(t)
  /\ \A c \in PanelCalls : Queued(t, c) => Promise(t, c)

PanelInv == PanelTypes /\ \A t \in Pages \ overtaken : Kempt(t)

\* A page that is opened shows what is stored.
LEMMA PanelStarts == PANEL!PanelInit => PanelInv
<1> SUFFICES ASSUME PANEL!PanelInit PROVE PanelInv
  OBVIOUS
<1> USE DEF PANEL!PanelInit, PANEL!Rendered, PANEL!Mounted, Shops, PANEL!NoKeys
<1>1. PanelTypes
  <2>1. queue \in [Pages -> Seq(PanelCalls)]
    OBVIOUS
  <2> QED
    BY <2>1 DEF PanelTypes
<1>2. ASSUME NEW t \in Pages PROVE Kempt(t)
  BY DEF Kempt, Queued, Apart, Rested, Seen, DryIfShown
<1> QED
  BY <1>1, <1>2 DEF PanelInv

\* The panel, the props and the calls of a tab, read off the types.
LEMMA TabFields ==
  ASSUME PanelTypes, NEW t \in Pages
  PROVE  /\ panel[t] \in [active : BOOLEAN, live : BOOLEAN, confirming : BOOLEAN,
                          phrase : BOOLEAN, showForm : BOOLEAN, exchange : Shops]
         /\ props[t] \in [linked : Shops, canRun : BOOLEAN]
         /\ queue[t] \in Seq(PanelCalls) /\ Len(queue[t]) \in Nat
         /\ \A i \in 1 .. Len(queue[t]) : queue[t][i] \in PanelCalls
         /\ queue[t] # <<>> => Len(queue[t]) >= 1 /\ queue[t][1] \in PanelCalls
BY DEF PanelTypes

\* What the three changes of a queue do to its calls.
LEMMA QueueGrows ==
  ASSUME PanelTypes, NEW t \in Pages, NEW c \in PanelCalls, PANEL!Call(t, c)
  PROVE  /\ queue' \in [Pages -> Seq(PanelCalls)]
         /\ \A s \in Pages \ {t} : queue'[s] = queue[s]
         /\ Len(queue'[t]) = Len(queue[t]) + 1
         /\ \A i \in 1 .. Len(queue[t]) : queue'[t][i] = queue[t][i]
         /\ queue'[t][Len(queue[t]) + 1] = c
<1>1. /\ queue' = [queue EXCEPT ![t] = Append(@, c)]
      /\ queue \in [Pages -> Seq(PanelCalls)]
  BY DEF PANEL!Call, PanelTypes
<1>2. queue'[t] = Append(queue[t], c) /\ queue[t] \in Seq(PanelCalls)
  BY <1>1
<1>3. Append(queue[t], c) \in Seq(PanelCalls)
  BY <1>2
<1> QED
  BY <1>1, <1>2, <1>3

LEMMA QueueEnds ==
  ASSUME PanelTypes, NEW t \in Pages, NEW how \in {"ok", "failed"},
         PANEL!Active(t), PANEL!Ends(t, how)
  PROVE  /\ queue' \in [Pages -> Seq(PanelCalls)]
         /\ \A s \in Pages \ {t} : queue'[s] = queue[s]
         /\ Len(queue'[t]) = Len(queue[t])
         /\ \A i \in 2 .. Len(queue[t]) : queue'[t][i] = queue[t][i]
         /\ queue'[t][1] = [queue[t][1] EXCEPT !.at = how]
<1>1. /\ queue' = [queue EXCEPT ![t][1].at = how]
      /\ queue \in [Pages -> Seq(PanelCalls)] /\ queue[t] # <<>>
  BY DEF PANEL!Ends, PANEL!Active, PanelTypes
<1> DEFINE c == [queue[t][1] EXCEPT !.at = how]
<1>2. c \in PanelCalls
  <2>1. queue[t][1] \in PanelCalls
    BY <1>1
  <2> QED
    BY <2>1 DEF PanelCalls
<1>3. queue'[t] = [queue[t] EXCEPT ![1] = c]
  BY <1>1
<1> HIDE DEF c
<1>4. /\ queue'[t] \in Seq(PanelCalls) /\ Len(queue'[t]) = Len(queue[t])
      /\ \A i \in 2 .. Len(queue[t]) : queue'[t][i] = queue[t][i]
      /\ queue'[t][1] = c
  <2>1. queue[t] \in Seq(PanelCalls) /\ 1 \in 1 .. Len(queue[t])
    BY <1>1
  <2> QED
    BY <2>1, <1>2, <1>3, ExceptSeq
<1> QED
  BY <1>1, <1>4 DEF c

LEMMA QueuePops ==
  ASSUME PanelTypes, NEW t \in Pages, queue[t] # <<>>,
         queue' = [queue EXCEPT ![t] = Tail(@)]
  PROVE  /\ queue' \in [Pages -> Seq(PanelCalls)]
         /\ \A s \in Pages \ {t} : queue'[s] = queue[s]
         /\ Len(queue'[t]) = Len(queue[t]) - 1
         /\ \A i \in 1 .. Len(queue'[t]) : queue'[t][i] = queue[t][i + 1]
<1>1. queue \in [Pages -> Seq(PanelCalls)]
  BY DEF PanelTypes
<1>2. queue'[t] = Tail(queue[t]) /\ queue[t] \in Seq(PanelCalls) /\ queue[t] # <<>>
  BY <1>1
<1> QED
  BY <1>1, <1>2

\* A step that leaves keys, calls and the live switches alone keeps it all.
LEMMA PanelLocal ==
  ASSUME PanelInv, PANEL!Local,
         panel' \in [Pages -> [active : BOOLEAN, live : BOOLEAN,
                               confirming : BOOLEAN, phrase : BOOLEAN,
                               showForm : BOOLEAN, exchange : Shops]],
         \A s \in Pages : panel'[s].live = panel[s].live
  PROVE  PanelInv'
<1>1. PanelTypes'
  BY DEF PanelInv, PanelTypes, PANEL!Local
<1>2. UNCHANGED <<bot, keys, props, queue, overtaken>>
  BY DEF PANEL!Local
<1>3. ASSUME NEW s \in Pages \ overtaken PROVE Kempt(s)'
  <2>1. Kempt(s) /\ panel'[s].live = panel[s].live
    BY DEF PanelInv
  <2>2. \A c : Promise(s, c)' <=> Promise(s, c)
    BY <1>2, <2>1 DEF Promise, DryIfShown, PANEL!NoPatch, PANEL!NoKeys
  <2>3. Apart(s)' /\ Rested(s)' /\ Seen(s)'
    BY <1>2, <2>1 DEF Kempt, Apart, Rested, Seen, DryIfShown
  <2> QED
    BY <1>2, <2>1, <2>2, <2>3 DEF Kempt, Queued
<1> QED
  BY <1>1, <1>2, <1>3 DEF PanelInv

\* Dialogs, phrases and the form's choice touch neither switch nor keys.
LEMMA DialogsCorrect ==
  ASSUME PanelInv, NEW t \in Pages,
         \/ PANEL!askLive(t) \/ PANEL!typePhrase(t) \/ PANEL!stayDry(t)
         \/ PANEL!openForm(t) \/ PANEL!cancelForm(t)
         \/ \E ex \in Venues : PANEL!pickExchange(t, ex)
  PROVE  PanelInv'
<1> DEFINE P == [active : BOOLEAN, live : BOOLEAN, confirming : BOOLEAN,
                 phrase : BOOLEAN, showForm : BOOLEAN, exchange : Shops]
<1>1. PANEL!Local
  BY DEF PANEL!askLive, PANEL!typePhrase, PANEL!stayDry, PANEL!openForm,
     PANEL!cancelForm, PANEL!pickExchange
<1>2. panel \in [Pages -> P] /\ props[t].linked \in Shops /\ Venues \subseteq Shops
  BY TabFields DEF PanelInv, PanelTypes, Shops
<1>3. panel' \in [Pages -> P] /\ \A s \in Pages : panel'[s].live = panel[s].live
  <2>1. CASE PANEL!askLive(t)
    BY <1>2, <2>1 DEF PANEL!askLive
  <2>2. CASE PANEL!typePhrase(t)
    BY <1>2, <2>2 DEF PANEL!typePhrase
  <2>3. CASE PANEL!stayDry(t)
    BY <1>2, <2>3 DEF PANEL!stayDry
  <2>4. CASE PANEL!openForm(t)
    BY <1>2, <2>4 DEF PANEL!openForm
  <2>5. CASE PANEL!cancelForm(t)
    BY <1>2, <2>5 DEF PANEL!cancelForm
  <2>6. ASSUME NEW ex \in Venues, PANEL!pickExchange(t, ex)
        PROVE  panel' \in [Pages -> P] /\ \A s \in Pages : panel'[s].live = panel[s].live
    BY <1>2, <2>6 DEF PANEL!pickExchange
  <2> QED
    BY <2>1, <2>2, <2>3, <2>4, <2>5, <2>6
<1> QED
  BY <1>1, <1>3, PanelLocal

\* A tab whose switch, calls and row stay as they are stays in order.
LEMMA KemptStays ==
  ASSUME NEW s, Kempt(s), queue'[s] = queue[s], panel'[s].live = panel[s].live,
         props'[s].linked = props[s].linked, UNCHANGED <<bot, keys>>
  PROVE  Kempt(s)'
<1>1. \A c : Promise(s, c)' <=> Promise(s, c)
  BY DEF Promise, DryIfShown, PANEL!NoPatch, PANEL!NoKeys
<1>2. Apart(s)' /\ Rested(s)' /\ Seen(s)'
  BY DEF Kempt, Apart, Rested, Seen, DryIfShown
<1> QED
  BY <1>1, <1>2 DEF Kempt, Queued

\* A call joins a queue that holds none of its kind; it keeps its promise, and
\* a call for the keys leaves the switch alone.
LEMMA Sends ==
  ASSUME PanelInv, NEW t \in Pages, NEW c \in PanelCalls, PANEL!Call(t, c),
         UNCHANGED <<bot, keys, runnable, props, overtaken>>,
         panel' \in [Pages -> [active : BOOLEAN, live : BOOLEAN,
                               confirming : BOOLEAN, phrase : BOOLEAN,
                               showForm : BOOLEAN, exchange : Shops]],
         \A s \in Pages : s # t \/ c.op = "save" => panel'[s].live = panel[s].live,
         c.at = "sent",
         \A i \in 1 .. Len(queue[t]) : (queue[t][i].op = "save") # (c.op = "save"),
         t \notin overtaken => Promise(t, c)'
  PROVE  PanelInv'
<1>1. PanelTypes /\ \A s \in Pages \ overtaken : Kempt(s)
  BY DEF PanelInv
<1> DEFINE n == Len(queue[t])
<1>2. /\ queue' \in [Pages -> Seq(PanelCalls)]
      /\ \A s \in Pages \ {t} : queue'[s] = queue[s]
      /\ Len(queue'[t]) = n + 1
      /\ \A i \in 1 .. n : queue'[t][i] = queue[t][i]
      /\ queue'[t][n + 1] = c
      /\ n \in Nat
  BY <1>1, QueueGrows, TabFields
<1> HIDE DEF n
<1>3. PanelTypes'
  BY <1>1, <1>2 DEF PanelTypes
<1>4. ASSUME NEW s \in Pages \ overtaken, s # t PROVE Kempt(s)'
  BY <1>1, <1>2, <1>4, KemptStays
<1>5. ASSUME t \notin overtaken PROVE Kempt(t)'
  <2>1. Kempt(t) /\ Promise(t, c)'
    BY <1>1, <1>5
  <2>2. \A i \in 1 .. n + 1 : i \in 1 .. n \/ i = n + 1
    BY <1>2
  <2>3. \A i \in 1 .. n : (queue[t][i].op = "save") # (c.op = "save")
    BY DEF n
  <2>4. ASSUME NEW d \in PanelCalls, Queued(t, d) PROVE Promise(t, d)'
    <3>1. Promise(t, d) /\ (d.op = "save" \/ c.op = "save")
      BY <2>1, <2>3, <2>4 DEF Kempt, Queued, n
    <3>2. CASE d.op = "save"
      BY <3>1, <3>2 DEF Promise, PANEL!NoKeys
    <3>3. CASE c.op = "save"
      BY <3>1, <3>3 DEF Promise, DryIfShown, PANEL!NoKeys
    <3> QED
      BY <3>1, <3>2, <3>3
  <2>5. Apart(t)'
    <3>1. /\ \A i, j \in 1 .. n :
               (queue[t][i].op = "save") = (queue[t][j].op = "save") => i = j
          /\ \A i \in 1 .. n : i # 1 => queue[t][i].at = "sent"
      BY <2>1 DEF Kempt, Apart, n
    <3>2. ASSUME NEW i \in 1 .. n + 1, NEW j \in 1 .. n + 1,
                 (queue'[t][i].op = "save") = (queue'[t][j].op = "save")
          PROVE  i = j
      <4>1. CASE i \in 1 .. n /\ j \in 1 .. n
        BY <1>2, <3>1, <3>2, <4>1
      <4>2. CASE i \in 1 .. n /\ j = n + 1
        BY <1>2, <2>3, <3>2, <4>2
      <4>3. CASE i = n + 1 /\ j \in 1 .. n
        BY <1>2, <2>3, <3>2, <4>3
      <4> QED
        BY <2>2, <4>1, <4>2, <4>3
    <3>3. ASSUME NEW i \in 1 .. n + 1, i # 1 PROVE queue'[t][i].at = "sent"
      BY <1>2, <2>2, <3>1, <3>3
    <3> QED
      BY <1>2, <3>2, <3>3 DEF Apart
  <2>6. Rested(t)'
    BY <1>2, <2>1, <2>2, <2>3 DEF Kempt, Rested, DryIfShown, n
  <2>7. Seen(t)'
    BY <1>2, <2>1, <2>2 DEF Kempt, Seen, n
  <2>8. ASSUME NEW d \in PanelCalls, Queued(t, d)' PROVE Queued(t, d) \/ d = c
    <3>1. PICK i \in 1 .. n + 1 : queue'[t][i] = d
      BY <1>2, <2>8 DEF Queued
    <3>2. CASE i \in 1 .. n
      <4>1. queue[t][i] = d
        BY <1>2, <3>1, <3>2
      <4> QED
        BY <3>2, <4>1 DEF Queued, n
    <3>3. CASE i = n + 1
      BY <1>2, <3>1, <3>3
    <3> QED
      BY <2>2, <3>2, <3>3
  <2> QED
    BY <2>1, <2>4, <2>5, <2>6, <2>7, <2>8 DEF Kempt
<1> QED
  BY <1>3, <1>4, <1>5 DEF PanelInv

\* With no call for the bot on its way, all that wait are for the keys; with
\* none for the keys, all are for the bot.
LEMMA NotBusy ==
  ASSUME PanelTypes, NEW t \in Pages
  PROVE  /\ ~PANEL!BotBusy(t) =>
              \A i \in 1 .. Len(queue[t]) : queue[t][i].op = "save"
         /\ ~PANEL!Busy(t, {"save"}) =>
              \A i \in 1 .. Len(queue[t]) : queue[t][i].op # "save"
<1>1. DOMAIN queue[t] = 1 .. Len(queue[t])
      /\ \A i \in 1 .. Len(queue[t]) : queue[t][i] \in PanelCalls
  BY TabFields
<1> QED
  BY <1>1 DEF PANEL!BotBusy, PANEL!Busy, PanelCalls

\* The switches and the form send calls that keep their promise.
LEMMA PressesCorrect ==
  ASSUME PanelInv, NEW t \in Pages,
         \/ PANEL!toggleActive(t) \/ PANEL!turnLiveOff(t)
         \/ PANEL!confirmGoLive(t) \/ PANEL!submit(t)
  PROVE  PanelInv'
<1> DEFINE P == [active : BOOLEAN, live : BOOLEAN, confirming : BOOLEAN,
                 phrase : BOOLEAN, showForm : BOOLEAN, exchange : Shops]
<1>1. /\ PanelTypes /\ panel \in [Pages -> P] /\ panel[t] \in P
      /\ props[t].linked \in Shops
      /\ t \notin overtaken => Kempt(t)
  BY TabFields DEF PanelInv, PanelTypes
<1>2. UNCHANGED <<bot, keys, runnable, props, overtaken>>
  BY DEF PANEL!toggleActive, PANEL!turnLiveOff, PANEL!confirmGoLive,
     PANEL!submit, PANEL!Press
<1> USE DEF PANEL!CallOf, PANEL!Before, PANEL!NoPatch, PANEL!NoKeys
<1>3. ASSUME ~PANEL!BotBusy(t)
      PROVE  /\ \A i \in 1 .. Len(queue[t]) : queue[t][i].op = "save"
             /\ t \notin overtaken => DryIfShown(t)
  <2>1. \A i \in 1 .. Len(queue[t]) : queue[t][i].op = "save"
    BY <1>1, <1>3, NotBusy
  <2> QED
    BY <1>1, <2>1 DEF Kempt, Rested
<1>4. ASSUME NEW c \in PanelCalls, PANEL!Call(t, c), ~PANEL!BotBusy(t), c.at = "sent",
             ~c.switching, panel' \in [Pages -> P],
             \A s \in Pages \ {t} : panel'[s].live = panel[s].live,
             \/ /\ c.op = "goLive" /\ c.live = "on" /\ ~panel'[t].live
                /\ panel'[t].live = panel[t].live
             \/ /\ c.op = "set" /\ c.live = PANEL!NoPatch
                /\ c.prev.live = panel[t].live /\ panel'[t].live = panel[t].live
             \/ c.op = "set" /\ c.live = "off" /\ c.prev.live
      PROVE  PanelInv'
  <2>1. \A i \in 1 .. Len(queue[t]) : (queue[t][i].op = "save") # (c.op = "save")
    BY <1>3, <1>4
  <2>2. t \notin overtaken => Promise(t, c)'
    BY <1>2, <1>3, <1>4 DEF Promise, DryIfShown
  <2>3. c.op # "save"
    BY <1>4
  <2> QED
    BY <1>2, <1>4, <2>1, <2>2, <2>3, Sends
<1>5. CASE PANEL!toggleActive(t)
  <2>1. PICK c \in PanelCalls :
           c = PANEL!CallOf("set", IF panel[t].active THEN "off" ELSE "on",
                            PANEL!NoPatch, PANEL!NoKeys, FALSE, PANEL!Before(t))
    BY <1>1 DEF PanelCalls, Shops
  <2>2. PANEL!Call(t, c) /\ ~PANEL!BotBusy(t)
    BY <1>5, <2>1 DEF PANEL!toggleActive, PANEL!ShownActive
  <2>3. panel' \in [Pages -> P] /\ \A s \in Pages : panel'[s].live = panel[s].live
    BY <1>1, <1>5 DEF PANEL!toggleActive
  <2> QED
    BY <1>4, <2>1, <2>2, <2>3
<1>6. CASE PANEL!turnLiveOff(t)
  <2>1. PICK c \in PanelCalls :
           c = PANEL!CallOf("set", PANEL!NoPatch, "off", PANEL!NoKeys, FALSE,
                            PANEL!Before(t))
    BY <1>1 DEF PanelCalls, Shops
  <2>2. PANEL!Call(t, c) /\ ~PANEL!BotBusy(t) /\ panel[t].live
    BY <1>6, <2>1 DEF PANEL!turnLiveOff, PANEL!ShownLive
  <2>3. /\ panel' \in [Pages -> P]
        /\ \A s \in Pages \ {t} : panel'[s].live = panel[s].live
    BY <1>1, <1>6 DEF PANEL!turnLiveOff
  <2> QED
    BY <1>4, <2>1, <2>2, <2>3
<1>7. CASE PANEL!confirmGoLive(t)
  <2>1. PICK c \in PanelCalls :
           c = PANEL!CallOf("goLive", PANEL!NoPatch, "on", PANEL!NoKeys, FALSE,
                            PANEL!Before(t))
    BY <1>1 DEF PanelCalls, Shops
  <2>2. PANEL!Call(t, c) /\ ~PANEL!BotBusy(t) /\ ~panel[t].live /\ UNCHANGED panel
    BY <1>7, <2>1 DEF PANEL!confirmGoLive, PANEL!ShownEnable, PANEL!ShownConfirm
  <2> QED
    BY <1>1, <1>4, <2>1, <2>2
<1>8. CASE PANEL!submit(t)
  <2>1. PICK c \in PanelCalls :
           c = PANEL!CallOf("save", PANEL!NoPatch, PANEL!NoPatch, panel[t].exchange,
                            PANEL!Switching(t), PANEL!Before(t))
    <3>1. PANEL!Switching(t) \in BOOLEAN
      BY DEF PANEL!Switching
    <3> QED
      BY <1>1, <3>1 DEF PanelCalls
  <2>2. PANEL!Call(t, c) /\ ~PANEL!Busy(t, {"save"}) /\ UNCHANGED panel
    BY <1>8, <2>1 DEF PANEL!submit, PANEL!ShownSubmit
  <2>3. \A i \in 1 .. Len(queue[t]) : queue[t][i].op # "save"
    BY <1>1, <2>2, NotBusy
  <2>4. t \notin overtaken => props[t].linked = keys
    BY <1>1, <2>3 DEF Kempt, Seen
  <2>5. t \notin overtaken => Promise(t, c)'
    <3>1. c.op = "save" /\ c.at = "sent" /\ c.ex = panel[t].exchange
          /\ (c.switching => /\ props[t].linked # PANEL!NoKeys
                             /\ panel[t].exchange # props[t].linked)
      BY <2>1 DEF PANEL!Switching, PANEL!Linked
    <3> QED
      BY <1>2, <2>4, <3>1 DEF Promise
  <2> QED
    BY <1>1, <1>2, <2>1, <2>2, <2>3, <2>5, Sends
<1> QED
  BY <1>5, <1>6, <1>7, <1>8

\* The server's answer to a call at the head of t's queue: it ends the call,
\* leaves the others alone, and every tab whose row another has written counts
\* as overtaken.
LEMMA Serves ==
  ASSUME PanelInv, NEW t \in Pages, NEW how \in {"ok", "failed"},
         PANEL!Active(t), PANEL!Ends(t, how),
         UNCHANGED <<runnable, props, panel>>,
         bot' \in [active : BOOLEAN, live : BOOLEAN], keys' \in Shops,
         overtaken \subseteq overtaken', overtaken' \subseteq Pages,
         UNCHANGED <<bot, keys>> \/ Pages \ {t} \subseteq overtaken',
         t \notin overtaken' =>
           /\ \A e \in PanelCalls : e = [queue[t][1] EXCEPT !.at = how] => Promise(t, e)'
           /\ \A d \in PanelCalls : Promise(t, d) /\ d.at = "sent"
                /\ (d.op = "save") # (queue[t][1].op = "save") => Promise(t, d)'
           /\ queue[t][1].op = "save" => (DryIfShown(t) => DryIfShown(t)')
           /\ ~(queue[t][1].op = "save" /\ how = "ok") => UNCHANGED keys
           /\ queue[t][1].at = "sent"
  PROVE  PanelInv'
<1>1. PanelTypes /\ \A s \in Pages \ overtaken : Kempt(s)
  BY DEF PanelInv
<1> DEFINE n == Len(queue[t])
<1>2. /\ queue' \in [Pages -> Seq(PanelCalls)]
      /\ \A s \in Pages \ {t} : queue'[s] = queue[s]
      /\ Len(queue'[t]) = n
      /\ \A i \in 2 .. n : queue'[t][i] = queue[t][i]
      /\ queue'[t][1] = [queue[t][1] EXCEPT !.at = how]
      /\ n \in Nat /\ n >= 1 /\ queue[t][1] \in PanelCalls
  BY <1>1, QueueEnds, TabFields DEF PANEL!Active
<1> HIDE DEF n
<1>3. PanelTypes'
  BY <1>1, <1>2 DEF PanelTypes
<1>4. ASSUME NEW s \in Pages \ overtaken', s # t PROVE Kempt(s)'
  BY <1>1, <1>2, <1>4, KemptStays
<1>5. ASSUME t \notin overtaken' PROVE Kempt(t)'
  <2>1. Kempt(t)
    BY <1>1, <1>5
  <2>2. PICK c \in PanelCalls : c = queue[t][1]
    BY <1>2
  <2>3. PICK e \in PanelCalls : e = [c EXCEPT !.at = how]
    BY DEF PanelCalls
  <2>4. e.op = c.op /\ e.at = how
    BY <2>3 DEF PanelCalls
  <2>5. /\ \A i \in 1 .. n : i = 1 \/ i \in 2 .. n
        /\ 1 \in 1 .. n /\ queue'[t][1] = e /\ queue[t][1] = c
    BY <1>2, <2>2, <2>3
  <2>5a. \A i \in 1 .. n : queue'[t][i].op = queue[t][i].op
    BY <1>2, <2>4, <2>5
  <2>5b. /\ \A i, j \in 1 .. n :
               (queue[t][i].op = "save") = (queue[t][j].op = "save") => i = j
         /\ \A i \in 1 .. n : i # 1 => queue[t][i].at = "sent"
    BY <2>1 DEF Kempt, Apart, n
  <2>6. Apart(t)'
    <3>1. \A i \in 1 .. n : i # 1 => queue'[t][i].at = "sent"
      BY <1>2, <2>5, <2>5b
    <3>2. \A i, j \in 1 .. n :
               (queue'[t][i].op = "save") = (queue'[t][j].op = "save") => i = j
      BY <2>5a, <2>5b
    <3> QED
      BY <1>2, <3>1, <3>2 DEF Apart
  <2>7. Rested(t)'
    <3>1. ASSUME \A i \in 1 .. n : queue'[t][i].op = "save" PROVE DryIfShown(t)'
      <4>1. \A i \in 1 .. n : queue[t][i].op = "save"
        BY <2>5a, <3>1
      <4>2. DryIfShown(t)
        BY <2>1, <4>1 DEF Kempt, Rested, n
      <4> QED
        BY <1>2, <1>5, <4>1, <4>2
    <3> QED
      BY <1>2, <3>1 DEF Rested
  <2>8. Seen(t)'
    <3>1. ASSUME \A i \in 1 .. n : queue'[t][i].op = "save" => queue'[t][i].at # "ok"
          PROVE  props'[t].linked = keys'
      <4>1. UNCHANGED keys
        <5>1. ~(c.op = "save" /\ how = "ok")
          BY <2>4, <2>5, <3>1
        <5> QED
          BY <1>5, <2>2, <5>1
      <4>2. \A i \in 1 .. n : queue[t][i].op = "save" => queue[t][i].at # "ok"
        BY <1>5, <2>5, <2>5b
      <4> QED
        BY <2>1, <4>1, <4>2 DEF Kempt, Seen, n
    <3> QED
      BY <1>2, <3>1 DEF Seen
  <2>9. ASSUME NEW d \in PanelCalls, Queued(t, d)' PROVE Promise(t, d)'
    <3>1. PICK i \in 1 .. n : queue'[t][i] = d
      BY <1>2, <2>9 DEF Queued
    <3>2. CASE i = 1
      <4>1. d = e
        BY <2>5, <3>1, <3>2
      <4> QED
        BY <1>5, <2>2, <2>3, <4>1
    <3>3. CASE i # 1
      <4>1. i \in 2 .. n /\ queue[t][i] = d
        BY <1>2, <3>1, <3>3
      <4>2. d.at = "sent" /\ (d.op = "save") # (c.op = "save")
        <5>1. ~((queue[t][i].op = "save") = (queue[t][1].op = "save"))
          BY <2>5, <2>5b, <3>1, <3>3
        <5> QED
          BY <2>2, <2>5b, <3>1, <3>3, <4>1, <5>1
      <4>3. Promise(t, d)
        BY <2>1, <3>1, <4>1 DEF Kempt, Queued, n
      <4> QED
        BY <1>5, <2>2, <4>2, <4>3
    <3> QED
      BY <3>2, <3>3
  <2> QED
    BY <2>6, <2>7, <2>8, <2>9 DEF Kempt
<1> QED
  BY <1>3, <1>4, <1>5 DEF PanelInv

\* The server actions and calls that break.
LEMMA ServerCorrect ==
  ASSUME PanelInv, NEW t \in Pages,
         \/ PANEL!setBot(t) \/ PANEL!goLive(t) \/ PANEL!saveCredentials(t)
         \/ PANEL!CallBreaks(t)
  PROVE  PanelInv'
<1> USE DEF PANEL!NoKeys, PANEL!NoPatch
<1>1. PanelTypes /\ (t \notin overtaken => Kempt(t))
  BY DEF PanelInv
<1>2. PANEL!Active(t)
  BY DEF PANEL!setBot, PANEL!goLive, PANEL!saveCredentials, PANEL!CallBreaks,
     PANEL!Sent
<1>3. PICK c \in PanelCalls : c = queue[t][1]
  BY <1>1, <1>2, TabFields DEF PANEL!Active
<1>4. t \notin overtaken => Promise(t, c)
  <2>1. Queued(t, c)
    <3>1. 1 \in 1 .. Len(queue[t])
      BY <1>1, <1>2, TabFields DEF PANEL!Active
    <3> QED
      BY <1>3, <3>1 DEF Queued
  <2> QED
    BY <1>1, <2>1 DEF Kempt
<1>5. UNCHANGED <<runnable, props, panel>>
  BY DEF PANEL!setBot, PANEL!goLive, PANEL!saveCredentials, PANEL!CallBreaks,
     PANEL!Untouched
<1>6. bot \in [active : BOOLEAN, live : BOOLEAN] /\ keys \in Shops /\ overtaken \subseteq Pages
  BY <1>1 DEF PanelTypes
<1>7. c \in PanelCalls /\ (c.op = "goLive" \/ c.op = "set" \/ c.op = "save")
      /\ c.ex \in Shops
  BY DEF PanelCalls
\* A call that has no effect keeps every promise.
<1>8. ASSUME PANEL!Ends(t, "failed"), UNCHANGED <<bot, keys>>,
             \/ UNCHANGED overtaken /\ c.at = "sent"
             \/ overtaken' = overtaken \cup {t}
      PROVE  PanelInv'
  <2>1. ASSUME t \notin overtaken'
        PROVE  /\ \A e \in PanelCalls :
                    e = [queue[t][1] EXCEPT !.at = "failed"] => Promise(t, e)'
               /\ \A d \in PanelCalls : Promise(t, d) => Promise(t, d)'
               /\ DryIfShown(t) => DryIfShown(t)'
               /\ c.at = "sent"
    <3>1. c.at = "sent" /\ Promise(t, c)
      BY <1>4, <1>8, <2>1
    <3>2. ASSUME NEW e \in PanelCalls, e = [c EXCEPT !.at = "failed"]
          PROVE  Promise(t, e)'
      <4>1. /\ e.op = c.op /\ e.live = c.live /\ e.prev = c.prev
            /\ e.switching = c.switching /\ e.at = "failed"
        BY <3>2 DEF PanelCalls
      <4>2. CASE c.op = "goLive"
        BY <1>5, <1>8, <3>1, <4>1, <4>2 DEF Promise
      <4>3. CASE c.op = "set"
        BY <1>5, <1>8, <3>1, <4>1, <4>3 DEF Promise, DryIfShown
      <4>4. CASE c.op = "save"
        BY <4>1, <4>4 DEF Promise
      <4> QED
        BY <1>7, <4>2, <4>3, <4>4
    <3>3. \A d \in PanelCalls : Promise(t, d) => Promise(t, d)'
      BY <1>5, <1>8 DEF Promise, DryIfShown
    <3> QED
      BY <1>3, <1>5, <1>8, <3>1, <3>2, <3>3 DEF DryIfShown
  <2> QED
    BY <1>2, <1>3, <1>5, <1>6, <1>8, <2>1, Serves
<1>9. CASE PANEL!CallBreaks(t)
  BY <1>3, <1>8, <1>9 DEF PANEL!CallBreaks, PANEL!Head1
\* A call that has its effect: whoever else has the page open is overtaken.
<1>10. ASSUME PANEL!Ends(t, "ok"), overtaken' = overtaken \cup (Pages \ {t}), c.at = "sent",
              bot' \in [active : BOOLEAN, live : BOOLEAN],
              \/ /\ c.op = "goLive" /\ UNCHANGED keys
              \/ /\ c.op = "set" /\ UNCHANGED keys
                 /\ bot'.live = IF c.live = "keep" THEN bot.live ELSE c.live = "on"
              \/ /\ c.op = "save" /\ keys' = c.ex
                 /\ bot'.live = IF keys # "none" /\ keys # c.ex THEN FALSE ELSE bot.live
       PROVE  PanelInv'
  <2>1. ASSUME t \notin overtaken'
        PROVE  /\ \A e \in PanelCalls :
                    e = [queue[t][1] EXCEPT !.at = "ok"] => Promise(t, e)'
               /\ \A d \in PanelCalls : Promise(t, d) /\ d.at = "sent"
                    /\ (d.op = "save") # (c.op = "save") => Promise(t, d)'
               /\ c.op = "save" => (DryIfShown(t) => DryIfShown(t)')
               /\ ~(c.op = "save") => UNCHANGED keys
    <3>1. Promise(t, c)
      BY <1>4, <1>10, <2>1
    <3>2. ASSUME NEW e \in PanelCalls, e = [c EXCEPT !.at = "ok"]
          PROVE  Promise(t, e)'
      <4>1. /\ e.op = c.op /\ e.live = c.live /\ e.prev = c.prev
            /\ e.switching = c.switching /\ e.at = "ok"
        BY <3>2 DEF PanelCalls
      <4>2. CASE c.op = "goLive"
        BY <1>5, <1>10, <3>1, <4>1, <4>2 DEF Promise
      <4>3. CASE c.op = "set"
        BY <1>5, <1>10, <3>1, <4>1, <4>3 DEF Promise, DryIfShown
      <4>4. CASE c.op = "save"
        BY <1>5, <1>10, <3>1, <4>1, <4>4 DEF Promise
      <4> QED
        BY <1>7, <4>2, <4>3, <4>4
    <3>3. ASSUME NEW d \in PanelCalls, Promise(t, d), d.at = "sent",
                 (d.op = "save") # (c.op = "save")
          PROVE  Promise(t, d)'
      <4>1. CASE c.op = "save"
        <5>1. d.op = "goLive" \/ d.op = "set"
          BY <3>3, <4>1 DEF PanelCalls
        <5>2. bot.live = FALSE => bot'.live = FALSE
          BY <1>10, <4>1
        <5>3. CASE d.op = "goLive"
          BY <1>5, <3>3, <5>2, <5>3 DEF Promise
        <5>4. CASE d.op = "set"
          BY <1>5, <3>3, <5>2, <5>4 DEF Promise, DryIfShown
        <5> QED
          BY <5>1, <5>3, <5>4
      <4>2. CASE d.op = "save"
        BY <1>5, <1>10, <3>3, <4>2 DEF Promise
      <4> QED
        BY <3>3, <4>1, <4>2
    <3>4. c.op = "save" => (DryIfShown(t) => DryIfShown(t)')
      BY <1>5, <1>10 DEF DryIfShown
    <3> QED
      BY <1>3, <1>10, <3>2, <3>3, <3>4
  <2>2. keys' \in Shops
    BY <1>6, <1>7, <1>10
  <2>3. \A d \in PanelCalls : d = queue[t][1] => d = c
    BY <1>3
  <2> QED
    BY <1>2, <1>3, <1>5, <1>6, <1>10, <2>1, <2>2, Serves
<1>11. CASE PANEL!setBot(t)
  <2>1. CASE PANEL!Ends(t, "failed") /\ UNCHANGED <<bot, overtaken>>
    BY <1>3, <1>8, <1>11, <2>1 DEF PANEL!setBot, PANEL!Sent, PANEL!Head1
  <2>2. CASE PANEL!setBotState(PANEL!Head1(t)) /\ PANEL!Wrote(t) /\ PANEL!Ends(t, "ok")
    <3>1. bot' = [active |-> IF c.active = "keep" THEN bot.active ELSE c.active = "on",
                  live |-> IF c.live = "keep" THEN bot.live ELSE c.live = "on"]
      BY <1>3, <2>2 DEF PANEL!setBotState, PANEL!Field, PANEL!Head1
    <3>2. bot' \in [active : BOOLEAN, live : BOOLEAN]
      BY <1>6, <3>1
    <3> QED
      BY <1>3, <1>10, <1>11, <2>2, <3>1, <3>2
         DEF PANEL!setBot, PANEL!Sent, PANEL!Head1, PANEL!Wrote
  <2> QED
    BY <1>11, <2>1, <2>2 DEF PANEL!setBot
<1>12. CASE PANEL!goLive(t)
  <2>1. CASE PANEL!Ends(t, "failed") /\ UNCHANGED <<bot, overtaken>>
    BY <1>3, <1>8, <1>12, <2>1 DEF PANEL!goLive, PANEL!Sent, PANEL!Head1
  <2>2. CASE PANEL!setBotState(PANEL!Head1(t)) /\ PANEL!Wrote(t) /\ PANEL!Ends(t, "ok")
    <3>1. bot' = [active |-> IF c.active = "keep" THEN bot.active ELSE c.active = "on",
                  live |-> IF c.live = "keep" THEN bot.live ELSE c.live = "on"]
      BY <1>3, <2>2 DEF PANEL!setBotState, PANEL!Field, PANEL!Head1
    <3>2. bot' \in [active : BOOLEAN, live : BOOLEAN]
      BY <1>6, <3>1
    <3> QED
      BY <1>3, <1>10, <1>12, <2>2, <3>1, <3>2
         DEF PANEL!goLive, PANEL!Sent, PANEL!Head1, PANEL!Wrote
  <2> QED
    BY <1>12, <2>1, <2>2 DEF PANEL!goLive
<1>13. CASE PANEL!saveCredentials(t)
  <2>1. CASE PANEL!Ends(t, "failed") /\ UNCHANGED <<bot, keys, overtaken>>
    BY <1>3, <1>8, <1>13, <2>1 DEF PANEL!saveCredentials, PANEL!Sent, PANEL!Head1
  <2>2. CASE /\ bot' = PANEL!DropsLive(keys # "none" /\ keys # c.ex)
             /\ keys' = c.ex /\ PANEL!Wrote(t) /\ PANEL!Ends(t, "ok")
    <3>1. /\ bot' \in [active : BOOLEAN, live : BOOLEAN]
          /\ bot'.live = IF keys # "none" /\ keys # c.ex THEN FALSE ELSE bot.live
      BY <1>6, <2>2 DEF PANEL!DropsLive
    <3> QED
      BY <1>3, <1>10, <1>13, <2>2, <3>1
         DEF PANEL!saveCredentials, PANEL!Sent, PANEL!Head1, PANEL!Wrote
  <2> QED
    BY <1>3, <1>13, <2>1, <2>2 DEF PANEL!saveCredentials, PANEL!Head1
<1> QED
  BY <1>9, <1>11, <1>12, <1>13

\* A call leaves the queue: one for the bot leaves the switch right, one for
\* the keys leaves it alone, and either leaves the page's keys right.
LEMMA Returns ==
  ASSUME PanelInv, NEW t \in Pages, queue[t] # <<>>,
         queue' = [queue EXCEPT ![t] = Tail(@)],
         UNCHANGED <<bot, keys, runnable, overtaken>>,
         panel' \in [Pages -> [active : BOOLEAN, live : BOOLEAN,
                               confirming : BOOLEAN, phrase : BOOLEAN,
                               showForm : BOOLEAN, exchange : Shops]],
         props' \in [Pages -> [linked : Shops, canRun : BOOLEAN]],
         \A s \in Pages \ {t} : /\ panel'[s].live = panel[s].live
                                /\ props'[s].linked = props[s].linked,
         t \notin overtaken =>
           /\ queue[t][1].op # "save" => DryIfShown(t)'
           /\ queue[t][1].op = "save" => panel'[t].live = panel[t].live
           /\ \/ props'[t].linked = keys
              \/ props'[t].linked = props[t].linked /\ queue[t][1].at # "ok"
  PROVE  PanelInv'
<1>1. PanelTypes /\ \A s \in Pages \ overtaken : Kempt(s)
  BY DEF PanelInv
<1> DEFINE n == Len(queue[t])
<1>2. /\ queue' \in [Pages -> Seq(PanelCalls)]
      /\ \A s \in Pages \ {t} : queue'[s] = queue[s]
      /\ Len(queue'[t]) = n - 1
      /\ \A i \in 1 .. n - 1 : queue'[t][i] = queue[t][i + 1]
      /\ n \in Nat /\ n >= 1 /\ queue[t][1] \in PanelCalls
      /\ \A i \in 1 .. n : queue[t][i] \in PanelCalls
  BY <1>1, QueuePops, TabFields
<1> HIDE DEF n
<1>3. PanelTypes'
  BY <1>1, <1>2 DEF PanelTypes
<1>4. ASSUME NEW s \in Pages \ overtaken, s # t PROVE Kempt(s)'
  BY <1>1, <1>2, <1>4, KemptStays
<1>5. ASSUME t \notin overtaken PROVE Kempt(t)'
  <2>1. Kempt(t)
    BY <1>1, <1>5
  <2>2. PICK c \in PanelCalls : c = queue[t][1]
    BY <1>2
  <2>3. /\ \A i, j \in 1 .. n :
              (queue[t][i].op = "save") = (queue[t][j].op = "save") => i = j
        /\ \A i \in 1 .. n : i # 1 => queue[t][i].at = "sent"
    BY <2>1 DEF Kempt, Apart, n
  <2>4. \A i \in 1 .. n - 1 : i + 1 \in 1 .. n /\ i + 1 # 1
    BY <1>2
  <2>5. \A i \in 1 .. n - 1 : (queue'[t][i].op = "save") # (c.op = "save")
    <3>1. 1 \in 1 .. n
      BY <1>2
    <3> QED
      BY <1>2, <2>2, <2>3, <2>4, <3>1
  <2>6. Apart(t)'
    <3>1. \A i \in 1 .. n - 1 : queue'[t][i].at = "sent"
      BY <1>2, <2>3, <2>4
    <3>2. ASSUME NEW i \in 1 .. n - 1, NEW j \in 1 .. n - 1,
                 (queue'[t][i].op = "save") = (queue'[t][j].op = "save")
          PROVE  i = j
      <4>1. i + 1 = j + 1
        BY <1>2, <2>3, <2>4, <3>2
      <4> QED
        BY <1>2, <4>1
    <3> QED
      BY <1>2, <3>1, <3>2 DEF Apart
  <2>7. Rested(t)'
    <3>1. CASE c.op # "save"
      BY <1>5, <2>2, <3>1 DEF Rested
    <3>2. CASE c.op = "save"
      <4>1. ASSUME \A i \in 1 .. n - 1 : queue'[t][i].op = "save" PROVE DryIfShown(t)'
        <5>1. n - 1 = 0
          <6>1. \A i \in 1 .. n - 1 : FALSE
            BY <2>5, <3>2, <4>1
          <6>2. n - 1 # 0 => 1 \in 1 .. n - 1
            BY <1>2
          <6> QED
            BY <6>1, <6>2
        <5>2. \A i \in 1 .. n : queue[t][i].op = "save"
          BY <1>2, <2>2, <3>2, <5>1
        <5>3. DryIfShown(t)
          BY <2>1, <5>2 DEF Kempt, Rested, n
        <5> QED
          BY <1>5, <2>2, <3>2, <5>3 DEF DryIfShown
      <4> QED
        BY <1>2, <4>1 DEF Rested
    <3> QED
      BY <3>1, <3>2
  <2>8. Seen(t)'
    <3>1. CASE props'[t].linked = keys
      BY <3>1 DEF Seen
    <3>2. CASE props'[t].linked = props[t].linked /\ c.at # "ok"
      <4>1. \A i \in 1 .. n : queue[t][i].op = "save" => queue[t][i].at # "ok"
        BY <2>2, <2>3, <3>2
      <4> QED
        BY <2>1, <3>2, <4>1 DEF Kempt, Seen, n
    <3> QED
      BY <1>5, <2>2, <3>1, <3>2
  <2>9. ASSUME NEW d \in PanelCalls, Queued(t, d)' PROVE Promise(t, d)'
    <3>1. PICK i \in 1 .. n - 1 : queue'[t][i] = d
      BY <1>2, <2>9 DEF Queued
    <3>2. Promise(t, d)
      BY <1>2, <2>1, <2>4, <3>1 DEF Kempt, Queued, n
    <3>3. CASE c.op # "save"
      <4>1. d.op = "save"
        BY <2>5, <3>1, <3>3
      <4> QED
        BY <3>2, <4>1 DEF Promise
    <3>4. CASE c.op = "save"
      BY <1>5, <2>2, <3>2, <3>4 DEF Promise, DryIfShown
    <3> QED
      BY <3>3, <3>4
  <2> QED
    BY <2>6, <2>7, <2>8, <2>9 DEF Kempt
<1> QED
  BY <1>3, <1>4, <1>5 DEF PanelInv

\* The answer to a call, and its refusal.
LEMMA AnswersCorrect ==
  ASSUME PanelInv, NEW t \in Pages, PANEL!answer(t) \/ PANEL!failure(t)
  PROVE  PanelInv'
<1> DEFINE P == [active : BOOLEAN, live : BOOLEAN, confirming : BOOLEAN,
                 phrase : BOOLEAN, showForm : BOOLEAN, exchange : Shops]
<1> USE DEF PANEL!NoKeys, PANEL!NoPatch
<1>1. /\ PanelTypes /\ (t \notin overtaken => Kempt(t))
      /\ panel \in [Pages -> P] /\ panel[t] \in P
      /\ props \in [Pages -> [linked : Shops, canRun : BOOLEAN]]
      /\ keys \in Shops /\ runnable \in BOOLEAN
  BY TabFields DEF PanelInv, PanelTypes
<1>2. queue[t] # <<>>
  BY DEF PANEL!answer, PANEL!failure, PANEL!Active
<1>3. PICK c \in PanelCalls : c = queue[t][1]
  BY <1>1, <1>2, TabFields
<1>4. /\ c.op = "goLive" \/ c.op = "set" \/ c.op = "save"
      /\ c.prev \in [active : BOOLEAN, live : BOOLEAN]
  BY DEF PanelCalls
<1>5. t \notin overtaken => Promise(t, c)
  <2>1. Queued(t, c)
    <3>1. 1 \in 1 .. Len(queue[t])
      BY <1>1, <1>2, TabFields
    <3> QED
      BY <1>3, <3>1 DEF Queued
  <2> QED
    BY <1>1, <2>1 DEF Kempt
<1>6. CASE PANEL!answer(t)
  <2>1. /\ c.at = "ok"
        /\ panel' = [panel EXCEPT ![t] = PANEL!Answered(t, c)]
        /\ props' = [props EXCEPT ![t] = PANEL!Rendered]
        /\ queue' = [queue EXCEPT ![t] = Tail(@)]
        /\ UNCHANGED <<bot, keys, runnable, overtaken>>
    BY <1>3, <1>6 DEF PANEL!answer, PANEL!Head1
  <2>2. PANEL!Answered(t, c) \in P
    BY <1>1, <1>4 DEF PANEL!Answered
  <2>3. PANEL!Rendered \in [linked : Shops, canRun : BOOLEAN]
        /\ PANEL!Rendered.linked = keys
    BY <1>1 DEF PANEL!Rendered
  <2>4. /\ c.op = "goLive" => PANEL!Answered(t, c).live
        /\ c.op # "goLive" => PANEL!Answered(t, c).live = panel[t].live
    BY <1>1, <1>4 DEF PANEL!Answered
  <2>5. panel' \in [Pages -> P] /\ panel'[t] = PANEL!Answered(t, c)
        /\ \A s \in Pages \ {t} : panel'[s] = panel[s]
    BY <1>1, <2>1, <2>2
  <2>6. props' \in [Pages -> [linked : Shops, canRun : BOOLEAN]]
        /\ props'[t].linked = keys
        /\ \A s \in Pages \ {t} : props'[s] = props[s]
    BY <1>1, <2>1, <2>3
  <2>7. ASSUME t \notin overtaken, c.op # "save" PROVE DryIfShown(t)'
    <3>1. CASE c.op = "goLive"
      BY <2>4, <2>5, <3>1 DEF DryIfShown
    <3>2. CASE c.op = "set"
      BY <1>5, <2>1, <2>4, <2>5, <2>7, <3>2 DEF Promise, DryIfShown
    <3> QED
      BY <1>4, <2>7, <3>1, <3>2
  <2>8. c.op = "save" => panel'[t].live = panel[t].live
    BY <2>4, <2>5
  <2> QED
    BY <1>2, <1>3, <2>1, <2>5, <2>6, <2>7, <2>8, Returns
<1>7. CASE PANEL!failure(t)
  <2>1. /\ c.at = "failed"
        /\ panel' = [panel EXCEPT ![t] = PANEL!Reverted(t, c)]
        /\ queue' = [queue EXCEPT ![t] = Tail(@)]
        /\ UNCHANGED <<bot, keys, runnable, props, overtaken>>
    BY <1>3, <1>7 DEF PANEL!failure, PANEL!Head1
  <2>2. PANEL!Reverted(t, c) \in P
    BY <1>1, <1>4 DEF PANEL!Reverted
  <2>3. /\ c.op = "set" => PANEL!Reverted(t, c).live = c.prev.live
        /\ c.op # "set" => PANEL!Reverted(t, c).live = panel[t].live
    BY <1>1, <1>4 DEF PANEL!Reverted
  <2>4. panel' \in [Pages -> P] /\ panel'[t] = PANEL!Reverted(t, c)
        /\ \A s \in Pages \ {t} : panel'[s] = panel[s]
    BY <1>1, <2>1, <2>2
  <2>5. ASSUME t \notin overtaken, c.op # "save" PROVE DryIfShown(t)'
    <3>1. CASE c.op = "goLive"
      BY <1>5, <2>1, <2>3, <2>4, <2>5, <3>1 DEF Promise, DryIfShown
    <3>2. CASE c.op = "set"
      BY <1>5, <2>1, <2>3, <2>4, <2>5, <3>2 DEF Promise, DryIfShown
    <3> QED
      BY <1>4, <2>5, <3>1, <3>2
  <2>6. c.op = "save" => panel'[t].live = panel[t].live
    BY <2>3, <2>4
  <2> QED
    BY <1>1, <1>2, <1>3, <2>1, <2>4, <2>5, <2>6, Returns
<1> QED
  BY <1>6, <1>7

\* A tab that is opened anew, the owner's kill switch and the strategies page.
LEMMA OthersCorrect ==
  ASSUME PanelInv,
         \/ PANEL!adminDisableBot \/ PANEL!strategiesChange
         \/ \E t \in Pages : PANEL!reload(t)
  PROVE  PanelInv'
<1>1. PanelTypes /\ \A s \in Pages \ overtaken : Kempt(s)
  BY DEF PanelInv
<1>2. CASE PANEL!adminDisableBot
  <2>1. PanelTypes' /\ overtaken' = Pages
    BY <1>1, <1>2 DEF PANEL!adminDisableBot, PanelTypes
  <2>2. ASSUME NEW s \in Pages \ overtaken' PROVE Kempt(s)'
    BY <2>1, <2>2
  <2> QED
    BY <2>1, <2>2 DEF PanelInv
<1>3. CASE PANEL!strategiesChange
  <2>1. PanelTypes'
    BY <1>1, <1>3 DEF PANEL!strategiesChange, PanelTypes
  <2>2. ASSUME NEW s \in Pages \ overtaken PROVE Kempt(s)'
    BY <1>1, <1>3, KemptStays DEF PANEL!strategiesChange
  <2> QED
    BY <1>3, <2>1, <2>2 DEF PANEL!strategiesChange, PanelInv
<1>4. ASSUME NEW t \in Pages, PANEL!reload(t) PROVE PanelInv'
  <2>1. /\ PANEL!Rendered \in [linked : Shops, canRun : BOOLEAN]
        /\ PANEL!Mounted \in [active : BOOLEAN, live : BOOLEAN, confirming : BOOLEAN,
                              phrase : BOOLEAN, showForm : BOOLEAN, exchange : Shops]
    BY <1>1 DEF PANEL!Rendered, PANEL!Mounted, PanelTypes, Shops
  <2>2. PanelTypes'
    BY <1>1, <1>4, <2>1 DEF PANEL!reload, PanelTypes
  <2>3. ASSUME NEW s \in Pages \ overtaken, s # t PROVE Kempt(s)'
    BY <1>1, <1>4, <2>3, KemptStays DEF PANEL!reload, PanelTypes
  <2>4. Kempt(t)'
    <3>1. queue'[t] = <<>> /\ panel'[t].live = bot'.live /\ props'[t].linked = keys'
      BY <1>1, <1>4 DEF PANEL!reload, PANEL!Mounted, PANEL!Rendered, PanelTypes
    <3>2. Len(queue'[t]) = 0
      BY <3>1
    <3> QED
      BY <3>1, <3>2 DEF Kempt, Queued, Apart, Rested, Seen, DryIfShown
  <2>5. ASSUME NEW s \in Pages \ overtaken' PROVE Kempt(s)'
    BY <1>4, <2>3, <2>4, <2>5 DEF PANEL!reload
  <2> QED
    BY <2>2, <2>5 DEF PanelInv
<1> QED
  BY <1>2, <1>3, <1>4

\* Every step of the page keeps the invariant.
LEMMA PanelSteps == PanelInv /\ [PANEL!PanelNext]_panelVars => PanelInv'
<1>1. ASSUME PanelInv, PANEL!PanelNext PROVE PanelInv'
  BY <1>1, OthersCorrect, DialogsCorrect, PressesCorrect, ServerCorrect,
     AnswersCorrect DEF PANEL!PanelNext
<1>2. ASSUME PanelInv, UNCHANGED panelVars PROVE PanelInv'
  <2>1. PanelTypes'
    BY <1>2 DEF panelVars, PanelInv, PanelTypes
  <2>2. ASSUME NEW s \in Pages \ overtaken PROVE Kempt(s)'
    BY <1>2, KemptStays DEF panelVars, PanelInv
  <2> QED
    BY <1>2, <2>1, <2>2 DEF panelVars, PanelInv
<1> QED
  BY <1>1, <1>2

\* The invariant of the account page among the machines of the run.
THEOREM PanelInvariant == ScreensSpec => []PanelInv
<1>1. ScreensInit => PanelInv
  BY PanelStarts DEF ScreensInit
<1>2. PanelInv /\ [ScreensNext]_screensVars => PanelInv'
  <2>1. [ScreensNext]_screensVars => [PANEL!PanelNext]_panelVars
    BY DEF ScreensNext, screensVars
  <2> QED
    BY <2>1, PanelSteps
<1> QED
  BY <1>1, <1>2, PTL DEF ScreensSpec

\* For any number of tabs, presses and lost replies: a page that says DRY_RUN
\* with nothing in flight is right, unless another actor has overtaken it, and
\* so is its message that a switch of exchange ended live trading.
THEOREM DryMeansDryCorrect == ScreensSpec => []DryMeansDry
<1>1. ASSUME PanelInv, NEW t \in Pages \ overtaken
      PROVE  /\ queue[t] = <<>> /\ ~panel[t].live => ~bot.live
             /\ PANEL!Active(t) /\ PANEL!Head1(t).at = "ok" /\ PANEL!Head1(t).switching
                  => ~bot.live
  <2>1. Kempt(t) /\ PanelTypes
    BY <1>1 DEF PanelInv
  <2>2. queue[t] = <<>> => Len(queue[t]) = 0
    OBVIOUS
  <2>3. queue[t] = <<>> /\ ~panel[t].live => ~bot.live
    BY <2>1, <2>2 DEF Kempt, Rested, DryIfShown
  <2>4. ASSUME queue[t] # <<>>, queue[t][1].at = "ok", queue[t][1].switching
        PROVE  ~bot.live
    <3>1. PICK c \in PanelCalls : c = queue[t][1]
      BY <2>1, <2>4, TabFields
    <3>2. Queued(t, c)
      <4>1. 1 \in 1 .. Len(queue[t])
        BY <2>1, <2>4, TabFields
      <4> QED
        BY <3>1, <4>1 DEF Queued
    <3>3. Promise(t, c)
      BY <2>1, <3>2 DEF Kempt
    <3>4. CASE c.op = "save"
      BY <2>4, <3>1, <3>3, <3>4 DEF Promise
    <3>5. CASE c.op = "goLive" \/ c.op = "set"
      BY <2>4, <3>1, <3>3, <3>5 DEF Promise
    <3> QED
      BY <3>4, <3>5 DEF PanelCalls
  <2> QED
    BY <2>3, <2>4 DEF PANEL!Active, PANEL!Head1
<1>2. PanelInv => DryMeansDry
  BY <1>1 DEF DryMeansDry, PANEL!DryMeansDry, PANEL!SwitchedMeansDry
<1> QED
  BY <1>2, PanelInvariant, PTL
-----------------------------------------------------------------------------
(***************************************************************************)
(* The settings page in any number of tabs.  Whatever the calls of other   *)
(* tabs overwrite, the row keeps its alert and its chat together, because  *)
(* every row that was ever read had them together.  In a tab nobody has    *)
(* overtaken, each call keeps a pledge about what is shown and stored      *)
(* (Pledge) from the click to the answer, and no call ever meets a column  *)
(* that is missing, because the page that sent it has read that column.    *)
(***************************************************************************)

Queries == {"prefs", "currency", "window", "short"}

Paired(row) == row.telegram <=> row.chat # SETTINGS!NoChat

PrefRow == {r \in SETTINGS!SettingsRow : Paired(r)}

\* The switches of the page that show what is not stored yet.
Flips == {"email", "short"}

PrefCalls ==
  {c \in [op : SETTINGS!Notification \cup SETTINGS!LateColumns,
          val : BOOLEAN \cup Chats \cup {SETTINGS!NoChat} \cup Currencies \cup Timelines,
          prev : BOOLEAN \cup {SETTINGS!NoChat} \cup Currencies \cup Timelines,
          at : {"queued", "write", "test", "ok", "failed"}, cur : PrefRow] :
     /\ c.op \in Flips => c.val \in BOOLEAN /\ c.prev \in BOOLEAN
     /\ c.op = "connect"  => c.val \in Chats \ {SETTINGS!NoChat}
     /\ c.op = "currency" => c.val \in Currencies /\ c.prev \in Currencies
     /\ c.op = "window"   => c.val \in Timelines /\ c.prev \in Timelines
     /\ c.at = "write" => c.op \in SETTINGS!Notification
     /\ c.at = "test"  => c.op = "connect"}

PrefTypes ==
  /\ lacking \subseteq SETTINGS!PREFS_DDL
  /\ stored \in PrefRow /\ shown \in [Tabs -> SETTINGS!SettingsRow]
  /\ page \in [Tabs -> {"closed", "settings", "dashboard"}]
  /\ reads \in [Tabs -> [Queries -> {"try", "repair", "retry", "missed", "duplicate", "ok"}]]
  /\ draft \in [Tabs -> Chats \cup {SETTINGS!NoChat}]
  /\ clicked \in [Tabs -> Seq(PrefCalls)]
  /\ behind \subseteq Tabs

\* What the page has read, or has just repaired, is there.
Healed(t) ==
  page[t] # "closed" =>
    /\ \A q \in Queries \ SETTINGS!QueriesOf(page[t]) : reads[t][q] = "ok"
    /\ \A q \in SETTINGS!QueriesOf(page[t]) :
         /\ reads[t][q] # "missed"
         /\ reads[t][q] \in {"ok", "retry"} => SETTINGS!Needs(q) \cap lacking = {}

\* Calls wait in line behind the first, on a page that has loaded.
InLine(t) ==
  /\ \A i \in 1 .. Len(clicked[t]) : i # 1 => clicked[t][i].at = "queued"
  /\ clicked[t] # <<>> => page[t] # "closed" /\ SETTINGS!Loaded(t)
  /\ \A i \in 1 .. Len(clicked[t]) : clicked[t][i].op \in SETTINGS!LateColumns =>
       clicked[t][i].op \in SETTINGS!QueriesOf(page[t])

Clicks(t, op)  == \E i \in 1 .. Len(clicked[t]) : clicked[t][i].op = op
Clicked(t, c)  == \E i \in 1 .. Len(clicked[t]) : clicked[t][i] = c
Landed(c)      == c.op \in {"connect", "remove"} /\ c.at \in {"test", "ok"}

FlipShown(t, f) == ~Clicks(t, f) => shown[t][f] = stored[f]
ChatShown(t) ==
  (\A i \in 1 .. Len(clicked[t]) : ~Landed(clicked[t][i])) =>
     shown[t].telegram = stored.telegram /\ shown[t].chat = stored.chat

\* What a call says, from the click to the answer, of the tab that sent it.
Pledge(t, c) ==
  /\ c.at = "write" => /\ c.cur.email = stored.email /\ c.cur.telegram = stored.telegram
                       /\ c.cur.chat = stored.chat
  /\ c.op \in Flips => /\ shown[t][c.op] = c.val
                       /\ c.at = "ok" => stored[c.op] = c.val
                       /\ c.at # "ok" => stored[c.op] = c.prev
  /\ Landed(c) => /\ c.op = "connect" => stored.chat = c.val /\ stored.telegram = TRUE
                  /\ c.op = "remove"  => stored.chat = SETTINGS!NoChat
                                         /\ stored.telegram = FALSE

Settled(t) ==
  page[t] = "settings" =>
    /\ \A i, j \in 1 .. Len(clicked[t]) :
         clicked[t][i].op = clicked[t][j].op /\ clicked[t][i].op \in Flips => i = j
    /\ reads[t]["prefs"] = "ok" => FlipShown(t, "email") /\ ChatShown(t)
    /\ reads[t]["short"] = "ok" => FlipShown(t, "short")
    /\ \A c \in PrefCalls : Clicked(t, c) => Pledge(t, c)

TabInv(t)   == Healed(t) /\ InLine(t) /\ (t \notin behind => Settled(t))
SettingsInv == PrefTypes /\ \A t \in Tabs : TabInv(t)

\* The defaults are a row with an alert that has no chat, and is off.
LEMMA DefaultRow == SETTINGS!DEFAULT_PREFS \in PrefRow
<1>1. "INR" \in Currencies /\ "1d" \in Timelines
  BY ScreensAssumption DEF Timelines
<1> QED
  BY <1>1 DEF SETTINGS!DEFAULT_PREFS, PrefRow, SETTINGS!SettingsRow, Paired, SETTINGS!NoChat

\* No page is open at first.
LEMMA SettingsStarts == SETTINGS!SettingsInit => SettingsInv
<1> SUFFICES ASSUME SETTINGS!SettingsInit PROVE SettingsInv
  OBVIOUS
<1> USE DEF SETTINGS!SettingsInit
<1>1. PrefTypes
  <2>1. clicked \in [Tabs -> Seq(PrefCalls)]
    OBVIOUS
  <2>2. lacking \subseteq SETTINGS!PREFS_DDL
    BY DEF Schemas, SETTINGS!PREFS_DDL, SETTINGS!LateColumns
  <2>3. stored \in PrefRow /\ shown \in [Tabs -> SETTINGS!SettingsRow]
    BY DefaultRow DEF PrefRow
  <2>4. reads \in [Tabs -> [Queries -> {"try", "repair", "retry", "missed", "duplicate", "ok"}]]
    BY DEF Queries, SETTINGS!LateColumns
  <2> QED
    BY <2>1, <2>2, <2>3, <2>4 DEF PrefTypes, SETTINGS!NoChat
<1>2. ASSUME NEW t \in Tabs PROVE TabInv(t)
  <2>1. clicked[t] = <<>> /\ Len(clicked[t]) = 0 /\ page[t] = "closed"
    OBVIOUS
  <2> QED
    BY <2>1 DEF TabInv, Healed, InLine, Settled
<1> QED
  BY <1>1, <1>2 DEF SettingsInv

\* What belongs to a tab, read off the types.
LEMMA PrefFields ==
  ASSUME PrefTypes, NEW t \in Tabs
  PROVE  /\ shown[t] \in SETTINGS!SettingsRow /\ stored \in SETTINGS!SettingsRow
         /\ page[t] \in {"closed", "settings", "dashboard"}
         /\ reads[t] \in [Queries -> {"try", "repair", "retry", "missed", "duplicate", "ok"}]
         /\ draft[t] \in Chats \cup {SETTINGS!NoChat}
         /\ clicked[t] \in Seq(PrefCalls) /\ Len(clicked[t]) \in Nat
         /\ DOMAIN clicked[t] = 1 .. Len(clicked[t])
         /\ \A i \in 1 .. Len(clicked[t]) : clicked[t][i] \in PrefCalls
         /\ clicked[t] # <<>> => Len(clicked[t]) >= 1 /\ clicked[t][1] \in PrefCalls
BY DEF PrefTypes, PrefRow

\* A tab that nobody touches stays in order, unless the row was written: then
\* it counts as overtaken.
LEMMA TabStays ==
  ASSUME NEW s, TabInv(s), lacking' \subseteq lacking,
         page'[s] = page[s], reads'[s] = reads[s], shown'[s] = shown[s],
         clicked'[s] = clicked[s],
         s \notin behind' => s \notin behind /\ UNCHANGED stored
  PROVE  TabInv(s)'
<1>1. Healed(s)' /\ InLine(s)'
  BY DEF TabInv, Healed, InLine, SETTINGS!Loaded, SETTINGS!QueriesOf, SETTINGS!Needs,
     SETTINGS!LateColumns
<1>2. ASSUME s \notin behind' PROVE Settled(s)'
  <2>1. Settled(s) /\ UNCHANGED stored
    BY <1>2 DEF TabInv
  <2>2. /\ Clicks(s, "email")' <=> Clicks(s, "email")
        /\ Clicks(s, "short")' <=> Clicks(s, "short")
        /\ \A c : Clicked(s, c)' <=> Clicked(s, c)
    BY DEF Clicks, Clicked
  <2>3. /\ FlipShown(s, "email")' <=> FlipShown(s, "email")
        /\ FlipShown(s, "short")' <=> FlipShown(s, "short")
        /\ ChatShown(s)' <=> ChatShown(s)
    BY <2>1, <2>2 DEF FlipShown, ChatShown
  <2>4. \A c : Pledge(s, c)' <=> Pledge(s, c)
    BY <2>1 DEF Pledge
  <2> QED
    BY <2>1, <2>2, <2>3, <2>4 DEF Settled
<1> QED
  BY <1>1, <1>2 DEF TabInv

\* A step of tab t: its own part, and a row that may have changed under others.
LEMMA TabMoves ==
  ASSUME SettingsInv, NEW t \in Tabs, PrefTypes', lacking' \subseteq lacking,
         \A s \in Tabs \ {t} :
           /\ page'[s] = page[s] /\ reads'[s] = reads[s] /\ shown'[s] = shown[s]
           /\ clicked'[s] = clicked[s]
           /\ s \notin behind' => s \notin behind /\ UNCHANGED stored,
         TabInv(t)'
  PROVE  SettingsInv'
<1>1. ASSUME NEW s \in Tabs, s # t PROVE TabInv(s)'
  BY <1>1, TabStays DEF SettingsInv
<1> QED
  BY <1>1 DEF SettingsInv

\* A press: the call joins the line, and a switch shows at once what it asks.
LEMMA PressJoins ==
  ASSUME SettingsInv, NEW t \in Tabs, NEW c \in PrefCalls,
         clicked' = [clicked EXCEPT ![t] = Append(@, c)],
         UNCHANGED <<lacking, stored, page, reads, behind>>,
         draft' \in [Tabs -> Chats \cup {SETTINGS!NoChat}],
         page[t] # "closed", SETTINGS!Loaded(t), c.at = "queued",
         c.op \in SETTINGS!LateColumns => c.op \in SETTINGS!QueriesOf(page[t]),
         shown' \in [Tabs -> SETTINGS!SettingsRow],
         \A s \in Tabs \ {t} : shown'[s] = shown[s],
         \A f \in {"email", "telegram", "chat", "short"} :
           f = c.op \/ shown'[t][f] = shown[t][f],
         c.op \in Flips => /\ shown'[t][c.op] = c.val /\ shown[t][c.op] = c.prev
                           /\ page[t] = "settings" /\ ~Clicks(t, c.op)
  PROVE  SettingsInv'
<1>1. PrefTypes /\ TabInv(t) /\ clicked[t] \in Seq(PrefCalls) /\ Len(clicked[t]) \in Nat
      /\ \A i \in 1 .. Len(clicked[t]) : clicked[t][i] \in PrefCalls
  BY PrefFields DEF SettingsInv
<1> DEFINE n == Len(clicked[t])
<1>2. /\ clicked' \in [Tabs -> Seq(PrefCalls)]
      /\ \A s \in Tabs \ {t} : clicked'[s] = clicked[s]
      /\ Len(clicked'[t]) = n + 1
      /\ \A i \in 1 .. n : clicked'[t][i] = clicked[t][i]
      /\ clicked'[t][n + 1] = c
  <2>1. clicked \in [Tabs -> Seq(PrefCalls)]
    BY <1>1 DEF PrefTypes
  <2>2. clicked'[t] = Append(clicked[t], c) /\ Append(clicked[t], c) \in Seq(PrefCalls)
    BY <1>1, <2>1
  <2> QED
    BY <1>1, <2>1, <2>2
<1>3. n \in Nat /\ \A i \in 1 .. n + 1 : i \in 1 .. n \/ i = n + 1
  BY <1>1
<1> HIDE DEF n
<1>4. PrefTypes'
  BY <1>1, <1>2 DEF PrefTypes
<1>5. Healed(t)'
  BY <1>1 DEF TabInv, Healed, SETTINGS!QueriesOf, SETTINGS!Needs, SETTINGS!LateColumns
<1>6. InLine(t)'
  <2>1. \A i \in 1 .. n : /\ i # 1 => clicked[t][i].at = "queued"
                          /\ clicked[t][i].op \in SETTINGS!LateColumns =>
                               clicked[t][i].op \in SETTINGS!QueriesOf(page[t])
    BY <1>1 DEF TabInv, InLine, n
  <2>2. \A i \in 1 .. n + 1 : /\ i # 1 => clicked'[t][i].at = "queued"
                              /\ clicked'[t][i].op \in SETTINGS!LateColumns =>
                                   clicked'[t][i].op \in SETTINGS!QueriesOf(page[t])
    BY <1>2, <1>3, <2>1
  <2>3. SETTINGS!Loaded(t)'
    BY DEF SETTINGS!Loaded, SETTINGS!QueriesOf
  <2> QED
    BY <1>2, <2>2, <2>3 DEF InLine, SETTINGS!QueriesOf, SETTINGS!LateColumns
<1>7. ASSUME t \notin behind', page[t] = "settings" PROVE Settled(t)'
  <2>1. Settled(t)
    BY <1>1, <1>7 DEF TabInv
  <2>2. reads[t]["prefs"] = "ok" /\ reads[t]["short"] = "ok"
    BY <1>7 DEF SETTINGS!Loaded, SETTINGS!QueriesOf
  <2>3. /\ \A i, j \in 1 .. n :
             clicked[t][i].op = clicked[t][j].op /\ clicked[t][i].op \in Flips => i = j
        /\ FlipShown(t, "email") /\ ChatShown(t) /\ FlipShown(t, "short")
        /\ \A d \in PrefCalls : Clicked(t, d) => Pledge(t, d)
    BY <1>7, <2>1, <2>2 DEF Settled, n
  <2>4. c.op \in Flips => \A i \in 1 .. n : clicked[t][i].op # c.op
    BY DEF Clicks, n
  <2>5. ASSUME NEW i \in 1 .. n + 1, NEW j \in 1 .. n + 1,
               clicked'[t][i].op = clicked'[t][j].op, clicked'[t][i].op \in Flips
        PROVE  i = j
    <3>1. CASE i \in 1 .. n /\ j \in 1 .. n
      BY <1>2, <2>3, <2>5, <3>1
    <3>2. CASE i \in 1 .. n /\ j = n + 1
      BY <1>2, <2>4, <2>5, <3>2
    <3>3. CASE i = n + 1 /\ j \in 1 .. n
      BY <1>2, <2>4, <2>5, <3>3
    <3> QED
      BY <1>3, <3>1, <3>2, <3>3
  <2>6. ASSUME NEW f \in Flips PROVE FlipShown(t, f)'
    <3>1. ASSUME ~Clicks(t, f)' PROVE shown'[t][f] = stored'[f]
      <4>1. \A i \in 1 .. n + 1 : clicked'[t][i].op # f
        BY <1>2, <3>1 DEF Clicks
      <4>2. n + 1 \in 1 .. n + 1 /\ \A i \in 1 .. n : i \in 1 .. n + 1
        BY <1>3
      <4>3. c.op # f /\ ~Clicks(t, f)
        BY <1>2, <4>1, <4>2 DEF Clicks, n
      <4>4. shown[t][f] = stored[f]
        BY <2>3, <4>3 DEF FlipShown, Flips
      <4> QED
        BY <4>3, <4>4 DEF Flips
    <3> QED
      BY <3>1 DEF FlipShown
  <2>7. ChatShown(t)'
    <3>1. ASSUME \A i \in 1 .. n + 1 : ~Landed(clicked'[t][i])
          PROVE  \A i \in 1 .. n : ~Landed(clicked[t][i])
      BY <1>2, <1>3, <3>1
    <3>2. /\ c.op \notin {"telegram", "chat"}
          /\ shown'[t].telegram = shown[t].telegram /\ shown'[t].chat = shown[t].chat
      BY DEF PrefCalls, SETTINGS!Notification, SETTINGS!LateColumns
    <3> QED
      BY <1>2, <2>3, <3>1, <3>2 DEF ChatShown, Landed, n
  <2>8. ASSUME NEW d \in PrefCalls, Clicked(t, d)' PROVE Pledge(t, d)'
    <3>1. CASE d = c
      <4>1. c.at = "queued" /\ stored' = stored
        OBVIOUS
      <4>2. c.op \in Flips => shown'[t][c.op] = c.val /\ stored[c.op] = c.prev
        BY <2>4, <2>3 DEF FlipShown, Clicks, Flips, n
      <4>3. Pledge(t, c)'
        BY <4>1, <4>2 DEF Pledge, Landed
      <4> QED
        BY <3>1, <4>3
    <3>2. CASE d # c
      <4>1. PICK i \in 1 .. n + 1 : clicked'[t][i] = d
        BY <1>2, <2>8 DEF Clicked
      <4>2. i \in 1 .. n /\ clicked[t][i] = d
        BY <1>2, <1>3, <3>2, <4>1
      <4>3. Pledge(t, d)
        BY <2>3, <4>2 DEF Clicked, n
      <4>4. d.op \in Flips => shown'[t][d.op] = shown[t][d.op]
        <5>1. d.op \in Flips => d.op # c.op
          BY <2>4, <4>2
        <5> QED
          BY <5>1 DEF Flips
      <4> QED
        BY <4>3, <4>4 DEF Pledge, Landed
    <3> QED
      BY <3>1, <3>2
  <2> QED
    BY <1>2, <2>5, <2>6, <2>7, <2>8 DEF Settled, Flips
<1>8. TabInv(t)'
  BY <1>5, <1>6, <1>7 DEF TabInv, Settled
<1> QED
  BY <1>2, <1>4, <1>8, TabMoves

\* The first call of a tab gets on, and writes the row or not; whoever else
\* has a page open is then overtaken.
LEMMA HeadMoves ==
  ASSUME SettingsInv, NEW t \in Tabs, clicked[t] # <<>>,
         NEW h \in PrefCalls, h = clicked[t][1], NEW d \in PrefCalls, d.op = h.op,
         clicked' = [clicked EXCEPT ![t] = [clicked[t] EXCEPT ![1] = d]],
         UNCHANGED <<lacking, page, reads, shown, draft>>,
         stored' \in PrefRow, behind \subseteq behind', behind' \subseteq Tabs,
         UNCHANGED stored \/ Tabs \ {t} \subseteq behind',
         t \notin behind' /\ page[t] = "settings" /\ Pledge(t, h) =>
           /\ Pledge(t, d)'
           /\ \A f \in Flips \ {h.op} : stored'[f] = stored[f]
           /\ \/ Landed(d)
              \/ /\ ~Landed(h) /\ stored'.telegram = stored.telegram
                 /\ stored'.chat = stored.chat
  PROVE  SettingsInv'
<1>1. /\ PrefTypes /\ TabInv(t) /\ clicked[t] \in Seq(PrefCalls)
      /\ Len(clicked[t]) \in Nat /\ Len(clicked[t]) >= 1
  BY PrefFields DEF SettingsInv
<1> DEFINE n == Len(clicked[t])
<1>2. /\ clicked' \in [Tabs -> Seq(PrefCalls)]
      /\ \A s \in Tabs \ {t} : clicked'[s] = clicked[s]
      /\ Len(clicked'[t]) = n
      /\ \A i \in 2 .. n : clicked'[t][i] = clicked[t][i]
      /\ clicked'[t][1] = d
  <2>1. clicked \in [Tabs -> Seq(PrefCalls)]
    BY <1>1 DEF PrefTypes
  <2>2. clicked'[t] = [clicked[t] EXCEPT ![1] = d] /\ 1 \in 1 .. Len(clicked[t])
    BY <1>1, <2>1
  <2>3. /\ clicked'[t] \in Seq(PrefCalls) /\ Len(clicked'[t]) = n
        /\ \A i \in 2 .. n : clicked'[t][i] = clicked[t][i]
        /\ clicked'[t][1] = d
    BY <1>1, <2>2, ExceptSeq
  <2> QED
    BY <2>1, <2>3
<1>3. n \in Nat /\ 1 \in 1 .. n /\ \A i \in 1 .. n : i = 1 \/ (i \in 2 .. n /\ i # 1)
  BY <1>1
<1> HIDE DEF n
<1>4. \A i \in 1 .. n : clicked'[t][i].op = clicked[t][i].op
  BY <1>2, <1>3
<1>5. PrefTypes'
  BY <1>1, <1>2 DEF PrefTypes
<1>6. Healed(t)'
  BY <1>1 DEF TabInv, Healed, SETTINGS!QueriesOf, SETTINGS!Needs, SETTINGS!LateColumns
<1>7. InLine(t)'
  <2>1. \A i \in 1 .. n : /\ i # 1 => clicked[t][i].at = "queued"
                          /\ clicked[t][i].op \in SETTINGS!LateColumns =>
                               clicked[t][i].op \in SETTINGS!QueriesOf(page[t])
    BY <1>1 DEF TabInv, InLine, n
  <2>2. \A i \in 1 .. n : /\ i # 1 => clicked'[t][i].at = "queued"
                          /\ clicked'[t][i].op \in SETTINGS!LateColumns =>
                               clicked'[t][i].op \in SETTINGS!QueriesOf(page[t])
    BY <1>2, <1>3, <1>4, <2>1
  <2>3. SETTINGS!Loaded(t)' /\ page'[t] # "closed"
    BY <1>1 DEF TabInv, InLine, SETTINGS!Loaded, SETTINGS!QueriesOf
  <2> QED
    BY <1>2, <2>2, <2>3 DEF InLine, SETTINGS!QueriesOf, SETTINGS!LateColumns
<1>8. ASSUME t \notin behind', page[t] = "settings" PROVE Settled(t)'
  <2>1. Settled(t)
    BY <1>1, <1>8 DEF TabInv
  <2>2. reads[t]["prefs"] = "ok" /\ reads[t]["short"] = "ok"
    BY <1>1, <1>8 DEF TabInv, InLine, SETTINGS!Loaded, SETTINGS!QueriesOf
  <2>3. /\ \A i, j \in 1 .. n :
             clicked[t][i].op = clicked[t][j].op /\ clicked[t][i].op \in Flips => i = j
        /\ FlipShown(t, "email") /\ ChatShown(t) /\ FlipShown(t, "short")
        /\ \A e \in PrefCalls : Clicked(t, e) => Pledge(t, e)
    BY <1>8, <2>1, <2>2 DEF Settled, n
  <2>4. Pledge(t, h)
    BY <1>3, <2>3 DEF Clicked, n
  <2>5. /\ Pledge(t, d)'
        /\ \A f \in Flips \ {h.op} : stored'[f] = stored[f]
        /\ \/ Landed(d)
           \/ /\ ~Landed(h) /\ stored'.telegram = stored.telegram
              /\ stored'.chat = stored.chat
    BY <1>8, <2>4
  <2>6. ASSUME NEW f \in Flips PROVE FlipShown(t, f)'
    <3>1. ASSUME ~Clicks(t, f)' PROVE shown'[t][f] = stored'[f]
      <4>1. ~Clicks(t, f) /\ h.op # f
        BY <1>2, <1>3, <1>4, <3>1 DEF Clicks, n
      <4>2. shown[t][f] = stored[f]
        BY <2>3, <4>1 DEF FlipShown, Flips
      <4> QED
        BY <2>5, <4>1, <4>2
    <3> QED
      BY <3>1 DEF FlipShown
  <2>7. ChatShown(t)'
    <3>1. ASSUME \A i \in 1 .. n : ~Landed(clicked'[t][i])
          PROVE  /\ ~Landed(d) /\ \A i \in 1 .. n : ~Landed(clicked[t][i])
      <4>1. ~Landed(d)
        BY <1>2, <1>3, <3>1
      <4>2. ~Landed(clicked[t][1])
        BY <2>5, <4>1
      <4> QED
        BY <1>2, <1>3, <3>1, <4>1, <4>2
    <3> QED
      BY <1>2, <2>3, <2>5, <3>1 DEF ChatShown, Landed, n
  <2>8. ASSUME NEW e \in PrefCalls, Clicked(t, e)' PROVE Pledge(t, e)'
    <3>1. PICK i \in 1 .. n : clicked'[t][i] = e
      BY <1>2, <2>8 DEF Clicked
    <3>2. CASE i = 1
      BY <1>2, <2>5, <3>1, <3>2
    <3>3. CASE i # 1
      <4>1. clicked[t][i] = e /\ e.at = "queued"
        <5>1. clicked[t][i] = e
          BY <1>2, <1>3, <3>1, <3>3
        <5> QED
          BY <1>1, <3>1, <3>3, <5>1 DEF TabInv, InLine, n
      <4>2. Pledge(t, e)
        BY <2>3, <3>1, <4>1 DEF Clicked, n
      <4>3. e.op \in Flips => e.op # h.op
        BY <1>3, <2>3, <3>1, <3>3, <4>1
      <4>4. e.op \in Flips => stored'[e.op] = stored[e.op] /\ shown'[t] = shown[t]
        BY <2>5, <4>3
      <4> QED
        BY <4>1, <4>2, <4>4 DEF Pledge, Landed
    <3> QED
      BY <3>2, <3>3
  <2>9. \A i, j \in 1 .. n :
          clicked'[t][i].op = clicked'[t][j].op /\ clicked'[t][i].op \in Flips => i = j
    BY <1>4, <2>3
  <2> QED
    BY <1>2, <2>6, <2>7, <2>8, <2>9 DEF Settled, Flips
<1>9. TabInv(t)'
  BY <1>6, <1>7, <1>8 DEF TabInv, Settled
<1> QED
  BY <1>2, <1>5, <1>9, TabMoves

\* The first call of a tab comes back: what it touched is then as stored.
LEMMA HeadReturns ==
  ASSUME SettingsInv, NEW t \in Tabs, clicked[t] # <<>>,
         NEW h \in PrefCalls, h = clicked[t][1],
         clicked' = [clicked EXCEPT ![t] = Tail(@)],
         UNCHANGED <<lacking, stored, page, reads, behind>>,
         draft' \in [Tabs -> Chats \cup {SETTINGS!NoChat}],
         shown' \in [Tabs -> SETTINGS!SettingsRow],
         \A s \in Tabs \ {t} : shown'[s] = shown[s],
         \A f \in Flips \ {h.op} : shown'[t][f] = shown[t][f],
         t \notin behind /\ page[t] = "settings" /\ Pledge(t, h) =>
           /\ h.op \in Flips => shown'[t][h.op] = stored[h.op]
           /\ \/ shown'[t].telegram = stored.telegram /\ shown'[t].chat = stored.chat
              \/ /\ ~Landed(h) /\ shown'[t].telegram = shown[t].telegram
                 /\ shown'[t].chat = shown[t].chat
  PROVE  SettingsInv'
<1>1. /\ PrefTypes /\ TabInv(t) /\ clicked[t] \in Seq(PrefCalls)
      /\ Len(clicked[t]) \in Nat /\ Len(clicked[t]) >= 1
      /\ \A i \in 1 .. Len(clicked[t]) : clicked[t][i] \in PrefCalls
  BY PrefFields DEF SettingsInv
<1> DEFINE n == Len(clicked[t])
<1>2. /\ clicked' \in [Tabs -> Seq(PrefCalls)]
      /\ \A s \in Tabs \ {t} : clicked'[s] = clicked[s]
      /\ Len(clicked'[t]) = n - 1
      /\ \A i \in 1 .. n - 1 : clicked'[t][i] = clicked[t][i + 1]
  <2>1. clicked \in [Tabs -> Seq(PrefCalls)]
    BY <1>1 DEF PrefTypes
  <2>2. clicked'[t] = Tail(clicked[t])
    BY <2>1
  <2> QED
    BY <1>1, <2>1, <2>2
<1>3. /\ n \in Nat /\ 1 \in 1 .. n /\ \A i \in 1 .. n - 1 : i + 1 \in 1 .. n /\ i + 1 # 1
      /\ \A i \in 1 .. n : i # 1 => i - 1 \in 1 .. n - 1 /\ (i - 1) + 1 = i
  BY <1>1
<1> HIDE DEF n
<1>4. /\ \A i \in 1 .. n : i # 1 => clicked[t][i].at = "queued"
      /\ \A i \in 1 .. n : clicked[t][i].op \in SETTINGS!LateColumns =>
           clicked[t][i].op \in SETTINGS!QueriesOf(page[t])
      /\ page[t] # "closed" /\ SETTINGS!Loaded(t)
  BY <1>1 DEF TabInv, InLine, n
<1>5. PrefTypes'
  BY <1>1, <1>2 DEF PrefTypes
<1>6. Healed(t)'
  BY <1>1 DEF TabInv, Healed, SETTINGS!QueriesOf, SETTINGS!Needs, SETTINGS!LateColumns
<1>7. InLine(t)'
  <2>1. \A i \in 1 .. n - 1 : /\ clicked'[t][i].at = "queued"
                              /\ clicked'[t][i].op \in SETTINGS!LateColumns =>
                                   clicked'[t][i].op \in SETTINGS!QueriesOf(page[t])
    BY <1>2, <1>3, <1>4
  <2>2. SETTINGS!Loaded(t)' /\ page'[t] # "closed"
    BY <1>4 DEF SETTINGS!Loaded, SETTINGS!QueriesOf
  <2> QED
    BY <1>2, <2>1, <2>2 DEF InLine, SETTINGS!QueriesOf, SETTINGS!LateColumns
<1>8. ASSUME t \notin behind', page[t] = "settings" PROVE Settled(t)'
  <2>1. Settled(t)
    BY <1>1, <1>8 DEF TabInv
  <2>2. reads[t]["prefs"] = "ok" /\ reads[t]["short"] = "ok"
    BY <1>4, <1>8 DEF SETTINGS!Loaded, SETTINGS!QueriesOf
  <2>3. /\ \A i, j \in 1 .. n :
             clicked[t][i].op = clicked[t][j].op /\ clicked[t][i].op \in Flips => i = j
        /\ FlipShown(t, "email") /\ ChatShown(t) /\ FlipShown(t, "short")
        /\ \A e \in PrefCalls : Clicked(t, e) => Pledge(t, e)
    BY <1>8, <2>1, <2>2 DEF Settled, n
  <2>4. Pledge(t, h)
    BY <1>3, <2>3 DEF Clicked, n
  <2>5. /\ h.op \in Flips => shown'[t][h.op] = stored[h.op]
        /\ \/ shown'[t].telegram = stored.telegram /\ shown'[t].chat = stored.chat
           \/ /\ ~Landed(h) /\ shown'[t].telegram = shown[t].telegram
              /\ shown'[t].chat = shown[t].chat
    BY <1>8, <2>4
  <2>6. ASSUME NEW f \in Flips PROVE FlipShown(t, f)'
    <3>1. CASE f = h.op
      BY <2>5, <3>1 DEF FlipShown
    <3>2. CASE f # h.op
      <4>1. ASSUME ~Clicks(t, f)' PROVE shown'[t][f] = stored[f]
        <5>1. \A i \in 1 .. n : clicked[t][i].op # f
          <6>1. ASSUME NEW i \in 1 .. n, i # 1 PROVE clicked[t][i].op # f
            <7>1. i - 1 \in 1 .. n - 1 /\ clicked'[t][i - 1] = clicked[t][i]
              BY <1>2, <1>3, <6>1
            <7> QED
              BY <1>2, <4>1, <7>1 DEF Clicks
          <6> QED
            BY <3>2, <6>1
        <5>2. shown[t][f] = stored[f]
          BY <2>3, <5>1 DEF FlipShown, Clicks, Flips, n
        <5> QED
          BY <3>2, <5>2
      <4> QED
        BY <4>1 DEF FlipShown
    <3> QED
      BY <3>1, <3>2
  <2>7. ChatShown(t)'
    <3>1. CASE shown'[t].telegram = stored.telegram /\ shown'[t].chat = stored.chat
      BY <3>1 DEF ChatShown
    <3>2. CASE /\ ~Landed(h) /\ shown'[t].telegram = shown[t].telegram
               /\ shown'[t].chat = shown[t].chat
      <4>1. \A i \in 1 .. n : ~Landed(clicked[t][i])
        BY <1>4, <3>2 DEF Landed
      <4> QED
        BY <2>3, <3>2, <4>1 DEF ChatShown, n
    <3> QED
      BY <2>5, <3>1, <3>2
  <2>8. ASSUME NEW e \in PrefCalls, Clicked(t, e)' PROVE Pledge(t, e)'
    <3>1. PICK i \in 1 .. n - 1 : clicked'[t][i] = e
      BY <1>2, <2>8 DEF Clicked
    <3>2. i + 1 \in 1 .. n /\ i + 1 # 1 /\ clicked[t][i + 1] = e /\ e.at = "queued"
      BY <1>2, <1>3, <1>4, <3>1
    <3>3. Pledge(t, e)
      BY <2>3, <3>2 DEF Clicked, n
    <3>4. e.op \in Flips => e.op # h.op
      BY <1>3, <2>3, <3>2
    <3> QED
      BY <3>2, <3>3, <3>4 DEF Pledge, Landed
  <2>9. ASSUME NEW i \in 1 .. n - 1, NEW j \in 1 .. n - 1,
               clicked'[t][i].op = clicked'[t][j].op, clicked'[t][i].op \in Flips
        PROVE  i = j
    <3>1. i + 1 = j + 1
      BY <1>2, <1>3, <2>3, <2>9
    <3> QED
      BY <1>3, <3>1
  <2> QED
    BY <1>2, <2>6, <2>7, <2>8, <2>9 DEF Settled, Flips
<1>9. TabInv(t)'
  BY <1>6, <1>7, <1>8 DEF TabInv, Settled
<1> QED
  BY <1>2, <1>5, <1>9, TabMoves

\* A page is opened with nothing read, and left with nothing under way.
LEMMA OpensCorrect ==
  ASSUME SettingsInv, NEW t \in Tabs,
         \/ \E p \in {"settings", "dashboard"} : SETTINGS!OpenPage(t, p)
         \/ SETTINGS!ClosePage(t)
  PROVE  SettingsInv'
<1>1. PrefTypes /\ TabInv(t)
  BY DEF SettingsInv
<1>2. ASSUME NEW p \in {"settings", "dashboard"}, SETTINGS!OpenPage(t, p) PROVE SettingsInv'
  <2>1. clicked[t] = <<>> /\ Len(clicked[t]) = 0
    BY <1>1, <1>2 DEF SETTINGS!OpenPage, TabInv, InLine
  <2>2. PrefTypes'
    <3>1. /\ page' \in [Tabs -> {"closed", "settings", "dashboard"}]
          /\ reads' \in [Tabs -> [Queries -> {"try", "repair", "retry", "missed",
                                              "duplicate", "ok"}]]
      BY <1>1, <1>2 DEF SETTINGS!OpenPage, PrefTypes, Queries, SETTINGS!LateColumns
    <3> QED
      BY <1>1, <1>2, <3>1 DEF SETTINGS!OpenPage, PrefTypes
  <2>3. page'[t] = p /\ clicked'[t] = <<>> /\ Len(clicked'[t]) = 0
        /\ \A q \in Queries : reads'[t][q] = IF q \in SETTINGS!QueriesOf(p) THEN "try" ELSE "ok"
    BY <1>1, <1>2, <2>1 DEF SETTINGS!OpenPage, PrefTypes, Queries, SETTINGS!LateColumns
  <2>4. SETTINGS!QueriesOf(p) \subseteq Queries /\ {"prefs", "short"} \subseteq Queries
        /\ (p = "settings" => {"prefs", "short"} \subseteq SETTINGS!QueriesOf(p))
    BY DEF SETTINGS!QueriesOf, Queries
  <2>5. Healed(t)'
    BY <2>3, <2>4 DEF Healed, SETTINGS!QueriesOf
  <2>6. InLine(t)' /\ Settled(t)'
    BY <2>3, <2>4 DEF InLine, Settled, Clicked
  <2>7. TabInv(t)'
    BY <2>5, <2>6 DEF TabInv
  <2>8. \A s \in Tabs \ {t} :
          /\ page'[s] = page[s] /\ reads'[s] = reads[s] /\ shown'[s] = shown[s]
          /\ clicked'[s] = clicked[s]
          /\ s \notin behind' => s \notin behind /\ UNCHANGED stored
    BY <1>1, <1>2 DEF SETTINGS!OpenPage, PrefTypes
  <2>9. lacking' \subseteq lacking
    BY <1>2 DEF SETTINGS!OpenPage
  <2> QED
    BY <2>2, <2>7, <2>8, <2>9, TabMoves
<1>3. CASE SETTINGS!ClosePage(t)
  <2>1. clicked[t] = <<>> /\ Len(clicked[t]) = 0
    BY <1>3 DEF SETTINGS!ClosePage
  <2>2. PrefTypes'
    BY <1>1, <1>3, DefaultRow DEF SETTINGS!ClosePage, PrefTypes, PrefRow
  <2>3. page'[t] = "closed" /\ clicked'[t] = <<>> /\ Len(clicked'[t]) = 0
    BY <1>1, <1>3, <2>1 DEF SETTINGS!ClosePage, PrefTypes
  <2>4. TabInv(t)'
    BY <2>3 DEF TabInv, Healed, InLine, Settled
  <2>5. \A s \in Tabs \ {t} :
          /\ page'[s] = page[s] /\ reads'[s] = reads[s] /\ shown'[s] = shown[s]
          /\ clicked'[s] = clicked[s]
          /\ s \notin behind' => s \notin behind /\ UNCHANGED stored
    BY <1>1, <1>3 DEF SETTINGS!ClosePage, PrefTypes
  <2>6. lacking' \subseteq lacking
    BY <1>3 DEF SETTINGS!ClosePage
  <2> QED
    BY <2>2, <2>4, <2>5, <2>6, TabMoves
<1> QED
  BY <1>2, <1>3

\* A read takes what is stored, misses what is lacking, and is repaired once.
LEMMA ReadsCorrect ==
  ASSUME SettingsInv, NEW t \in Tabs, NEW q \in Queries,
         SETTINGS!ReadPrefs(t, q) \/ SETTINGS!Heal(t, q)
  PROVE  SettingsInv'
<1>1. /\ PrefTypes /\ TabInv(t) /\ page[t] # "closed"
      /\ shown[t] \in SETTINGS!SettingsRow /\ stored \in SETTINGS!SettingsRow
  BY PrefFields DEF SettingsInv, SETTINGS!ReadPrefs, SETTINGS!Heal
<1>2. q \in SETTINGS!QueriesOf(page[t]) /\ reads[t][q] # "ok"
  BY <1>1 DEF SETTINGS!ReadPrefs, SETTINGS!Heal, TabInv, Healed
<1>3. clicked[t] = <<>> /\ Len(clicked[t]) = 0
  BY <1>1, <1>2 DEF TabInv, InLine, SETTINGS!Loaded
<1>4. UNCHANGED <<stored, page, draft, clicked, behind>>
  BY DEF SETTINGS!ReadPrefs, SETTINGS!Heal
\* The outcome of the query, and what it leaves lacking and shows.
<1>5. ASSUME NEW r \in {"repair", "retry", "duplicate", "ok"}, SETTINGS!SetRead(t, q, r),
             lacking' \subseteq lacking,
             r \in {"ok", "retry"} => SETTINGS!Needs(q) \cap lacking' = {},
             \/ UNCHANGED shown /\ r # "ok"
             \/ SETTINGS!Takes(t, q)
      PROVE  SettingsInv'
  <2>1. /\ reads' \in [Tabs -> [Queries -> {"try", "repair", "retry", "missed",
                                            "duplicate", "ok"}]]
        /\ \A s \in Tabs \ {t} : reads'[s] = reads[s]
        /\ \A p \in Queries : reads'[t][p] = IF p = q THEN r ELSE reads[t][p]
    BY <1>1, <1>5 DEF SETTINGS!SetRead, PrefTypes
  <2>2. /\ shown' \in [Tabs -> SETTINGS!SettingsRow]
        /\ \A s \in Tabs \ {t} : shown'[s] = shown[s]
        /\ r = "ok" =>
             \A f \in {"email", "telegram", "chat", "short"} \cap SETTINGS!FieldsOf(q) :
               shown'[t][f] = stored[f]
        /\ \A f \in {"email", "telegram", "chat", "short"} \ SETTINGS!FieldsOf(q) :
             shown'[t][f] = shown[t][f]
    <3>1. CASE UNCHANGED shown /\ r # "ok"
      BY <1>1, <3>1 DEF PrefTypes
    <3>2. CASE SETTINGS!Takes(t, q)
      <4> DEFINE row == [f \in DOMAIN shown[t] |->
                           IF f \in SETTINGS!FieldsOf(q) THEN stored[f] ELSE shown[t][f]]
      <4>1. row \in SETTINGS!SettingsRow
        BY <1>1 DEF SETTINGS!SettingsRow
      <4>2. \A f \in {"email", "telegram", "chat", "short"} :
              row[f] = IF f \in SETTINGS!FieldsOf(q) THEN stored[f] ELSE shown[t][f]
        BY <1>1 DEF SETTINGS!SettingsRow
      <4>3. shown' = [shown EXCEPT ![t] = row]
        BY <3>2 DEF SETTINGS!Takes
      <4> HIDE DEF row
      <4>4. shown'[t] = row /\ shown' \in [Tabs -> SETTINGS!SettingsRow]
            /\ \A s \in Tabs \ {t} : shown'[s] = shown[s]
        BY <1>1, <4>1, <4>3 DEF PrefTypes
      <4> QED
        BY <4>2, <4>4
    <3> QED
      BY <1>5, <3>1, <3>2
  <2>3. PrefTypes'
    BY <1>1, <1>4, <1>5, <2>1, <2>2 DEF PrefTypes
  <2>4. Healed(t)'
    <3>1. \A p \in SETTINGS!QueriesOf(page[t]) : p \in Queries
      BY DEF SETTINGS!QueriesOf, Queries
    <3>2. \A p \in Queries \ SETTINGS!QueriesOf(page[t]) : reads'[t][p] = "ok"
      BY <1>1, <1>2, <2>1 DEF TabInv, Healed
    <3>3. \A p \in SETTINGS!QueriesOf(page[t]) :
            /\ reads'[t][p] # "missed"
            /\ reads'[t][p] \in {"ok", "retry"} => SETTINGS!Needs(p) \cap lacking' = {}
      <4>1. ASSUME NEW p \in SETTINGS!QueriesOf(page[t])
            PROVE  /\ reads'[t][p] # "missed"
                   /\ reads'[t][p] \in {"ok", "retry"} => SETTINGS!Needs(p) \cap lacking' = {}
        <5>1. CASE p = q
          BY <1>5, <2>1, <3>1, <5>1
        <5>2. CASE p # q
          BY <1>1, <1>5, <2>1, <3>1, <5>2 DEF TabInv, Healed
        <5> QED
          BY <5>1, <5>2
      <4> QED
        BY <4>1
    <3> QED
      BY <1>4, <3>2, <3>3 DEF Healed, SETTINGS!QueriesOf, SETTINGS!Needs, SETTINGS!LateColumns
  <2>5. InLine(t)'
    BY <1>3, <1>4 DEF InLine
  <2>6. ASSUME t \notin behind', page[t] = "settings" PROVE Settled(t)'
    <3>1. Settled(t) /\ {"prefs", "short"} \subseteq Queries
      BY <1>1, <1>4, <2>6 DEF TabInv, Queries
    <3>2. reads'[t]["prefs"] = "ok" =>
            \A f \in {"email", "telegram", "chat"} : shown'[t][f] = stored[f]
      <4>1. CASE q = "prefs"
        BY <2>1, <2>2, <3>1, <4>1 DEF SETTINGS!FieldsOf
      <4>2. CASE q # "prefs"
        <5>1. reads'[t]["prefs"] = "ok" => reads[t]["prefs"] = "ok"
          BY <2>1, <3>1, <4>2
        <5>2. reads[t]["prefs"] = "ok" =>
                \A f \in {"email", "telegram", "chat"} : shown[t][f] = stored[f]
          BY <1>3, <2>6, <3>1 DEF Settled, FlipShown, ChatShown, Clicks
        <5>3. \A f \in {"email", "telegram", "chat"} : f \notin SETTINGS!FieldsOf(q)
          BY <4>2 DEF SETTINGS!FieldsOf, Queries
        <5> QED
          BY <2>2, <5>1, <5>2, <5>3
      <4> QED
        BY <4>1, <4>2
    <3>3. reads'[t]["short"] = "ok" => shown'[t]["short"] = stored["short"]
      <4>1. CASE q = "short"
        BY <2>1, <2>2, <3>1, <4>1 DEF SETTINGS!FieldsOf
      <4>2. CASE q # "short"
        <5>1. reads'[t]["short"] = "ok" => reads[t]["short"] = "ok"
          BY <2>1, <3>1, <4>2
        <5>2. reads[t]["short"] = "ok" => shown[t]["short"] = stored["short"]
          BY <1>3, <2>6, <3>1 DEF Settled, FlipShown, Clicks
        <5>3. "short" \notin SETTINGS!FieldsOf(q)
          BY <4>2 DEF SETTINGS!FieldsOf
        <5> QED
          BY <2>2, <5>1, <5>2, <5>3
      <4> QED
        BY <4>1, <4>2
    <3>4. clicked'[t] = <<>> /\ Len(clicked'[t]) = 0 /\ stored' = stored
      BY <1>3, <1>4
    <3> QED
      BY <3>2, <3>3, <3>4 DEF Settled, FlipShown, ChatShown, Clicked
  <2>7. TabInv(t)'
    BY <1>4, <2>4, <2>5, <2>6 DEF TabInv, Settled
  <2> QED
    BY <1>4, <1>5, <2>1, <2>2, <2>3, <2>7, TabMoves
<1>6. CASE SETTINGS!ReadPrefs(t, q)
  <2>1. CASE SETTINGS!Needs(q) \cap lacking = {}
    <3>1. SETTINGS!SetRead(t, q, "ok") /\ SETTINGS!Takes(t, q) /\ lacking' = lacking
      BY <1>6, <2>1 DEF SETTINGS!ReadPrefs
    <3> QED
      BY <1>5, <2>1, <3>1
  <2>2. CASE SETTINGS!Needs(q) \cap lacking # {}
    <3>1. reads[t][q] = "try"
      BY <1>1, <1>2, <1>6, <2>2 DEF SETTINGS!ReadPrefs, TabInv, Healed
    <3>2. SETTINGS!SetRead(t, q, "repair") /\ UNCHANGED <<shown, lacking>>
      BY <1>6, <2>2, <3>1 DEF SETTINGS!ReadPrefs
    <3> QED
      BY <1>5, <3>2
  <2> QED
    BY <2>1, <2>2
<1>7. CASE SETTINGS!Heal(t, q)
  <2>1. CASE SETTINGS!Needs(q) \cap lacking # {}
    <3>1. /\ SETTINGS!SetRead(t, q, "retry") /\ UNCHANGED shown
          /\ lacking' = lacking \ SETTINGS!Repair(q)
      BY <1>7, <2>1 DEF SETTINGS!Heal
    <3>2. SETTINGS!Needs(q) \cap lacking' = {} /\ lacking' \subseteq lacking
      BY <3>1 DEF SETTINGS!Needs, SETTINGS!Repair, SETTINGS!PREFS_DDL, SETTINGS!LateColumns
    <3> QED
      BY <1>5, <3>1, <3>2
  <2>2. CASE SETTINGS!Needs(q) \cap lacking = {}
    <3>1. /\ UNCHANGED <<shown, lacking>>
          /\ SETTINGS!SetRead(t, q, "retry") \/ SETTINGS!SetRead(t, q, "duplicate")
      BY <1>7, <2>2 DEF SETTINGS!Heal
    <3>2. SETTINGS!Needs(q) \cap lacking' = {} /\ lacking' \subseteq lacking
      BY <2>2, <3>1
    <3>3. CASE SETTINGS!SetRead(t, q, "retry")
      BY <1>5, <3>1, <3>2, <3>3
    <3>4. CASE SETTINGS!SetRead(t, q, "duplicate")
      BY <1>5, <3>1, <3>2, <3>4
    <3> QED
      BY <3>1, <3>3, <3>4
  <2> QED
    BY <2>1, <2>2
<1> QED
  BY <1>6, <1>7

\* A switch can be flipped only while no call for it is in line.
LEMMA NoneInLine ==
  ASSUME PrefTypes, NEW t \in Tabs
  PROVE  /\ ~SETTINGS!Pending(t, SETTINGS!Notification) => ~Clicks(t, "email")
         /\ ~SETTINGS!Pending(t, {"short"}) => ~Clicks(t, "short")
<1>1. DOMAIN clicked[t] = 1 .. Len(clicked[t])
  BY PrefFields
<1> QED
  BY <1>1 DEF SETTINGS!Pending, SETTINGS!Notification, Clicks

\* The clicks of a page send calls that keep their pledge.
LEMMA ClicksCorrect ==
  ASSUME SettingsInv, NEW t \in Tabs,
         \/ SETTINGS!toggleEmail(t) \/ SETTINGS!toggleShorting(t)
         \/ \E c \in Currencies : SETTINGS!chooseCurrency(t, c)
         \/ \E w \in Timelines : SETTINGS!chooseWindow(t, w)
         \/ \E id \in Chats : SETTINGS!typeChat(t, id)
         \/ SETTINGS!connectTelegram(t) \/ SETTINGS!removeTelegram(t)
  PROVE  SettingsInv'
<1>1. /\ PrefTypes /\ TabInv(t) /\ shown[t] \in SETTINGS!SettingsRow
      /\ draft[t] \in Chats \cup {SETTINGS!NoChat}
      /\ shown \in [Tabs -> SETTINGS!SettingsRow] /\ stored \in PrefRow
      /\ draft \in [Tabs -> Chats \cup {SETTINGS!NoChat}]
  BY PrefFields DEF SettingsInv, PrefTypes
<1> USE DEF SETTINGS!Pressed, SETTINGS!Call
<1>2. ASSUME NEW op \in SETTINGS!Notification \cup SETTINGS!LateColumns,
             NEW val, NEW prev,
             \/ op \in Flips /\ val \in BOOLEAN /\ prev \in BOOLEAN
             \/ op = "connect" /\ val \in Chats \ {SETTINGS!NoChat} /\ prev = SETTINGS!NoChat
             \/ op = "remove" /\ val = SETTINGS!NoChat /\ prev = SETTINGS!NoChat
             \/ op = "currency" /\ val \in Currencies /\ prev \in Currencies
             \/ op = "window" /\ val \in Timelines /\ prev \in Timelines
      PROVE  [op |-> op, val |-> val, prev |-> prev, at |-> "queued", cur |-> stored]
               \in PrefCalls
  BY <1>1, <1>2 DEF PrefCalls, Flips
<1>3. ASSUME SETTINGS!OnSettings(t)
      PROVE  page[t] = "settings" /\ SETTINGS!Loaded(t)
             /\ \A q \in {"short", "currency"} : q \in SETTINGS!QueriesOf(page[t])
  BY <1>3 DEF SETTINGS!OnSettings, SETTINGS!QueriesOf
<1>4. CASE SETTINGS!toggleEmail(t)
  <2>1. PICK c \in PrefCalls : c = [op |-> "email", val |-> ~shown[t].email,
                                    prev |-> shown[t].email, at |-> "queued", cur |-> stored]
    BY <1>1, <1>2 DEF SETTINGS!SettingsRow, SETTINGS!Notification, Flips
  <2>2. /\ shown' \in [Tabs -> SETTINGS!SettingsRow]
        /\ \A s \in Tabs \ {t} : shown'[s] = shown[s]
        /\ shown'[t].email = ~shown[t].email
        /\ \A f \in {"telegram", "chat", "short"} : shown'[t][f] = shown[t][f]
    BY <1>1, <1>4 DEF SETTINGS!toggleEmail, SETTINGS!SettingsRow
  <2>3. SETTINGS!OnSettings(t) /\ ~Clicks(t, "email")
    BY <1>1, <1>4, NoneInLine DEF SETTINGS!toggleEmail, SETTINGS!ShownEmailToggle
  <2>4. /\ clicked' = [clicked EXCEPT ![t] = Append(@, c)]
        /\ UNCHANGED <<lacking, stored, page, reads, behind, draft>>
    BY <1>4, <2>1 DEF SETTINGS!toggleEmail
  <2>5. c.op = "email" /\ c.at = "queued" /\ c.val = ~shown[t].email
        /\ c.prev = shown[t].email /\ c.op \notin SETTINGS!LateColumns
    BY <2>1 DEF SETTINGS!LateColumns
  <2> QED
    BY <1>1, <1>3, <2>2, <2>3, <2>4, <2>5, PressJoins
<1>5. CASE SETTINGS!toggleShorting(t)
  <2>1. PICK c \in PrefCalls : c = [op |-> "short", val |-> ~shown[t].short,
                                    prev |-> shown[t].short, at |-> "queued", cur |-> stored]
    BY <1>1, <1>2 DEF SETTINGS!SettingsRow, SETTINGS!LateColumns, Flips
  <2>2. /\ shown' \in [Tabs -> SETTINGS!SettingsRow]
        /\ \A s \in Tabs \ {t} : shown'[s] = shown[s]
        /\ shown'[t].short = ~shown[t].short
        /\ \A f \in {"telegram", "chat", "email"} : shown'[t][f] = shown[t][f]
    BY <1>1, <1>5 DEF SETTINGS!toggleShorting, SETTINGS!SettingsRow
  <2>3. SETTINGS!OnSettings(t) /\ ~Clicks(t, "short")
    BY <1>1, <1>5, NoneInLine DEF SETTINGS!toggleShorting, SETTINGS!ShownShortToggle
  <2>4. /\ clicked' = [clicked EXCEPT ![t] = Append(@, c)]
        /\ UNCHANGED <<lacking, stored, page, reads, behind, draft>>
    BY <1>5, <2>1 DEF SETTINGS!toggleShorting
  <2>5. c.op = "short" /\ c.at = "queued" /\ c.val = ~shown[t].short
        /\ c.prev = shown[t].short
    BY <2>1
  <2> QED
    BY <1>1, <1>3, <2>2, <2>3, <2>4, <2>5, PressJoins
\* The two menus: neither field is one of the four the invariant speaks of.
<1>6. ASSUME NEW f \in {"currency", "window"}, NEW v,
             \/ f = "currency" /\ v \in Currencies
             \/ f = "window" /\ v \in Timelines,
             shown' = [shown EXCEPT ![t][f] = v],
             SETTINGS!Call(t, f, v, shown[t][f]),
             UNCHANGED <<lacking, stored, page, reads, behind, draft>>,
             page[t] # "closed", SETTINGS!Loaded(t), f \in SETTINGS!QueriesOf(page[t])
      PROVE  SettingsInv'
  <2>1. PICK c \in PrefCalls : c = [op |-> f, val |-> v, prev |-> shown[t][f],
                                    at |-> "queued", cur |-> stored]
    BY <1>1, <1>2, <1>6 DEF SETTINGS!SettingsRow, SETTINGS!LateColumns
  <2>2. /\ shown' \in [Tabs -> SETTINGS!SettingsRow]
        /\ \A s \in Tabs \ {t} : shown'[s] = shown[s]
        /\ \A g \in {"email", "telegram", "chat", "short"} : shown'[t][g] = shown[t][g]
    BY <1>1, <1>6 DEF SETTINGS!SettingsRow
  <2>3. clicked' = [clicked EXCEPT ![t] = Append(@, c)]
    BY <1>6, <2>1
  <2>4. c.op = f /\ c.at = "queued" /\ c.op \notin Flips
    BY <2>1 DEF Flips
  <2> QED
    BY ZenonT(30), <1>1, <1>6, <2>2, <2>3, <2>4, PressJoins
<1>7. ASSUME NEW v \in Currencies, SETTINGS!chooseCurrency(t, v) PROVE SettingsInv'
  <2>1. SETTINGS!OnSettings(t)
    BY <1>7 DEF SETTINGS!chooseCurrency, SETTINGS!ShownCurrency
  <2> QED
    BY <1>3, <1>6, <1>7, <2>1 DEF SETTINGS!chooseCurrency
<1>8. ASSUME NEW v \in Timelines, SETTINGS!chooseWindow(t, v) PROVE SettingsInv'
  <2>1. page[t] = "dashboard" /\ SETTINGS!Loaded(t) /\ "window" \in SETTINGS!QueriesOf(page[t])
    BY <1>8 DEF SETTINGS!chooseWindow, SETTINGS!ShownWindow, SETTINGS!QueriesOf
  <2> QED
    BY <1>6, <1>8, <2>1 DEF SETTINGS!chooseWindow
<1>9. ASSUME NEW id \in Chats, SETTINGS!typeChat(t, id) PROVE SettingsInv'
  <2>1. PrefTypes'
    BY <1>1, <1>9 DEF SETTINGS!typeChat, PrefTypes
  <2>2. \A s \in Tabs : TabInv(s)'
    BY <1>9, TabStays DEF SETTINGS!typeChat, SettingsInv
  <2> QED
    BY <2>1, <2>2 DEF SettingsInv
\* The chat, which is shown once it is stored.
<1>10. ASSUME NEW op \in {"connect", "remove"}, NEW v, SETTINGS!Call(t, op, v, SETTINGS!NoChat),
              IF op = "connect" THEN v \in Chats \ {SETTINGS!NoChat} ELSE v = SETTINGS!NoChat,
              UNCHANGED <<lacking, stored, page, reads, behind, shown, draft>>,
              SETTINGS!OnSettings(t)
       PROVE  SettingsInv'
  <2>1. PICK c \in PrefCalls : c = [op |-> op, val |-> v, prev |-> SETTINGS!NoChat,
                                    at |-> "queued", cur |-> stored]
    BY <1>1, <1>2, <1>10 DEF SETTINGS!Notification
  <2>2. clicked' = [clicked EXCEPT ![t] = Append(@, c)]
    BY <1>10, <2>1
  <2>3. c.op = op /\ c.at = "queued" /\ c.op \notin Flips /\ c.op \notin SETTINGS!LateColumns
    BY <2>1 DEF Flips, SETTINGS!LateColumns
  <2> QED
    BY <1>1, <1>3, <1>10, <2>2, <2>3, PressJoins
<1>11. CASE SETTINGS!connectTelegram(t)
  BY <1>1, <1>10, <1>11 DEF SETTINGS!connectTelegram, SETTINGS!ShownDraft
<1>12. CASE SETTINGS!removeTelegram(t)
  BY <1>1, <1>10, <1>12 DEF SETTINGS!removeTelegram, SETTINGS!ShownRemove
<1> QED
  BY <1>4, <1>5, <1>7, <1>8, <1>9, <1>11, <1>12

\* The first call of a tab that is running, and its pledge.
LEMMA FirstCall ==
  ASSUME SettingsInv, NEW t \in Tabs, SETTINGS!Running(t)
  PROVE  \E h \in PrefCalls : h = clicked[t][1] /\ clicked[t] # <<>>
BY PrefFields DEF SettingsInv, SETTINGS!Running

\* The server's steps, and calls that break.
LEMMA ServesCorrect ==
  ASSUME SettingsInv, NEW t \in Tabs,
         \/ SETTINGS!ReadRow(t) \/ SETTINGS!WriteRow(t) \/ SETTINGS!WriteColumn(t)
         \/ SETTINGS!TestMessage(t) \/ SETTINGS!Breaks(t)
  PROVE  SettingsInv'
<1>1. SETTINGS!Running(t) /\ PrefTypes /\ TabInv(t)
  BY DEF SETTINGS!ReadRow, SETTINGS!WriteRow, SETTINGS!WriteColumn, SETTINGS!TestMessage,
     SETTINGS!Breaks, SettingsInv
<1>2. PICK h \in PrefCalls : h = clicked[t][1] /\ clicked[t] # <<>>
  BY <1>1, FirstCall
<1>3. UNCHANGED <<lacking, page, reads, shown, draft>>
  BY DEF SETTINGS!ReadRow, SETTINGS!WriteRow, SETTINGS!WriteColumn, SETTINGS!TestMessage,
     SETTINGS!Breaks, SETTINGS!Goes
<1>4. /\ stored \in PrefRow /\ behind \subseteq Tabs /\ h.cur \in PrefRow
      /\ h.op \in SETTINGS!Notification \cup SETTINGS!LateColumns
      /\ \A r \in PrefRow : r \in SETTINGS!SettingsRow
      /\ shown[t] \in SETTINGS!SettingsRow
  BY <1>1, PrefFields DEF PrefTypes, PrefCalls, PrefRow
\* A step of the call that leaves the row alone.
<1>5. ASSUME NEW at \in {"ok", "failed"}, SETTINGS!Goes(t, at), UNCHANGED stored,
             \/ at = "ok" /\ h.at = "test" /\ UNCHANGED behind
             \/ at = "failed" /\ h.at \in {"queued", "write"} /\ UNCHANGED behind
             \/ behind' = behind \cup {t}
      PROVE  SettingsInv'
  <2>1. PICK d \in PrefCalls : d = [h EXCEPT !.at = at]
    BY DEF PrefCalls
  <2>2. /\ clicked' = [clicked EXCEPT ![t] = [clicked[t] EXCEPT ![1] = d]]
        /\ d.op = h.op /\ d.val = h.val /\ d.prev = h.prev /\ d.at = at
    BY <1>2, <1>5, <2>1 DEF SETTINGS!Goes, PrefCalls
  <2>3. h.at = "test" => h.op = "connect"
    BY DEF PrefCalls
  <2>4. t \notin behind' /\ Pledge(t, h) =>
          /\ Pledge(t, d)' /\ (Landed(d) \/ ~Landed(h))
    BY <1>3, <1>5, <2>2, <2>3 DEF Pledge, Landed, Flips
  <2> QED
    BY <1>2, <1>3, <1>4, <1>5, <2>2, <2>4, HeadMoves
<1>6. CASE SETTINGS!ReadRow(t)
  <2>1. CASE SETTINGS!Refuses(h)
    BY <1>2, <1>5, <1>6, <2>1 DEF SETTINGS!ReadRow, SETTINGS!Head1
  <2>2. CASE ~SETTINGS!Refuses(h)
    <3>1. PICK d \in PrefCalls : d = [h EXCEPT !.at = "write", !.cur = stored]
      BY <1>2, <1>4, <1>6 DEF SETTINGS!ReadRow, SETTINGS!Head1, PrefCalls
    <3>2. /\ clicked' = [clicked EXCEPT ![t] = [clicked[t] EXCEPT ![1] = d]]
          /\ d.op = h.op /\ d.val = h.val /\ d.prev = h.prev /\ d.at = "write"
          /\ d.cur = stored /\ h.at = "queued"
      <4>1. /\ clicked' = [clicked EXCEPT ![t][1].at = "write", ![t][1].cur = stored]
            /\ h.at = "queued"
        BY <1>2, <1>6, <2>2 DEF SETTINGS!ReadRow, SETTINGS!Head1
      <4>2. /\ d.op = h.op /\ d.val = h.val /\ d.prev = h.prev /\ d.at = "write"
            /\ d.cur = stored
        BY <3>1 DEF PrefCalls
      <4>3. /\ clicked \in [Tabs -> Seq(PrefCalls)] /\ 1 \in DOMAIN clicked[t]
        BY <1>1, <1>2, PrefFields DEF PrefTypes
      <4> DEFINE w == [clicked EXCEPT ![t][1].at = "write"]
      <4>4. w = [clicked EXCEPT ![t] = [clicked[t] EXCEPT ![1] = [h EXCEPT !.at = "write"]]]
        BY <1>2
      <4>5. w[t][1] = [h EXCEPT !.at = "write"]
        BY <4>3, <4>4
      <4>6. clicked' = [w EXCEPT ![t][1].cur = stored]
        BY <4>1
      <4>7. clicked' = [w EXCEPT ![t] = [w[t] EXCEPT ![1] = d]]
        BY <3>1, <4>5, <4>6
      <4>8. clicked' = [clicked EXCEPT ![t] = [clicked[t] EXCEPT ![1] = d]]
        BY <4>3, <4>4, <4>7
      <4> QED
        BY <4>1, <4>2, <4>8
    <3>3. UNCHANGED <<stored, behind>>
      BY <1>6 DEF SETTINGS!ReadRow
    <3>4. Pledge(t, h) => Pledge(t, d)' /\ ~Landed(h)
      BY <1>3, <3>2, <3>3 DEF Pledge, Landed, Flips
    <3> QED
      BY <1>2, <1>3, <1>4, <3>2, <3>3, <3>4, HeadMoves
  <2> QED
    BY <2>1, <2>2
<1>7. CASE SETTINGS!WriteRow(t)
  <2> DEFINE at  == IF h.op = "connect" THEN "test" ELSE "ok"
             row == SETTINGS!ThreeColumns(SETTINGS!Patched(h))
  <2>1. h.at = "write" /\ h.op \in {"email", "connect", "remove"}
        /\ stored' = row /\ SETTINGS!Goes(t, at) /\ behind' = behind \cup (Tabs \ {t})
    BY <1>2, <1>7 DEF SETTINGS!WriteRow, SETTINGS!Head1, PrefCalls, SETTINGS!Notification
  <2>2. PICK d \in PrefCalls : d = [h EXCEPT !.at = at]
    BY <2>1 DEF PrefCalls
  <2>3. /\ clicked' = [clicked EXCEPT ![t] = [clicked[t] EXCEPT ![1] = d]]
        /\ d.op = h.op /\ d.val = h.val /\ d.prev = h.prev /\ d.at = at
    BY <1>2, <2>1, <2>2 DEF SETTINGS!Goes, PrefCalls
  <2>4. /\ row \in SETTINGS!SettingsRow
        /\ row.short = stored.short
        /\ h.op = "email" => row.email = h.val /\ row.telegram = h.cur.telegram
                             /\ row.chat = h.cur.chat
        /\ h.op = "connect" => row.email = h.cur.email /\ row.telegram = TRUE
                               /\ row.chat = h.val /\ h.val # SETTINGS!NoChat
        /\ h.op = "remove" => row.email = h.cur.email /\ row.telegram = FALSE
                              /\ row.chat = SETTINGS!NoChat
    <3>1. CASE h.op = "email"
      BY ZenonT(30), <1>4, <3>1 DEF SETTINGS!ThreeColumns, SETTINGS!Patched, SETTINGS!SettingsRow,
         PrefCalls, Flips
    <3>2. CASE h.op = "connect"
      BY ZenonT(30), <1>4, <3>2 DEF SETTINGS!ThreeColumns, SETTINGS!Patched, SETTINGS!SettingsRow,
         PrefCalls
    <3>3. CASE h.op = "remove"
      BY <1>4, <3>3 DEF SETTINGS!ThreeColumns, SETTINGS!Patched, SETTINGS!SettingsRow,
         PrefCalls
    <3> QED
      BY <2>1, <3>1, <3>2, <3>3
  <2> HIDE DEF row
  <2>5. row \in PrefRow
    BY <1>4, <2>1, <2>4 DEF PrefRow, Paired
  <2>6. Pledge(t, h) =>
          /\ Pledge(t, d)'
          /\ \A f \in Flips \ {h.op} : row[f] = stored[f]
          /\ \/ Landed(d)
             \/ ~Landed(h) /\ row.telegram = stored.telegram /\ row.chat = stored.chat
    <3>1. CASE h.op = "email"
      BY <1>3, <2>1, <2>3, <2>4, <3>1 DEF Pledge, Landed, Flips
    <3>2. CASE h.op \in {"connect", "remove"}
      BY <1>3, <2>1, <2>3, <2>4, <3>2 DEF Pledge, Landed, Flips
    <3> QED
      BY <2>1, <3>1, <3>2
  <2> QED
    BY <1>2, <1>3, <1>4, <2>1, <2>3, <2>5, <2>6, HeadMoves
<1>8. CASE SETTINGS!WriteColumn(t)
  <2>1. h.op \in SETTINGS!LateColumns /\ h.at = "queued"
    BY <1>2, <1>8 DEF SETTINGS!WriteColumn, SETTINGS!Head1
  <2>2. SETTINGS!Needs(h.op) \cap lacking = {}
    <3>1. 1 \in 1 .. Len(clicked[t])
      BY <1>1, <1>2, PrefFields
    <3>2. h.op \in SETTINGS!QueriesOf(page[t]) /\ reads[t][h.op] = "ok" /\ page[t] # "closed"
      BY <1>1, <1>2, <2>1, <3>1 DEF TabInv, InLine, SETTINGS!Loaded
    <3> QED
      BY <1>1, <3>2 DEF TabInv, Healed
  <2>3. /\ stored' = [stored EXCEPT ![h.op] = h.val]
        /\ SETTINGS!Goes(t, "ok") /\ behind' = behind \cup (Tabs \ {t})
    BY <1>2, <1>8, <2>2 DEF SETTINGS!WriteColumn, SETTINGS!Head1
  <2>4. PICK d \in PrefCalls : d = [h EXCEPT !.at = "ok"]
    BY <2>1 DEF PrefCalls
  <2>5. /\ clicked' = [clicked EXCEPT ![t] = [clicked[t] EXCEPT ![1] = d]]
        /\ d.op = h.op /\ d.val = h.val /\ d.prev = h.prev /\ d.at = "ok"
    BY <1>2, <2>3, <2>4 DEF SETTINGS!Goes, PrefCalls
  <2>6. /\ stored' \in PrefRow /\ stored'[h.op] = h.val
        /\ stored'.telegram = stored.telegram /\ stored'.chat = stored.chat
        /\ \A f \in Flips \ {h.op} : stored'[f] = stored[f]
    <3>1. CASE h.op = "short"
      BY <1>4, <2>3, <3>1 DEF PrefRow, Paired, SETTINGS!SettingsRow, PrefCalls, Flips
    <3>2. CASE h.op = "currency"
      BY <1>4, <2>3, <3>2 DEF PrefRow, Paired, SETTINGS!SettingsRow, PrefCalls, Flips
    <3>3. CASE h.op = "window"
      BY <1>4, <2>3, <3>3 DEF PrefRow, Paired, SETTINGS!SettingsRow, PrefCalls, Flips
    <3> QED
      BY <2>1, <3>1, <3>2, <3>3 DEF SETTINGS!LateColumns
  <2>7. Pledge(t, h) => Pledge(t, d)' /\ ~Landed(h)
    BY <1>3, <2>1, <2>5, <2>6 DEF Pledge, Landed, Flips, SETTINGS!LateColumns
  <2> QED
    BY <1>2, <1>3, <1>4, <2>3, <2>5, <2>6, <2>7, HeadMoves
<1>9. CASE SETTINGS!TestMessage(t)
  BY <1>2, <1>5, <1>9 DEF SETTINGS!TestMessage, SETTINGS!Head1
<1>10. CASE SETTINGS!Breaks(t)
  BY <1>2, <1>5, <1>10 DEF SETTINGS!Breaks, SETTINGS!Head1
<1> QED
  BY <1>6, <1>7, <1>8, <1>9, <1>10

\* The answer, and the refusal that puts back what was shown too early.
LEMMA RepliesCorrect ==
  ASSUME SettingsInv, NEW t \in Tabs, SETTINGS!Answer(t) \/ SETTINGS!Refused(t)
  PROVE  SettingsInv'
<1>1. SETTINGS!Running(t) /\ PrefTypes /\ shown[t] \in SETTINGS!SettingsRow
      /\ shown \in [Tabs -> SETTINGS!SettingsRow]
      /\ draft \in [Tabs -> Chats \cup {SETTINGS!NoChat}]
  BY PrefFields DEF SETTINGS!Answer, SETTINGS!Refused, SettingsInv, PrefTypes
<1>2. PICK h \in PrefCalls : h = clicked[t][1] /\ clicked[t] # <<>>
  BY <1>1, FirstCall
<1>3. /\ clicked' = [clicked EXCEPT ![t] = Tail(@)]
      /\ UNCHANGED <<lacking, stored, page, reads, behind>>
  BY DEF SETTINGS!Answer, SETTINGS!Refused
<1>4. h.op \in {"email", "connect", "remove", "short", "currency", "window"}
  BY DEF PrefCalls, SETTINGS!Notification, SETTINGS!LateColumns
<1>5. CASE SETTINGS!Answer(t)
  <2>1. CASE h.op = "connect"
    <3>1. /\ h.at = "ok" /\ h.val \in Chats
          /\ shown' = [shown EXCEPT ![t].chat = h.val, ![t].telegram = TRUE]
          /\ draft' = [draft EXCEPT ![t] = SETTINGS!NoChat]
      BY <1>2, <1>5, <2>1 DEF SETTINGS!Answer, SETTINGS!Head1, PrefCalls
    <3>2. /\ shown' \in [Tabs -> SETTINGS!SettingsRow]
          /\ draft' \in [Tabs -> Chats \cup {SETTINGS!NoChat}]
          /\ \A s \in Tabs \ {t} : shown'[s] = shown[s]
          /\ shown'[t].chat = h.val /\ shown'[t].telegram = TRUE
          /\ \A f \in Flips : shown'[t][f] = shown[t][f]
      BY <1>1, <3>1 DEF SETTINGS!SettingsRow, Flips
    <3>3. Pledge(t, h) => stored.chat = h.val /\ stored.telegram = TRUE
      BY <2>1, <3>1 DEF Pledge, Landed
    <3> QED
      BY <1>2, <1>3, <2>1, <3>2, <3>3, HeadReturns DEF Flips
  <2>2. CASE h.op = "remove"
    <3>1. /\ h.at = "ok" /\ UNCHANGED draft
          /\ shown' = [shown EXCEPT ![t].chat = SETTINGS!NoChat, ![t].telegram = FALSE]
      BY <1>2, <1>5, <2>2 DEF SETTINGS!Answer, SETTINGS!Head1
    <3>2. /\ shown' \in [Tabs -> SETTINGS!SettingsRow]
          /\ \A s \in Tabs \ {t} : shown'[s] = shown[s]
          /\ shown'[t].chat = SETTINGS!NoChat /\ shown'[t].telegram = FALSE
          /\ \A f \in Flips : shown'[t][f] = shown[t][f]
      BY <1>1, <3>1 DEF SETTINGS!SettingsRow, Flips
    <3>3. Pledge(t, h) => stored.chat = SETTINGS!NoChat /\ stored.telegram = FALSE
      BY <2>2, <3>1 DEF Pledge, Landed
    <3> QED
      BY ZenonT(30), <1>1, <1>2, <1>3, <2>2, <3>1, <3>2, <3>3, HeadReturns DEF Flips
  <2>3. CASE h.op \notin {"connect", "remove"}
    <3>1. h.at = "ok" /\ UNCHANGED <<shown, draft>>
      BY <1>2, <1>5, <2>3 DEF SETTINGS!Answer, SETTINGS!Head1
    <3>2. Pledge(t, h) => ~Landed(h) /\ (h.op \in Flips => shown[t][h.op] = stored[h.op])
      BY <2>3, <3>1 DEF Pledge, Landed
    <3> QED
      BY <1>1, <1>2, <1>3, <3>1, <3>2, HeadReturns
  <2> QED
    BY <2>1, <2>2, <2>3
<1>6. CASE SETTINGS!Refused(t)
  <2>1. /\ h.at = "failed" /\ UNCHANGED draft
        /\ shown' = [shown EXCEPT ![t] = SETTINGS!RolledBack(t, h)]
    BY <1>2, <1>6 DEF SETTINGS!Refused, SETTINGS!Head1, PrefCalls
  <2>2. DOMAIN SETTINGS!DEFAULT_PREFS =
          {"email", "telegram", "chat", "currency", "window", "short"}
    BY DEF SETTINGS!DEFAULT_PREFS
  <2>3. PICK row : row = SETTINGS!RolledBack(t, h)
    OBVIOUS
  <2>4. /\ row \in SETTINGS!SettingsRow
        /\ h.op \in Flips => row[h.op] = h.prev
        /\ \A f \in Flips \ {h.op} : row[f] = shown[t][f]
        /\ row.telegram = shown[t].telegram /\ row.chat = shown[t].chat
    <3>1. CASE h.op \in {"connect", "remove"}
      BY <1>1, <2>2, <2>3, <3>1 DEF SETTINGS!RolledBack, Flips
    <3>2. CASE h.op = "email"
      BY <1>1, <2>2, <2>3, <3>2 DEF SETTINGS!RolledBack, SETTINGS!SettingsRow, PrefCalls, Flips
    <3>3. CASE h.op = "short"
      BY <1>1, <2>2, <2>3, <3>3 DEF SETTINGS!RolledBack, SETTINGS!SettingsRow, PrefCalls, Flips
    <3>4. CASE h.op = "currency"
      BY <1>1, <2>2, <2>3, <3>4 DEF SETTINGS!RolledBack, SETTINGS!SettingsRow, PrefCalls, Flips
    <3>5. CASE h.op = "window"
      BY <1>1, <2>2, <2>3, <3>5 DEF SETTINGS!RolledBack, SETTINGS!SettingsRow, PrefCalls, Flips
    <3> QED
      BY <1>4, <3>1, <3>2, <3>3, <3>4, <3>5
  <2>5. /\ shown' \in [Tabs -> SETTINGS!SettingsRow] /\ shown'[t] = row
        /\ \A s \in Tabs \ {t} : shown'[s] = shown[s]
    BY <1>1, <2>1, <2>3, <2>4
  <2>6. Pledge(t, h) => ~Landed(h) /\ (h.op \in Flips => row[h.op] = stored[h.op])
    BY <2>1, <2>4 DEF Pledge, Landed
  <2>7. /\ \A f \in Flips \ {h.op} : shown'[t][f] = shown[t][f]
        /\ shown'[t].telegram = shown[t].telegram /\ shown'[t].chat = shown[t].chat
        /\ Pledge(t, h) => /\ h.op \in Flips => shown'[t][h.op] = stored[h.op]
                           /\ ~Landed(h)
    BY <2>4, <2>5, <2>6
  <2>8. draft' \in [Tabs -> Chats \cup {SETTINGS!NoChat}]
    BY <1>1, <2>1
  <2> QED
    BY <1>2, <1>3, <2>5, <2>7, <2>8, HeadReturns
<1> QED
  BY <1>5, <1>6

\* Every step of the pages keeps the invariant.
LEMMA SettingsSteps == SettingsInv /\ [SETTINGS!SettingsNext]_settingsVars => SettingsInv'
<1>1. ASSUME SettingsInv, NEW t \in Tabs, SETTINGS!ByUser(t) PROVE SettingsInv'
  BY <1>1, OpensCorrect, ClicksCorrect DEF SETTINGS!ByUser
<1>2. ASSUME SettingsInv, NEW t \in Tabs, SETTINGS!ByServer(t) PROVE SettingsInv'
  <2>1. {"prefs"} \cup SETTINGS!LateColumns = Queries
    BY DEF Queries, SETTINGS!LateColumns
  <2> QED
    BY <1>2, <2>1, ReadsCorrect, ServesCorrect, RepliesCorrect DEF SETTINGS!ByServer
\* A fill repairs the table, which no page can mind.
<1>3. ASSUME SettingsInv, SETTINGS!Fill PROVE SettingsInv'
  <2>1. PrefTypes' /\ lacking' \subseteq lacking
    BY <1>3 DEF SETTINGS!Fill, SettingsInv, PrefTypes, SETTINGS!PREFS_DDL,
       SETTINGS!LateColumns
  <2>2. \A s \in Tabs : TabInv(s)'
    BY <1>3, <2>1, TabStays DEF SETTINGS!Fill, SettingsInv
  <2> QED
    BY <2>1, <2>2 DEF SettingsInv
<1>4. ASSUME SettingsInv, UNCHANGED settingsVars PROVE SettingsInv'
  <2>1. PrefTypes'
    BY <1>4 DEF settingsVars, SettingsInv, PrefTypes, SETTINGS!PREFS_DDL,
       SETTINGS!LateColumns
  <2>2. \A s \in Tabs : TabInv(s)'
    BY <1>4, TabStays DEF settingsVars, SettingsInv
  <2> QED
    BY <2>1, <2>2 DEF SettingsInv
<1> QED
  BY <1>1, <1>2, <1>3, <1>4 DEF SETTINGS!SettingsNext

\* The invariant of the settings page among the machines of the run.
THEOREM SettingsInvariant == ScreensSpec => []SettingsInv
<1>1. ScreensInit => SettingsInv
  BY SettingsStarts DEF ScreensInit
<1>2. SettingsInv /\ [ScreensNext]_screensVars => SettingsInv'
  <2>1. [ScreensNext]_screensVars => [SETTINGS!SettingsNext]_settingsVars
    BY DEF ScreensNext, screensVars
  <2> QED
    BY <2>1, SettingsSteps
<1> QED
  BY <1>1, <1>2, PTL DEF ScreensSpec

\* For any tabs, chats and deployed tables: an alert that is on has a chat, a
\* settled page shows what is stored, and one repair of the table is enough.
THEOREM SettingsHonestCorrect == ScreensSpec => []SettingsHonest
<1>1. SettingsInv => SETTINGS!OnHasAChat
  <2>1. SettingsInv => stored \in PrefRow
    BY DEF SettingsInv, PrefTypes
  <2> QED
    BY <2>1 DEF SETTINGS!OnHasAChat, SETTINGS!FanOut, SETTINGS!getNotifyTarget, PrefRow,
       Paired, SETTINGS!SettingsRow
<1>2. SettingsInv => SETTINGS!TabShowsStored
  <2>1. ASSUME SettingsInv, NEW t \in Tabs \ behind, page[t] = "settings",
               SETTINGS!Loaded(t), clicked[t] = <<>>,
               NEW f \in {"email", "telegram", "chat", "short"}
        PROVE  shown[t][f] = stored[f]
    <3>1. Settled(t) /\ Len(clicked[t]) = 0
      BY <2>1 DEF SettingsInv, TabInv
    <3>2. reads[t]["prefs"] = "ok" /\ reads[t]["short"] = "ok"
      BY <2>1 DEF SETTINGS!Loaded, SETTINGS!QueriesOf
    <3> QED
      BY <2>1, <3>1, <3>2 DEF Settled, FlipShown, ChatShown, Clicks
  <2> QED
    BY <2>1 DEF SETTINGS!TabShowsStored
<1>3. SettingsInv => SETTINGS!HealedIsEnough
  <2>1. ASSUME SettingsInv, NEW t \in Tabs
        PROVE  /\ page[t] # "closed" => \A q \in SETTINGS!QueriesOf(page[t]) :
                                          reads[t][q] # "missed"
               /\ \A i \in DOMAIN clicked[t] : clicked[t][i].at # "unhealed"
    <3>1. PrefTypes /\ Healed(t)
      BY <2>1 DEF SettingsInv, TabInv
    <3>2. /\ DOMAIN clicked[t] = 1 .. Len(clicked[t])
          /\ \A i \in 1 .. Len(clicked[t]) : clicked[t][i] \in PrefCalls
      BY <3>1, PrefFields
    <3>3. \A c \in PrefCalls : c.at # "unhealed"
      BY DEF PrefCalls
    <3> QED
      BY <3>1, <3>2, <3>3 DEF Healed
  <2> QED
    BY <2>1 DEF SETTINGS!HealedIsEnough
<1> QED
  BY <1>1, <1>2, <1>3, SettingsInvariant, PTL DEF SettingsHonest
-----------------------------------------------------------------------------
(***************************************************************************)
(* What the pages compute from the trades.  Every view is a sum over the   *)
(* classes of the executed trades, so it agrees with the totals by the     *)
(* lemmas of Recursion, however many trades, strategies, venues and days   *)
(* there are; and a day belongs to the one fiscal year whose bounds hold   *)
(* it, whatever day of the year that year starts on.                       *)
(***************************************************************************)

Trade == [strategy : {l.strategy : l \in Legs}, dry : {l.dry : l \in Legs},
          side : {"buy", "sell"}, status : {"placed", "dry_run", "error"}, pnl : Int,
          day : Nat, venue : BookVenues]

ReadInv ==
  /\ trades \in Seq(Trade) /\ today \in 0 .. MaxToday /\ linked \in BookVenues
  /\ \A i \in 1 .. Len(trades) : trades[i].day <= today

\* No trade, day or exchange is anything else at the start.
LEMMA ReadStarts == READ!ReadInit => ReadInv
BY ScreensAssumption DEF READ!ReadInit, ReadInv

\* A trade is recorded as of its day, and days only pass.
LEMMA ReadSteps == ReadInv /\ [READ!ReadNext]_readVars => ReadInv'
<1> SUFFICES ASSUME ReadInv, [READ!ReadNext]_readVars PROVE ReadInv'
  OBVIOUS
<1>1. ASSUME NEW leg \in Legs, READ!publish(leg) PROVE ReadInv'
  <2> DEFINE row == [strategy |-> leg.strategy, side |-> leg.side, status |-> leg.status,
                     dry |-> leg.dry, pnl |-> leg.pnl, day |-> today, venue |-> linked]
  <2>1. row \in Trade
    <3>1. /\ leg.side \in {"buy", "sell"} /\ leg.status \in {"placed", "dry_run", "error"}
          /\ leg.pnl \in Int
      <4>1. leg.side \in {"buy", "sell"}
        BY DEF Legs, Leg
      <4>3. leg.status \in {"placed", "dry_run", "error"}
        BY DEF Legs, Leg
      <4>2. leg.pnl \in {-1, 3, -2, 2, 1}
        BY DEF Legs, Leg
      <4> QED
        BY <4>1, <4>2, <4>3
    <3> QED
      BY <3>1 DEF Trade, ReadInv
  <2>2. trades' = Append(trades, row) /\ UNCHANGED <<today, linked>>
    BY <1>1 DEF READ!publish
  <2>3. row.day = today
    OBVIOUS
  <2> HIDE DEF row
  <2>4. trades' \in Seq(Trade) /\ Len(trades') = Len(trades) + 1 /\ Len(trades) \in Nat
        /\ trades'[Len(trades) + 1] = row
        /\ \A i \in 1 .. Len(trades) : trades'[i] = trades[i]
    BY <2>1, <2>2 DEF ReadInv
  <2>5. ASSUME NEW i \in 1 .. Len(trades) + 1 PROVE trades'[i].day <= today
    <3>1. i \in 1 .. Len(trades) \/ i = Len(trades) + 1
      BY <2>4
    <3> QED
      BY <2>3, <2>4, <3>1 DEF ReadInv
  <2> QED
    BY <2>2, <2>4, <2>5 DEF ReadInv
<1>2. CASE READ!DayPasses
  <2>1. \A i \in 1 .. Len(trades) : trades[i].day \in Nat
    <3>1. \A i \in 1 .. Len(trades) : trades[i] \in Trade
      BY DEF ReadInv
    <3> QED
      BY <3>1 DEF Trade
  <2> QED
    BY <1>2, <2>1, ScreensAssumption DEF READ!DayPasses, ReadInv
<1>3. ASSUME NEW v \in BookVenues, READ!switchExchange(v) PROVE ReadInv'
  BY <1>3 DEF READ!switchExchange, ReadInv
<1>4. CASE UNCHANGED readVars
  BY <1>4 DEF readVars, ReadInv
<1> QED
  BY <1>1, <1>2, <1>3, <1>4 DEF READ!ReadNext

\* The operators of the queries are those the lemmas speak of.
LEMMA TotalIsSum == ASSUME NEW f, NEW S PROVE READ!Total(f, S) = SumOver(f, S)
BY DEF READ!Total, SumOver, READ!MapThenSumSet, READ!MapThenFoldSet, MapThenSumSet,
   MapThenFoldSet

\* So does the size of a set.
LEMMA SameCount == ASSUME NEW S PROVE READ!Cardinality(S) = Cardinality(S)
BY DEF READ!Cardinality, Cardinality

\* The executed trades, whose money counts.
LEMMA ExecutedTrades ==
  ASSUME ReadInv
  PROVE  /\ IsFiniteSet(DOMAIN trades) /\ IsFiniteSet(READ!EXECUTED)
         /\ \A S \in SUBSET (DOMAIN trades) : IsFiniteSet(S)
         /\ READ!EXECUTED \subseteq DOMAIN trades
         /\ \A i \in DOMAIN trades : /\ trades[i] \in Trade
                                     /\ READ!pnlOf[i] = trades[i].pnl
                                     /\ READ!pnlOf[i] \in Int
                                     /\ trades[i].day \in 0 .. today
<1>1. DOMAIN trades = 1 .. Len(trades) /\ Len(trades) \in Nat
      /\ \A i \in 1 .. Len(trades) : trades[i] \in Trade
  BY DEF ReadInv
<1>2. IsFiniteSet(1 .. Len(trades))
  BY <1>1, FS_Interval
<1>3. READ!EXECUTED \subseteq DOMAIN trades
  BY DEF READ!EXECUTED
<1>4. \A S \in SUBSET (DOMAIN trades) : IsFiniteSet(S)
  BY <1>1, <1>2, FS_Subset
<1>5. \A i \in DOMAIN trades : READ!pnlOf[i] = trades[i].pnl
  BY DEF READ!pnlOf
<1>6. \A i \in DOMAIN trades : trades[i].pnl \in Int /\ trades[i].day \in 0 .. today
  BY <1>1 DEF ReadInv, Trade
<1> QED
  BY <1>1, <1>2, <1>3, <1>4, <1>5, <1>6

\* The breakdown by strategy and venue adds up.
LEMMA ByKeyAddsUp ==
  ASSUME ReadInv
  PROVE  LET b == READ!strategyBreakdown
             Column(field) == READ!Total([k \in DOMAIN b |-> b[k][field]], DOMAIN b)
         IN /\ READ!tradeStats.pnl = Column("pnl")
            /\ READ!tradeStats.total = Column("trades")
            /\ READ!tradeStats.wins = Column("wins")
            /\ READ!tradeStats.losses = Column("losses")
<1> DEFINE E == READ!EXECUTED
           b == READ!strategyBreakdown
           h == [i \in E |-> READ!KeyOf(i)]
           K == {READ!KeyOf(i) : i \in E}
           Class(S, k) == {i \in S : h[i] = k}
<1>1. IsFiniteSet(E) /\ \A S \in SUBSET E : IsFiniteSet(S)
      /\ \A i \in E : READ!pnlOf[i] \in Int
  BY ExecutedTrades
<1>2. IsFiniteSet(K) /\ \A i \in E : h[i] \in K
  <2>1. h \in Surjection(E, K) /\ \A i \in E : h[i] \in K
    BY DEF Surjection
  <2> HIDE DEF h, K
  <2> QED
    BY <1>1, <2>1, FS_Surjection
<1>3. ASSUME NEW k \in K
      PROVE  /\ b[k].pnl = SumOver(READ!pnlOf, Class(E, k))
             /\ b[k].trades = Cardinality(Class(E, k))
             /\ b[k].wins = Cardinality(Class(READ!Won(E), k))
             /\ b[k].losses = Cardinality(Class(READ!Lost(E), k))
  <2> DEFINE S == {i \in E : READ!KeyOf(i) = k}
  <2>1. /\ b[k].pnl = READ!Total(READ!pnlOf, S)
        /\ b[k].trades = READ!Cardinality(S)
        /\ b[k].wins = READ!Cardinality(READ!Won(S))
        /\ b[k].losses = READ!Cardinality(READ!Lost(S))
    BY DEF READ!strategyBreakdown
  <2>2. /\ S = Class(E, k) /\ READ!Won(S) = Class(READ!Won(E), k)
        /\ READ!Lost(S) = Class(READ!Lost(E), k)
    BY DEF READ!Won, READ!Lost
  <2> QED
    BY <2>1, <2>2, TotalIsSum, SameCount
<1>4. DOMAIN b = K
  BY DEF READ!strategyBreakdown
<1>5. /\ READ!tradeStats.pnl = SumOver(READ!pnlOf, E)
      /\ READ!tradeStats.total = Cardinality(E)
      /\ READ!tradeStats.wins = Cardinality(READ!Won(E))
      /\ READ!tradeStats.losses = Cardinality(READ!Lost(E))
  BY TotalIsSum, SameCount DEF READ!tradeStats
<1>6. READ!Won(E) \subseteq E /\ READ!Lost(E) \subseteq E
  BY DEF READ!Won, READ!Lost
<1> HIDE DEF E, h, K, b
<1>7. SumOver(READ!pnlOf, E) = SumOver([k \in K |-> SumOver(READ!pnlOf, Class(E, k))], K)
  <2>1. IsFiniteSet(E) /\ IsFiniteSet(K)
    BY <1>1, <1>2
  <2>2. (\A i \in E : h[i] \in K) /\ (\A i \in E : READ!pnlOf[i] \in Int)
    BY <1>1, <1>2
  <2> HIDE DEF Class
  <2>3. SumOver(READ!pnlOf, E) =
          SumOver([k \in K |-> SumOver(READ!pnlOf, {i \in E : h[i] = k})], K)
    BY <2>1, <2>2, SumFibres
  <2> QED
    BY <2>3 DEF Class
<1>8. \A S \in SUBSET E :
        Cardinality(S) = SumOver([k \in K |-> Cardinality(Class(S, k))], K)
  BY <1>1, <1>2, CountFibres
<1>9. /\ [k \in DOMAIN b |-> b[k]["pnl"]] = [k \in K |-> SumOver(READ!pnlOf, Class(E, k))]
      /\ [k \in DOMAIN b |-> b[k]["trades"]] = [k \in K |-> Cardinality(Class(E, k))]
      /\ [k \in DOMAIN b |-> b[k]["wins"]] = [k \in K |-> Cardinality(Class(READ!Won(E), k))]
      /\ [k \in DOMAIN b |-> b[k]["losses"]] = [k \in K |-> Cardinality(Class(READ!Lost(E), k))]
  BY <1>3, <1>4
<1>10. /\ READ!Total([k \in DOMAIN b |-> b[k]["pnl"]], DOMAIN b) = READ!tradeStats.pnl
       /\ READ!Total([k \in DOMAIN b |-> b[k]["trades"]], DOMAIN b) = READ!tradeStats.total
       /\ READ!Total([k \in DOMAIN b |-> b[k]["wins"]], DOMAIN b) = READ!tradeStats.wins
       /\ READ!Total([k \in DOMAIN b |-> b[k]["losses"]], DOMAIN b) = READ!tradeStats.losses
  <2>1. READ!Total([k \in DOMAIN b |-> b[k]["pnl"]], DOMAIN b) = READ!tradeStats.pnl
    BY <1>4, <1>5, <1>7, <1>9, TotalIsSum
  <2>2. READ!Total([k \in DOMAIN b |-> b[k]["trades"]], DOMAIN b) = READ!tradeStats.total
    BY <1>4, <1>5, <1>8, <1>9, TotalIsSum
  <2>3. READ!Total([k \in DOMAIN b |-> b[k]["wins"]], DOMAIN b) = READ!tradeStats.wins
    BY <1>4, <1>5, <1>6, <1>8, <1>9, TotalIsSum
  <2>4. READ!Total([k \in DOMAIN b |-> b[k]["losses"]], DOMAIN b) = READ!tradeStats.losses
    BY <1>4, <1>5, <1>6, <1>8, <1>9, TotalIsSum
  <2> QED
    BY <2>1, <2>2, <2>3, <2>4
<1> QED
  BY <1>10 DEF b

\* The days add up too: with as many days as can have passed, none is cut off.
LEMMA ByDayAddsUp ==
  ASSUME ReadInv
  PROVE  LET d == READ!dailyPnl(MaxToday + 1)
             Column(field) == READ!Total([k \in DOMAIN d |-> d[k][field]], DOMAIN d)
         IN /\ READ!tradeStats.pnl = Column("pnl")
            /\ READ!tradeStats.total = Column("trades")
<1> DEFINE E == READ!EXECUTED
           days == READ!TradeDays
           d == READ!dailyPnl(MaxToday + 1)
           h == [i \in E |-> trades[i].day]
           Class(k) == {i \in E : h[i] = k}
<1>1. /\ IsFiniteSet(E) /\ \A i \in E : READ!pnlOf[i] \in Int
      /\ \A i \in E : trades[i].day \in 0 .. today
  BY ExecutedTrades
<1>2. today \in 0 .. MaxToday /\ MaxToday \in Nat
  BY ScreensAssumption DEF ReadInv
<1>3. days \subseteq 0 .. MaxToday /\ (\A i \in E : h[i] \in days)
  BY <1>1, <1>2 DEF READ!TradeDays
<1>4. IsFiniteSet(0 .. MaxToday) /\ Cardinality(0 .. MaxToday) = MaxToday + 1
  <2>1. 0 \in Int /\ MaxToday \in Int /\ 0 <= MaxToday
    BY <1>2
  <2> QED
    BY <1>2, <2>1, FS_Interval
<1>5. IsFiniteSet(days)
  BY <1>3, <1>4, FS_Subset
<1>6. ASSUME NEW k \in days
      PROVE  READ!Cardinality({e \in days : e > k}) < MaxToday + 1
  <2> DEFINE S == {e \in days : e > k}
  <2>1. S \subseteq 0 .. MaxToday /\ k \notin S /\ k \in 0 .. MaxToday
    <3>1. days \subseteq 0 .. MaxToday
      BY <1>3
    <3>2. k \in 0 .. MaxToday /\ ~(k > k)
      BY <1>2, <3>1
    <3> HIDE DEF days
    <3> QED
      BY <3>1, <3>2
  <2>2. /\ IsFiniteSet(S) /\ Cardinality(S) <= Cardinality(0 .. MaxToday)
        /\ Cardinality(0 .. MaxToday) = Cardinality(S) => S = 0 .. MaxToday
    <3> HIDE DEF S
    <3> QED
      BY <1>4, <2>1, FS_Subset
  <2>3. Cardinality(S) \in Nat
    BY <2>2, FS_CardinalityType
  <2>4. Cardinality(S) < MaxToday + 1
    <3> HIDE DEF S
    <3> QED
      BY <1>2, <1>4, <2>1, <2>2, <2>3
  <2> QED
    BY <2>4, SameCount
<1>7. DOMAIN d = days
  BY <1>6 DEF READ!dailyPnl
<1>8. ASSUME NEW k \in days
      PROVE  /\ d[k].pnl = SumOver(READ!pnlOf, Class(k))
             /\ d[k].trades = Cardinality(Class(k))
  <2> DEFINE S == {i \in E : trades[i].day = k}
  <2>1. d[k].pnl = READ!Total(READ!pnlOf, S) /\ d[k].trades = READ!Cardinality(S)
    BY <1>6 DEF READ!dailyPnl
  <2>2. S = Class(k)
    OBVIOUS
  <2> QED
    BY <2>1, <2>2, TotalIsSum, SameCount
<1>9. /\ READ!tradeStats.pnl = SumOver(READ!pnlOf, E)
      /\ READ!tradeStats.total = Cardinality(E)
  BY TotalIsSum, SameCount DEF READ!tradeStats
<1> HIDE DEF E, h, days, d
<1>10. SumOver(READ!pnlOf, E) = SumOver([k \in days |-> SumOver(READ!pnlOf, Class(k))], days)
  <2>1. IsFiniteSet(E) /\ IsFiniteSet(days)
    BY <1>1, <1>5
  <2>2. (\A i \in E : h[i] \in days) /\ (\A i \in E : READ!pnlOf[i] \in Int)
    BY <1>1, <1>3
  <2> HIDE DEF Class
  <2>3. SumOver(READ!pnlOf, E) =
          SumOver([k \in days |-> SumOver(READ!pnlOf, {i \in E : h[i] = k})], days)
    BY <2>1, <2>2, SumFibres
  <2> QED
    BY <2>3 DEF Class
<1>11. Cardinality(E) = SumOver([k \in days |-> Cardinality(Class(k))], days)
  <2>1. IsFiniteSet(E) /\ IsFiniteSet(days)
    BY <1>1, <1>5
  <2>2. \A i \in E : h[i] \in days
    BY <1>3
  <2> HIDE DEF Class
  <2>3. Cardinality(E) =
          SumOver([k \in days |-> Cardinality({i \in E : h[i] = k})], days)
    BY <2>1, <2>2, CountFibres
  <2> QED
    BY <2>3 DEF Class
<1>12. /\ [k \in DOMAIN d |-> d[k]["pnl"]] = [k \in days |-> SumOver(READ!pnlOf, Class(k))]
       /\ [k \in DOMAIN d |-> d[k]["trades"]] = [k \in days |-> Cardinality(Class(k))]
  BY <1>7, <1>8
<1>13. READ!Total([k \in DOMAIN d |-> d[k]["pnl"]], DOMAIN d) = READ!tradeStats.pnl
  BY <1>7, <1>9, <1>10, <1>12, TotalIsSum
<1>14. READ!Total([k \in DOMAIN d |-> d[k]["trades"]], DOMAIN d) = READ!tradeStats.total
  BY <1>7, <1>9, <1>11, <1>12, TotalIsSum
<1> QED
  BY <1>13, <1>14 DEF d

\* The views agree with each other.
LEMMA ViewsAgreeCorrect == ReadInv => READ!ViewsAgree
<1> SUFFICES ASSUME ReadInv PROVE READ!ViewsAgree
  OBVIOUS
<1>1. READ!tradeStats.pnl = READ!tradeStats.livePnl + READ!tradeStats.paperPnl
  <2> DEFINE E == READ!EXECUTED
             A == READ!Live(E)
  <2>1. /\ READ!tradeStats.pnl = SumOver(READ!pnlOf, E)
        /\ READ!tradeStats.livePnl = SumOver(READ!pnlOf, A)
        /\ READ!tradeStats.paperPnl = SumOver(READ!pnlOf, E \ A)
    BY TotalIsSum DEF READ!tradeStats
  <2>2. A \in SUBSET E /\ IsFiniteSet(E) /\ \A i \in E : READ!pnlOf[i] \in Int
    BY ExecutedTrades DEF READ!Live
  <2> HIDE DEF E, A
  <2> QED
    BY <2>1, <2>2, SumSplit
<1>2. READ!tradeStats.pnl =
        READ!Total(READ!pnlOf, {i \in DOMAIN trades : trades[i].status \in READ!Placed})
  BY DEF READ!tradeStats, READ!EXECUTED
<1> QED
  BY <1>1, <1>2, ByKeyAddsUp, ByDayAddsUp DEF READ!ViewsAgree

\* The fiscal year of a day is the one whose bounds hold it.
LEMMA YearHoldsDay ==
  ASSUME NEW n \in Nat
  PROVE  /\ READ!FYof(n) \in Int
         /\ READ!FYof(n) * YEAR + APRIL <= n
         /\ n < (READ!FYof(n) + 1) * YEAR + APRIL
         /\ READ!FYof(n) <= n \div YEAR + 1
<1>1. YEAR \in Nat \ {0} /\ APRIL \in 0 .. YEAR - 1
  BY ScreensAssumption
<1>2. PICK q \in Int, m \in 0 .. YEAR - 1 :
        q = n \div YEAR /\ m = n % YEAR /\ n = q * YEAR + m
  BY <1>1
<1>3. CASE m >= APRIL
  <2>1. READ!FYof(n) = q
    BY <1>2, <1>3 DEF READ!FYof
  <2>2. (q + 1) * YEAR = q * YEAR + YEAR /\ q * YEAR \in Int
    BY <1>1, <1>2
  <2> QED
    BY <1>1, <1>2, <1>3, <2>1, <2>2
<1>4. CASE m < APRIL
  <2>1. READ!FYof(n) = q - 1
    BY <1>1, <1>2, <1>4 DEF READ!FYof
  <2>2. (q - 1) * YEAR = q * YEAR - YEAR /\ ((q - 1) + 1) * YEAR = q * YEAR
        /\ q * YEAR \in Int
    BY <1>1, <1>2
  <2> QED
    BY <1>1, <1>2, <1>4, <2>1, <2>2
<1> QED
  BY <1>1, <1>2, <1>3, <1>4

\* Years do not overlap: an earlier one ends before a later one starts.
LEMMA YearsApart ==
  ASSUME NEW y \in Int, NEW z \in Int, y < z
  PROVE  (y + 1) * YEAR + APRIL <= z * YEAR + APRIL
<1>1. YEAR \in Nat /\ APRIL \in Int
  BY ScreensAssumption
<1>2. PICK k \in Nat : z = (y + 1) + k
  <2>1. z - (y + 1) \in Nat /\ z = (y + 1) + (z - (y + 1))
    OBVIOUS
  <2> QED
    BY <2>1
<1>3. ((y + 1) + k) * YEAR = (y + 1) * YEAR + k * YEAR /\ k * YEAR \in Nat
      /\ (y + 1) * YEAR \in Int
  BY <1>1
<1> QED
  BY <1>1, <1>2, <1>3

\* A sale is in the report of the year its day belongs to, and in no other.
LEMMA TaxedOnce ==
  ASSUME ReadInv, NEW i \in DOMAIN trades,
         trades[i].side = "sell", trades[i].status = "placed", ~trades[i].dry
  PROVE  /\ READ!Cardinality({y \in READ!FYof(0) .. READ!FYof(MaxToday) :
                                i \in READ!taxReport(y)}) = 1
         /\ trades[i].day = today => i \in READ!Disposals(READ!financialYear(today))
<1> DEFINE n == trades[i].day
           y == READ!FYof(n)
           years == READ!FYof(0) .. READ!FYof(MaxToday)
<1>1. n \in Nat /\ 0 <= n /\ n <= MaxToday /\ today \in Nat
  BY ExecutedTrades, ScreensAssumption DEF ReadInv
<1>2. YEAR \in Nat /\ APRIL \in Int /\ MaxToday \in Nat
  BY ScreensAssumption
<1>3. y \in Int /\ y * YEAR + APRIL <= n /\ n < (y + 1) * YEAR + APRIL
  BY <1>1, YearHoldsDay
<1>4. \A z \in Int : i \in READ!taxReport(z) <=>
                     z * YEAR + APRIL <= n /\ n < (z + 1) * YEAR + APRIL
  <2>1. ASSUME NEW z \in Int PROVE z * YEAR + APRIL \in Int /\ (z + 1) * YEAR + APRIL \in Int
    BY <1>2
  <2> QED
    BY <1>1, <2>1 DEF READ!taxReport, READ!Disposals, READ!Bounds
\* Two days in order have their years in order.
<1>5. ASSUME NEW a \in Nat, NEW b \in Nat, a <= b PROVE READ!FYof(a) <= READ!FYof(b)
  <2> DEFINE u == READ!FYof(a)
             v == READ!FYof(b)
  <2>1. /\ u \in Int /\ v \in Int
        /\ u * YEAR + APRIL <= a /\ b < (v + 1) * YEAR + APRIL
    BY YearHoldsDay
  <2>2. v < u => (v + 1) * YEAR + APRIL <= u * YEAR + APRIL
    <3> HIDE DEF u, v
    <3> QED
      BY <2>1, YearsApart
  <2>3. u * YEAR + APRIL \in Int /\ (v + 1) * YEAR + APRIL \in Int
    <3> HIDE DEF u, v
    <3> QED
      BY <1>2, <2>1
  <2>4. u <= v
    <3> HIDE DEF u, v
    <3> QED
      BY <1>5, <2>1, <2>2, <2>3
  <2> QED
    BY <2>4
<1>6. y \in years
  <2>1. READ!FYof(0) \in Int /\ READ!FYof(MaxToday) \in Int
    BY <1>2, YearHoldsDay
  <2>2. READ!FYof(0) <= y /\ y <= READ!FYof(MaxToday)
    BY <1>1, <1>2, <1>5
  <2> QED
    BY <1>3, <2>1, <2>2
<1>7. ASSUME NEW z \in Int, z # y, i \in READ!taxReport(z) PROVE FALSE
  <2>1. z * YEAR + APRIL <= n /\ n < (z + 1) * YEAR + APRIL
    BY <1>4, <1>7
  <2> HIDE DEF y, n
  <2>2. /\ z < y => (z + 1) * YEAR + APRIL <= y * YEAR + APRIL
        /\ y < z => (y + 1) * YEAR + APRIL <= z * YEAR + APRIL
    BY <1>3, YearsApart
  <2>3. \A w \in Int : w * YEAR + APRIL \in Int /\ (w + 1) * YEAR + APRIL \in Int
    BY <1>2
  <2> QED
    BY <1>1, <1>3, <1>7, <2>1, <2>2, <2>3
<1>8. {z \in years : i \in READ!taxReport(z)} = {y}
  <2>1. \A z \in years : z \in Int
    OBVIOUS
  <2>2. i \in READ!taxReport(y)
    BY <1>3, <1>4
  <2> HIDE DEF y, years
  <2> QED
    BY <1>6, <1>7, <2>1, <2>2
<1>9. READ!Cardinality({z \in years : i \in READ!taxReport(z)}) = 1
  <2> HIDE DEF y, years
  <2> QED
    BY <1>8, SameCount, FS_Singleton
<1>10. n = today => i \in READ!Disposals(READ!financialYear(today))
  BY <1>3, <1>4 DEF READ!taxReport, READ!financialYear
<1> QED
  BY <1>9, <1>10

\* Gains and losses of a year are all its report holds: the rest is zero.
LEMMA SummaryIsReport ==
  ASSUME ReadInv, NEW y \in Int
  PROVE  LET s == READ!taxSummary(READ!Bounds(y))
         IN s.gains + s.losses = READ!Total(READ!pnlOf, READ!taxReport(y))
<1> DEFINE S == READ!taxReport(y)
           W == READ!Won(S)
           L == READ!Lost(S)
           f == READ!pnlOf
<1>1. S \subseteq DOMAIN trades /\ \A i \in S : trades[i].side = "sell"
  BY DEF READ!taxReport, READ!Disposals
<1>2. IsFiniteSet(S) /\ \A i \in S : f[i] \in Int /\ f[i] = trades[i].pnl
  BY <1>1, ExecutedTrades
<1>3. /\ W \in SUBSET S /\ L \in SUBSET (S \ W)
      /\ \A i \in (S \ W) \ L : f[i] = 0
  BY <1>1, <1>2 DEF READ!Won, READ!Lost
<1>4. /\ READ!taxSummary(READ!Bounds(y)).gains = SumOver(f, W)
      /\ READ!taxSummary(READ!Bounds(y)).losses = SumOver(f, L)
  BY TotalIsSum DEF READ!taxSummary, READ!taxReport
<1> HIDE DEF S, W, L, f
<1>5. \A i \in S : f[i] \in Int
  BY <1>2
<1>6. SumOver(f, S) = SumOver(f, W) + SumOver(f, S \ W)
  BY <1>2, <1>3, <1>5, SumSplit
<1>7. IsFiniteSet(S \ W) /\ IsFiniteSet((S \ W) \ L) /\ IsFiniteSet(L) /\ IsFiniteSet(W)
  BY <1>2, <1>3, FS_Subset
<1>8. SumOver(f, S \ W) = SumOver(f, L) + SumOver(f, (S \ W) \ L)
  <2>1. \A i \in S \ W : f[i] \in Int
    BY <1>5
  <2> QED
    BY <1>3, <1>7, <2>1, SumSplit
<1>9. SumOver(f, (S \ W) \ L) = 0
  BY <1>3, <1>7, SumZero
<1>10. SumOver(f, L) \in Int /\ SumOver(f, W) \in Int
  <2>1. (\A i \in L : f[i] \in Int) /\ (\A i \in W : f[i] \in Int)
    BY <1>3, <1>5
  <2> QED
    BY <1>7, <2>1, SumInt
<1>11. SumOver(f, W) + SumOver(f, L) = SumOver(f, S)
  BY <1>6, <1>8, <1>9, <1>10
<1> QED
  BY <1>4, <1>11, TotalIsSum DEF S, f

\* The invariant of the reports among the machines of the run.
THEOREM ReadInvariant == ScreensSpec => []ReadInv
<1>1. ScreensInit => ReadInv
  BY ReadStarts DEF ScreensInit
<1>2. ReadInv /\ [ScreensNext]_screensVars => ReadInv'
  <2>1. [ScreensNext]_screensVars => [READ!ReadNext]_readVars
    BY DEF ScreensNext, screensVars
  <2> QED
    BY <2>1, ReadSteps
<1> QED
  BY <1>1, <1>2, PTL DEF ScreensSpec

\* For any number of trades, days and venues: every view of the trades sums to
\* the same totals, and every live sale is taxed in exactly one fiscal year.
THEOREM ReportsAddUpCorrect == ScreensSpec => []ReportsAddUp
<1>1. ReadInv => READ!EachSaleTaxedOnce
  <2> SUFFICES ASSUME ReadInv PROVE READ!EachSaleTaxedOnce
    OBVIOUS
  <2>1. ASSUME NEW y \in READ!FYof(0) .. READ!FYof(MaxToday) PROVE y \in Int
    OBVIOUS
  <2>2. READ!Accepted(READ!FYof(today))
    <3>1. today \in Nat
      BY ScreensAssumption DEF ReadInv
    <3> QED
      BY <3>1, YearHoldsDay DEF READ!Accepted
  <2> QED
    BY <2>1, <2>2, TaxedOnce, SummaryIsReport DEF READ!EachSaleTaxedOnce
<1>2. ReadInv => ReportsAddUp
  BY <1>1, ViewsAgreeCorrect DEF ReportsAddUp
<1> QED
  BY <1>2, ReadInvariant, PTL
-----------------------------------------------------------------------------
(***************************************************************************)
(* The equity curve.  The snapshots are in time order, which is why a      *)
(* window is the end of the log; the arithmetic of the stride bounds the   *)
(* points and the gaps; and the running maximum of the page is the worst   *)
(* fall by a minimal set of points for which it would not be.              *)
(***************************************************************************)

CurveRow == [hour : Nat, equity : Equities]

CurveInv ==
  /\ snaps \in Seq(CurveRow) /\ hour \in 0 .. MaxHour
  /\ \A i \in 1 .. Len(snaps) : snaps[i].hour <= hour
  /\ \A i, j \in 1 .. Len(snaps) : i <= j => snaps[i].hour <= snaps[j].hour

\* A snapshot is written at the hour it is, the last one of the log.
LEMMA CurveSteps == CurveInv /\ [CURVE!CurveNext]_curveVars => CurveInv'
<1> SUFFICES ASSUME CurveInv, [CURVE!CurveNext]_curveVars PROVE CurveInv'
  OBVIOUS
<1>1. ASSUME NEW v \in Equities, CURVE!snapshot(v) PROVE CurveInv'
  <2> DEFINE row == [hour |-> hour, equity |-> v]
  <2>1. row \in CurveRow /\ row.hour = hour /\ hour \in Nat
    BY ScreensAssumption DEF CurveInv, CurveRow
  <2>2. snaps' = Append(snaps, row) /\ UNCHANGED hour
    BY <1>1 DEF CURVE!snapshot
  <2> HIDE DEF row
  <2>3. /\ snaps' \in Seq(CurveRow) /\ Len(snaps) \in Nat
        /\ Len(snaps') = Len(snaps) + 1 /\ snaps'[Len(snaps) + 1] = row
        /\ \A i \in 1 .. Len(snaps) : snaps'[i] = snaps[i]
    BY <2>1, <2>2 DEF CurveInv
  <2>4. ASSUME NEW i \in 1 .. Len(snaps) + 1 PROVE snaps'[i].hour <= hour
    <3>1. i \in 1 .. Len(snaps) \/ i = Len(snaps) + 1
      BY <2>3
    <3> QED
      BY <2>1, <2>3, <3>1 DEF CurveInv
  <2>5. ASSUME NEW i \in 1 .. Len(snaps) + 1, NEW j \in 1 .. Len(snaps) + 1, i <= j
        PROVE  snaps'[i].hour <= snaps'[j].hour
    <3>1. CASE j \in 1 .. Len(snaps)
      <4>1. i \in 1 .. Len(snaps)
        BY <2>3, <2>5, <3>1
      <4> QED
        BY <2>3, <2>5, <3>1, <4>1 DEF CurveInv
    <3>2. CASE j = Len(snaps) + 1
      BY <2>1, <2>3, <2>4, <3>2
    <3> QED
      BY <2>3, <3>1, <3>2
  <2> QED
    BY <2>2, <2>3, <2>4, <2>5 DEF CurveInv
<1>2. CASE CURVE!HourPasses
  <2>1. \A i \in 1 .. Len(snaps) : snaps[i].hour \in Nat
    <3>1. snaps \in Seq(CurveRow)
      BY DEF CurveInv
    <3>2. \A i \in 1 .. Len(snaps) : snaps[i] \in CurveRow
      BY <3>1
    <3> QED
      BY <3>2 DEF CurveRow
  <2>2. snaps' = snaps /\ hour' = hour + 1 /\ hour < MaxHour
    BY <1>2 DEF CURVE!HourPasses
  <2>3. /\ snaps \in Seq(CurveRow) /\ hour \in 0 .. MaxHour /\ MaxHour \in Nat
        /\ \A i \in 1 .. Len(snaps) : snaps[i].hour <= hour
        /\ \A i, j \in 1 .. Len(snaps) : i <= j => snaps[i].hour <= snaps[j].hour
    BY ScreensAssumption DEF CurveInv
  <2>4. hour' \in 0 .. MaxHour /\ \A i \in 1 .. Len(snaps) : snaps[i].hour <= hour'
    BY <2>1, <2>2, <2>3
  <2> QED
    BY <2>2, <2>3, <2>4 DEF CurveInv
<1>3. CASE UNCHANGED curveVars
  BY <1>3 DEF curveVars, CurveInv
<1> QED
  BY <1>1, <1>2, <1>3 DEF CURVE!CurveNext

\* The log is empty at the start and in time order ever after.
THEOREM CurveInvariant == ScreensSpec => []CurveInv
<1>1. ScreensInit => CurveInv
  BY ScreensAssumption DEF ScreensInit, CURVE!CurveInit, CurveInv
<1>2. CurveInv /\ [ScreensNext]_screensVars => CurveInv'
  <2>1. [ScreensNext]_screensVars => [CURVE!CurveNext]_curveVars
    BY DEF ScreensNext, screensVars
  <2> QED
    BY <2>1, CurveSteps
<1> QED
  BY <1>1, <1>2, PTL DEF ScreensSpec

\* The library's count, as the instance writes it.
LEMMA SameCurveCount == ASSUME NEW S PROVE CURVE!Cardinality(S) = Cardinality(S)
BY DEF CURVE!Cardinality, Cardinality

\* What a window leaves out is the beginning of the log, up to some row.
LEMMA WindowRows ==
  ASSUME CurveInv, NEW since \in Int
  PROVE  /\ CURVE!LeftOut(since) \in 0 .. Len(snaps)
         /\ \A i \in 1 .. Len(snaps) : snaps[i].hour >= since <=> i > CURVE!LeftOut(since)
<1> DEFINE n == Len(snaps)
           T == {i \in 1 .. n : snaps[i].hour >= since}
           Out == {i \in DOMAIN snaps : ~(snaps[i].hour >= since)}
<1>1. n \in Nat /\ DOMAIN snaps = 1 .. n /\ \A i \in 1 .. n : snaps[i].hour \in Nat
  <2>1. snaps \in Seq(CurveRow)
    BY DEF CurveInv
  <2>2. \A i \in 1 .. Len(snaps) : snaps[i] \in CurveRow
    BY <2>1
  <2> QED
    BY <2>1, <2>2 DEF CurveRow
<1>2. CURVE!LeftOut(since) = Cardinality(Out)
  BY SameCurveCount DEF CURVE!LeftOut
<1>3. PICK k \in 0 .. n : Out = 1 .. k
  <2>1. CASE T = {}
    BY <1>1, <2>1
  <2>2. CASE T # {}
    <3>1. PICK m \in T : \A i \in T : m <= i
      <4>1. T \subseteq Nat
        BY <1>1
      <4> HIDE DEF T
      <4> QED
        BY <2>2, <4>1, MinimalNat
    <3>2. m - 1 \in 0 .. n
      BY <1>1, <3>1
    <3>3. ASSUME NEW i \in 1 .. n PROVE i \in Out <=> i <= m - 1
      <4>1. CASE i <= m - 1
        BY <1>1, <3>1, <4>1
      <4>2. CASE ~(i <= m - 1)
        <5>1. snaps[m].hour <= snaps[i].hour
          BY <1>1, <3>1, <4>2 DEF CurveInv
        <5> QED
          BY <1>1, <3>1, <4>2, <5>1
      <4> QED
        BY <4>1, <4>2
    <3>4. Out = 1 .. (m - 1)
      <4> HIDE DEF T
      <4>1. Out \subseteq 1 .. n
        BY <1>1
      <4>2. 1 .. (m - 1) \subseteq 1 .. n /\ m - 1 \in Int
            /\ \A i \in 1 .. n : i <= m - 1 <=> i \in 1 .. (m - 1)
        BY <1>1, <3>2
      <4> HIDE DEF Out, n
      <4> QED
        BY <3>3, <4>1, <4>2
    <3> QED
      BY <3>2, <3>4
  <2> QED
    BY <2>1, <2>2
<1>4. Cardinality(Out) = k
  <2>1. k \in Int /\ 1 \in Int /\ k >= 0
    BY <1>1
  <2>2. Cardinality(1 .. k) = IF 1 > k THEN 0 ELSE k - 1 + 1
    BY <2>1, FS_Interval
  <2>3. Cardinality(1 .. k) = k
    BY <2>1, <2>2
  <2> QED
    BY <1>3, <2>3, Zenon
<1> QED
  <2>1. \A i \in 1 .. n : i \in Out <=> ~(snaps[i].hour >= since)
    BY <1>1
  <2> HIDE DEF Out, T
  <2> QED
    BY <1>1, <1>2, <1>3, <1>4, <2>1

\* The rows of a window, as many as are not left out.
LEMMA RowsOfWindow ==
  ASSUME CurveInv, NEW since \in Int
  PROVE  /\ Len(CURVE!InWindow(since)) = Len(snaps) - CURVE!LeftOut(since)
         /\ Len(CURVE!InWindow(since)) \in Nat
         /\ \A r \in 1 .. Len(CURVE!InWindow(since)) :
              CURVE!InWindow(since)[r].equity \in Int
<1> DEFINE n == Len(snaps)
           k == CURVE!LeftOut(since)
<1>1. k \in 0 .. n /\ n \in Nat /\ snaps \in Seq(CurveRow)
  BY SMTT(30), WindowRows DEF CurveInv
<1>2. CURVE!InWindow(since) = SubSeq(snaps, k + 1, n)
  BY DEF CURVE!InWindow
<1> HIDE DEF k
<1>3. /\ Len(SubSeq(snaps, k + 1, n)) = n - k
      /\ \A r \in 1 .. (n - k) : SubSeq(snaps, k + 1, n)[r] = snaps[k + r]
      /\ \A r \in 1 .. (n - k) : k + r \in 1 .. n
  BY <1>1
<1>4. \A i \in 1 .. n : snaps[i].equity \in Int
  <2>1. \A i \in 1 .. n : snaps[i] \in CurveRow
    BY <1>1
  <2> QED
    BY <2>1, ScreensAssumption DEF CurveRow
<1> QED
  BY <1>1, <1>2, <1>3, <1>4 DEF k

\* The stride cuts a window into at most as many stretches as there are points.
LEMMA StrideReaches ==
  ASSUME NEW n \in Nat
  PROVE  /\ CURVE!Stride(n) \in Nat \ {0} /\ n <= CURVE!Stride(n) * POINTS
         /\ CURVE!Stride(n) <= (n + POINTS - 1) \div POINTS + 1
<1>1. POINTS \in Nat \ {0}
  BY ScreensAssumption
<1>2. PICK q \in Int, m \in 0 .. POINTS - 1 :
        q = (n + POINTS - 1) \div POINTS /\ n + POINTS - 1 = q * POINTS + m
  BY <1>1
<1>3. q \in Nat
  <2> SUFFICES ASSUME q <= -1 PROVE FALSE
    BY <1>2
  <2>1. q * POINTS <= (-1) * POINTS
    BY <1>1, <1>2
  <2> QED
    BY <1>1, <1>2, <2>1
<1>4. n <= q * POINTS /\ q * POINTS \in Int
  BY <1>1, <1>2
<1>5. CASE q < 1
  <2>1. CURVE!Stride(n) = 1
    BY <1>2, <1>5 DEF CURVE!Stride
  <2>2. q = 0 /\ n <= 0
    BY <1>3, <1>4, <1>5, <1>1
  <2> QED
    BY <1>1, <1>2, <2>1, <2>2
<1>6. CASE q >= 1
  <2>1. CURVE!Stride(n) = q
    BY <1>2, <1>6 DEF CURVE!Stride
  <2> QED
    BY <1>2, <1>3, <1>4, <1>6, <2>1
<1> QED
  BY <1>2, <1>5, <1>6

\* The points of a curve: no more than asked for, the first row one of them,
\* and less than a stride between a row and the point before it.
LEMMA KeptSpans ==
  ASSUME NEW n \in Nat
  PROVE  /\ CURVE!Kept(n) \subseteq 1 .. n /\ IsFiniteSet(CURVE!Kept(n))
         /\ Cardinality(CURVE!Kept(n)) <= POINTS
         /\ n > 0 => 1 \in CURVE!Kept(n)
         /\ \A r \in 1 .. n : \E q \in CURVE!Kept(n) :
              q <= r /\ r - q < (n + POINTS - 1) \div POINTS + 1
<1> DEFINE K == CURVE!Kept(n)
           S == CURVE!Stride(n)
           D == (n + POINTS - 1) \div POINTS
<1>1. POINTS \in Nat \ {0} /\ S \in Nat \ {0} /\ n <= S * POINTS /\ D \in Int /\ S <= D + 1
  BY StrideReaches, ScreensAssumption
<1>2. K = {r \in 1 .. n : n <= POINTS \/ (r - 1) % S = 0}
  BY DEF CURVE!Kept
<1>3. IsFiniteSet(1 .. n) /\ Cardinality(1 .. n) = n
  <2>1. 1 \in Int /\ n \in Int
    OBVIOUS
  <2>2. IsFiniteSet(1 .. n) /\ Cardinality(1 .. n) = IF 1 > n THEN 0 ELSE n - 1 + 1
    BY <2>1, FS_Interval
  <2> QED
    BY <2>2
<1> HIDE DEF K, S, D
<1>4. K \subseteq 1 .. n
  BY <1>2
<1>5. IsFiniteSet(K) /\ Cardinality(K) <= n /\ Cardinality(K) \in Nat
  <2>1. IsFiniteSet(K) /\ Cardinality(K) <= Cardinality(1 .. n)
    BY <1>3, <1>4, FS_Subset
  <2> QED
    BY <1>3, <2>1, FS_CardinalityType
<1>6. ASSUME NEW r \in 1 .. n
      PROVE  \E d \in Nat, m \in 0 .. S - 1 :
               /\ d = (r - 1) \div S /\ m = (r - 1) % S /\ r - 1 = S * d + m
               /\ d <= POINTS - 1
  <2>1. PICK d \in Int, m \in 0 .. S - 1 :
          d = (r - 1) \div S /\ m = (r - 1) % S /\ r - 1 = S * d + m
    BY <1>1
  <2>2. d >= 0
    <3> SUFFICES ASSUME d <= -1 PROVE FALSE
      BY <2>1
    <3>1. S * d <= S * (-1)
      BY <1>1, <2>1
    <3> QED
      BY <1>1, <2>1, <3>1
  <2>3. d <= POINTS - 1
    <3> SUFFICES ASSUME d >= POINTS PROVE FALSE
      BY <1>1, <2>1
    <3>1. PICK k \in Nat : d = POINTS + k
      <4>1. d - POINTS \in Nat /\ d = POINTS + (d - POINTS)
        BY <1>1
      <4> QED
        BY <4>1
    <3>2. S * (POINTS + k) = S * POINTS + S * k /\ S * k \in Nat /\ S * POINTS \in Nat
      BY <1>1
    <3> QED
      BY <1>1, <2>1, <3>1, <3>2
  <2> QED
    BY <2>1, <2>2, <2>3
<1>7. Cardinality(K) <= POINTS
  <2>1. CASE n <= POINTS
    BY <1>1, <1>5, <2>1
  <2>2. CASE n > POINTS
    <3> DEFINE f == [r \in K |-> (r - 1) \div S]
    <3>1. ASSUME NEW r \in K
          PROVE  f[r] \in 0 .. POINTS - 1 /\ r - 1 = S * f[r]
      <4>1. r \in 1 .. n /\ (r - 1) % S = 0
        BY <1>1, <1>2, <1>4, <2>2
      <4>2. PICK d \in Nat, m \in 0 .. S - 1 :
              /\ d = (r - 1) \div S /\ m = (r - 1) % S /\ r - 1 = S * d + m
              /\ d <= POINTS - 1
        BY <1>6, <4>1
      <4>3. S * d \in Int /\ m = 0 /\ f[r] = d
        BY <1>1, <4>1, <4>2
      <4> QED
        BY <1>1, <4>2, <4>3
    <3>2. f \in [K -> 0 .. POINTS - 1]
      BY <3>1
    <3>3. ASSUME NEW a \in K, NEW b \in K, f[a] = f[b] PROVE a = b
      <4>1. a - 1 = S * f[a] /\ b - 1 = S * f[a] /\ a \in Int /\ b \in Int
        BY <1>4, <3>1, <3>3
      <4>2. a - 1 = b - 1
        BY <4>1, Zenon
      <4> QED
        BY <4>1, <4>2
    <3> HIDE DEF f
    <3>4. f \in Injection(K, 0 .. POINTS - 1)
      BY <3>2, <3>3 DEF Injection, IsInjective
    <3>5. 0 \in Int /\ POINTS - 1 \in Int /\ ~(0 > POINTS - 1) /\ (POINTS - 1) - 0 + 1 = POINTS
      BY <1>1
    <3>6. IsFiniteSet(0 .. POINTS - 1) /\ Cardinality(0 .. POINTS - 1) = POINTS
      BY <3>5, FS_Interval
    <3>7. Cardinality(K) <= Cardinality(0 .. POINTS - 1)
      BY <3>4, <3>6, FS_Injection
    <3> QED
      BY <3>6, <3>7
  <2> QED
    BY <1>1, <2>1, <2>2
<1>8. n > 0 => 1 \in K
  <2> SUFFICES ASSUME n > 0 PROVE 1 \in K
    OBVIOUS
  <2>1. 1 \in 1 .. n
    OBVIOUS
  <2>2. PICK d \in Nat, m \in 0 .. S - 1 : m = (1 - 1) % S /\ 1 - 1 = S * d + m
    BY <1>6, <2>1
  <2>3. S * d \in Nat
    BY <1>1
  <2>4. (1 - 1) % S = 0
    BY <1>1, <2>2, <2>3
  <2> QED
    BY <1>2, <2>1, <2>4
<1>9. ASSUME NEW r \in 1 .. n PROVE \E q \in K : q <= r /\ r - q < D + 1
  <2>1. PICK d \in Nat, m \in 0 .. S - 1 : m = (r - 1) % S /\ r - 1 = S * d + m
    BY <1>6
  <2>2. S * d \in Nat
    BY <1>1
  <2>3. S * d + 1 \in 1 .. n /\ S * d + 1 <= r /\ r - (S * d + 1) < D + 1
    BY <1>1, <2>1, <2>2
  <2>4. ((S * d + 1) - 1) % S = 0
    <3>1. PICK e \in Nat, k \in 0 .. S - 1 :
            k = ((S * d + 1) - 1) % S /\ (S * d + 1) - 1 = S * e + k
      BY <1>6, <2>3
    <3>2. k = S * (d - e) /\ d - e \in Int
      BY <1>1, <2>2, <3>1
    <3>3. CASE d - e >= 1
      <4>1. S * (d - e) >= S * 1
        BY <1>1, <3>2, <3>3
      <4> QED
        BY <1>1, <3>1, <3>2, <4>1
    <3>4. CASE d - e <= -1
      <4>1. S * (d - e) <= S * (-1)
        BY <1>1, <3>2, <3>4
      <4> QED
        BY <1>1, <3>1, <3>2, <4>1
    <3>5. CASE d - e = 0
      BY <1>1, <3>1, <3>2, <3>5
    <3> QED
      BY <3>2, <3>3, <3>4, <3>5
  <2>5. S * d + 1 \in K
    BY <1>2, <2>3, <2>4
  <2> QED
    BY <2>3, <2>5
<1> QED
  BY <1>4, <1>5, <1>7, <1>8, <1>9 DEF K, D

-----------------------------------------------------------------------------
(* The fold of maxDD, as the sums of Recursion: a table of the deepest     *)
(* fall of every set of points.                                            *)

\* One step of the fold, with g the deepest falls of the smaller sets.
Deepened(f, S, g) ==
  IF S = {} THEN <<0, 1>> ELSE CURVE!Deeper(g[S \ {Pick(S)}], f[Pick(S)])

FallTabulates(f, X, g) == g = [S \in SUBSET X |-> Deepened(f, S, g)]

FallTable(f, X) == CHOOSE g : FallTabulates(f, X, g)

\* An entry of a table follows from the smaller ones.
LEMMA FallEntry ==
  ASSUME NEW f, NEW X, NEW g, FallTabulates(f, X, g), NEW S \in SUBSET X
  PROVE  g[S] = Deepened(f, S, g)
BY DEF FallTabulates

\* Two tables agree on every finite set both have.
LEMMA FallTablesAgree ==
  ASSUME NEW f, NEW X, NEW Y, NEW g, NEW h,
         FallTabulates(f, X, g), FallTabulates(f, Y, h),
         NEW S, IsFiniteSet(S), S \subseteq X, S \subseteq Y
  PROVE  g[S] = h[S]
<1> DEFINE T == {R \in SUBSET S : g[R] # h[R]}
<1> SUFFICES ASSUME T # {} PROVE FALSE
  OBVIOUS
<1>1. \A R \in T : IsFiniteSet(R)
  BY FS_Subset
<1>2. PICK R \in T : \A Q \in T : Q \subseteq R => Q = R
  <2> HIDE DEF T
  <2> QED
    BY <1>1, MinimalSet
<1>3. g[R] = Deepened(f, R, g) /\ h[R] = Deepened(f, R, h)
  BY FallEntry
<1>4. R # {}
  BY <1>3 DEF Deepened
<1> DEFINE Q == R \ {Pick(R)}
<1>5. Q \subseteq R /\ Q # R
  BY <1>4, PickIn
<1>6. g[Q] = h[Q]
  BY <1>2, <1>5
<1> QED
  BY <1>3, <1>6 DEF Deepened

\* Every finite set has its table.
LEMMA FallTableExists ==
  ASSUME NEW f, NEW X, IsFiniteSet(X)
  PROVE  \E g : FallTabulates(f, X, g)
<1> DEFINE T == {S \in SUBSET X : ~ \E g : FallTabulates(f, S, g)}
<1> SUFFICES ASSUME T # {} PROVE FALSE
  OBVIOUS
<1>1. \A S \in T : IsFiniteSet(S)
  BY FS_Subset
<1>2. PICK S \in T : \A R \in T : R \subseteq S => R = S
  <2> HIDE DEF T
  <2> QED
    BY <1>1, MinimalSet
<1>3. \A R \in SUBSET S : R # S => FallTabulates(f, R, FallTable(f, R))
  BY <1>2 DEF FallTable
<1> DEFINE Entry(R) ==
             IF R = {} THEN <<0, 1>>
             ELSE CURVE!Deeper(FallTable(f, R \ {Pick(R)})[R \ {Pick(R)}], f[Pick(R)])
           g == [R \in SUBSET S |-> Entry(R)]
<1>4. ASSUME NEW R \in SUBSET S, R # S
      PROVE  g[R] = FallTable(f, R)[R]
  <2>1. FallTabulates(f, R, FallTable(f, R))
    BY <1>3, <1>4
  <2>2. FallTable(f, R)[R] = Deepened(f, R, FallTable(f, R))
    BY <2>1, FallEntry
  <2>3. CASE R = {}
    BY <2>2, <2>3 DEF Deepened
  <2>4. CASE R # {}
    <3> DEFINE Q == R \ {Pick(R)}
    <3>1. Q \in SUBSET S /\ Q # S /\ Q \subseteq R /\ IsFiniteSet(Q)
      BY <2>4, PickIn, FS_Subset, <1>1
    <3>2. FallTable(f, Q)[Q] = FallTable(f, R)[Q]
      <4>1. FallTabulates(f, Q, FallTable(f, Q))
        BY <1>3, <3>1
      <4> HIDE DEF Q
      <4> QED
        BY <2>1, <4>1, <3>1, FallTablesAgree
    <3> QED
      BY <2>2, <2>4, <3>2 DEF Deepened
  <2> QED
    BY <2>3, <2>4
<1>5. ASSUME NEW R \in SUBSET S
      PROVE  g[R] = Deepened(f, R, g)
  <2>1. CASE R = {}
    BY <2>1 DEF Deepened
  <2>2. CASE R # {}
    <3> DEFINE Q == R \ {Pick(R)}
    <3>1. Q \in SUBSET S /\ Q # S
      BY <2>2, PickIn
    <3>2. g[Q] = FallTable(f, Q)[Q]
      BY <1>4, <3>1
    <3> QED
      BY <2>2, <3>2 DEF Deepened
  <2> QED
    BY <2>1, <2>2
<1>6. FallTabulates(f, S, g)
  BY <1>5 DEF FallTabulates
<1> QED
  BY <1>2, <1>6

\* The fold is the table's entry for the whole set.
LEMMA FallIsTable ==
  ASSUME NEW c, NEW f, f = [r \in c.kept |-> CURVE!Fall(c.rows, c.kept, r)]
  PROVE  CURVE!maxDD(c) = FallTable(f, c.kept)[c.kept]
BY DEF CURVE!maxDD, CURVE!FoldSet, CURVE!MapThenFoldSet, FallTable, FallTabulates, Deepened, Pick

\* The deepest of the falls f on S.
Deepest(f, S) == FallTable(f, S)[S]

\* Nothing has fallen where there is no point.
LEMMA DeepestOfNone == ASSUME NEW f PROVE Deepest(f, {}) = <<0, 1>>
<1>1. FallTabulates(f, {}, FallTable(f, {}))
  BY FallTableExists, FS_EmptySet DEF FallTable
<1> QED
  BY <1>1, FallEntry DEF Deepened, Deepest

\* The deepest fall is the picked point's or that of the rest.
LEMMA DeepestPicked ==
  ASSUME NEW f, NEW S, IsFiniteSet(S), S # {}
  PROVE  Deepest(f, S) = CURVE!Deeper(Deepest(f, S \ {Pick(S)}), f[Pick(S)])
<1> DEFINE R == S \ {Pick(S)}
<1>1. IsFiniteSet(R) /\ R \subseteq S
  BY FS_Subset
<1>2. FallTabulates(f, S, FallTable(f, S)) /\ FallTabulates(f, R, FallTable(f, R))
  BY <1>1, FallTableExists DEF FallTable
<1>3. FallTable(f, S)[R] = FallTable(f, R)[R]
  <2> HIDE DEF R
  <2> QED
    BY <1>1, <1>2, FallTablesAgree
<1>4. FallTable(f, S)[S] = Deepened(f, S, FallTable(f, S))
  BY <1>2, FallEntry
<1> QED
  BY <1>3, <1>4 DEF Deepened, Deepest

\* Fractions with positive denominators are ordered by their cross products.
LEMMA CrossTransitive ==
  ASSUME NEW x \in Int, NEW xd \in Nat \ {0}, NEW a \in Int, NEW ad \in Nat \ {0},
         NEW b \in Int, NEW bd \in Nat \ {0}, x * ad <= a * xd, a * bd <= b * ad
  PROVE  x * bd <= b * xd
<1>1. (x * ad) * bd <= (a * xd) * bd
  <2>1. x * ad \in Int /\ a * xd \in Int /\ bd \in Nat
    OBVIOUS
  <2>2. \A u, v \in Int, w \in Nat : u <= v => u * w <= v * w
    OBVIOUS
  <2> QED
    BY <2>1, <2>2
<1>2. (a * bd) * xd <= (b * ad) * xd
  <2>1. a * bd \in Int /\ b * ad \in Int /\ xd \in Nat
    OBVIOUS
  <2>2. \A u, v \in Int, w \in Nat : u <= v => u * w <= v * w
    OBVIOUS
  <2> QED
    BY <2>1, <2>2
<1>3. /\ (x * ad) * bd = (x * bd) * ad /\ (a * xd) * bd = (a * bd) * xd
      /\ (b * ad) * xd = (b * xd) * ad
  OBVIOUS
<1>4. (x * bd) * ad <= (b * xd) * ad
  <2>1. (x * ad) * bd \in Int /\ (a * xd) * bd \in Int /\ (b * ad) * xd \in Int
    OBVIOUS
  <2> QED
    BY <1>1, <1>2, <1>3, <2>1
<1> DEFINE u == x * bd
           v == b * xd
<1>5. u \in Int /\ v \in Int /\ u * ad <= v * ad
  BY <1>4
<1> HIDE DEF u, v
<1>6. ASSUME v < u PROVE FALSE
  <2>1. PICK k \in Nat : u = v + 1 + k
    <3>1. u - v - 1 \in Nat /\ u = v + 1 + (u - v - 1)
      BY <1>5, <1>6
    <3> QED
      BY <3>1
  <2>2. (v + 1 + k) * ad = v * ad + ad + k * ad /\ k * ad \in Nat /\ v * ad \in Int
    BY <1>5
  <2> QED
    BY <1>5, <2>1, <2>2
<1>7. u <= v
  BY <1>5, <1>6
<1> QED
  BY <1>7 DEF u, v

\* The fold returns a fall of the curve, and none is deeper.
LEMMA DeepestIsWorst ==
  ASSUME NEW f, NEW X, IsFiniteSet(X), \A x \in X : f[x] \in Int \X (Nat \ {0})
  PROVE  /\ Deepest(f, X) \in Int \X (Nat \ {0})
         /\ Deepest(f, X) = <<0, 1>> \/ \E x \in X : Deepest(f, X) = f[x]
         /\ \A x \in X : f[x][1] * Deepest(f, X)[2] <= Deepest(f, X)[1] * f[x][2]
<1> DEFINE Good(S) == /\ Deepest(f, S) \in Int \X (Nat \ {0})
                      /\ Deepest(f, S) = <<0, 1>> \/ \E x \in S : Deepest(f, S) = f[x]
                      /\ \A x \in S : f[x][1] * Deepest(f, S)[2] <= Deepest(f, S)[1] * f[x][2]
           T == {S \in SUBSET X : ~Good(S)}
<1> SUFFICES ASSUME T # {} PROVE FALSE
  OBVIOUS
<1>1. \A S \in T : IsFiniteSet(S)
  BY FS_Subset
<1>2. PICK S \in T : \A R \in T : R \subseteq S => R = S
  <2> HIDE DEF T
  <2> QED
    BY <1>1, MinimalSet
<1>3. S # {}
  BY DeepestOfNone
<1> DEFINE p == Pick(S)
           R == S \ {Pick(S)}
           m == Deepest(f, S)
           a == Deepest(f, R)
           b == f[p]
<1>4. p \in S /\ S \subseteq X /\ R \subseteq S /\ R # S /\ IsFiniteSet(S)
  BY <1>1, <1>3, PickIn
<1>5. Good(R)
  BY <1>2, <1>4
<1>6. m = CURVE!Deeper(a, b)
  BY <1>3, <1>4, DeepestPicked
<1>7. /\ a \in Int \X (Nat \ {0}) /\ b \in Int \X (Nat \ {0})
      /\ a = <<0, 1>> \/ \E x \in R : a = f[x]
      /\ \A x \in R : f[x][1] * a[2] <= a[1] * f[x][2]
  BY <1>4, <1>5
<1>8. \A x \in S : x \in R \/ x = p
  OBVIOUS
<1>9. ~Good(S)
  OBVIOUS
<1> HIDE DEF p, R, m, a, b, T
<1>10. CASE b[1] * a[2] > a[1] * b[2]
  <2>1. m = b
    BY <1>6, <1>10 DEF CURVE!Deeper
  <2>2. ASSUME NEW x \in S PROVE f[x][1] * b[2] <= b[1] * f[x][2]
    <3>1. CASE x = p
      BY <1>7, <3>1 DEF b
    <3>2. CASE x \in R
      <4>1. /\ f[x][1] \in Int /\ f[x][2] \in Nat \ {0} /\ a[1] \in Int /\ a[2] \in Nat \ {0}
            /\ b[1] \in Int /\ b[2] \in Nat \ {0}
        BY <1>4, <1>7
      <4>2. f[x][1] * a[2] <= a[1] * f[x][2]
        BY <1>7, <3>2
      <4>3. a[1] * b[2] <= b[1] * a[2]
        BY <1>10, <4>1
      <4> QED
        BY <4>1, <4>2, <4>3, CrossTransitive
    <3> QED
      BY <1>8, <3>1, <3>2
  <2> QED
    BY <1>4, <1>7, <1>9, <2>1, <2>2 DEF m, b
<1>11. CASE ~(b[1] * a[2] > a[1] * b[2])
  <2>1. m = a
    BY <1>6, <1>11 DEF CURVE!Deeper
  <2>2. ASSUME NEW x \in S PROVE f[x][1] * a[2] <= a[1] * f[x][2]
    <3>1. CASE x = p
      <4>1. f[x] = b
        BY <3>1 DEF b
      <4>2. a[1] \in Int /\ a[2] \in Int /\ b[1] \in Int /\ b[2] \in Int
        BY <1>7
      <4> QED
        BY <1>11, <4>1, <4>2
    <3>2. CASE x \in R
      BY <1>7, <3>2
    <3> QED
      BY <1>8, <3>1, <3>2
  <2> QED
    BY <1>4, <1>7, <1>9, <2>1, <2>2 DEF m
<1> QED
  BY <1>10, <1>11

-----------------------------------------------------------------------------
(* The drawdown of a curve. *)

\* A running peak is the value of a point so far, and no point so far is above.
LEMMA PeakIsHighest ==
  ASSUME NEW v, NEW K, IsFiniteSet(K), K \subseteq Int, \A r \in K : v[r].equity \in Int,
         NEW r \in K
  PROVE  /\ CURVE!Peak(v, K, r) \in Int
         /\ \E q \in K : q <= r /\ CURVE!Peak(v, K, r) = v[q].equity
         /\ \A q \in K : q <= r => v[q].equity <= CURVE!Peak(v, K, r)
<1> DEFINE Q == {p \in K : p <= r}
           V == {v[q].equity : q \in Q}
           f == [q \in Q |-> v[q].equity]
<1>1. CURVE!Peak(v, K, r) = CHOOSE x \in V : \A y \in V : x >= y
  BY DEF CURVE!Peak, CURVE!Max
<1>2. V \subseteq Int /\ V # {}
  <2>1. r \in Q /\ v[r].equity \in V
    <3>1. r \in Q
      OBVIOUS
    <3> HIDE DEF Q
    <3> QED
      BY <3>1
  <2>2. \A q \in Q : v[q].equity \in Int
    OBVIOUS
  <2> HIDE DEF Q
  <2> QED
    BY <2>1, <2>2
<1>3. IsFiniteSet(V)
  <2>1. IsFiniteSet(Q) /\ f \in Surjection(Q, V)
    <3>1. Q \subseteq K /\ f \in Surjection(Q, V)
      BY DEF Surjection
    <3> HIDE DEF Q, V, f
    <3> QED
      BY <3>1, FS_Subset
  <2> HIDE DEF Q, V, f
  <2> QED
    BY <2>1, FS_Surjection
<1>4. \E x \in V : \A y \in V : x >= y
  <2> HIDE DEF V
  <2> QED
    BY <1>2, <1>3, LargestInt
<1> DEFINE m == CURVE!Peak(v, K, r)
<1>5. m \in V /\ \A y \in V : m >= y
  <2> HIDE DEF V
  <2> QED
    BY <1>1, <1>4
<1>6. PICK q \in Q : m = v[q].equity
  <2> HIDE DEF m
  <2> QED
    BY <1>5
<1>7. \A p \in Q : v[p].equity \in V
  OBVIOUS
<1> QED
  <2> HIDE DEF m, V
  <2>1. m \in Int /\ \A p \in Q : v[p].equity <= m
    BY <1>2, <1>5, <1>7
  <2> QED
    BY <1>6, <2>1 DEF m

\* A point's fall is a fraction, taken from a point so far when it is not nothing,
\* and no fall to it from a book above zero is a larger part of that book.
LEMMA FallIsWorst ==
  ASSUME NEW v, NEW K, IsFiniteSet(K), K \subseteq Int, \A r \in K : v[r].equity \in Int,
         NEW r \in K
  PROVE  LET b == CURVE!Fall(v, K, r)
         IN /\ b \in Int \X (Nat \ {0})
            /\ b[1] = 0 \/ \E q \in K : q <= r /\ b = <<v[q].equity - v[r].equity, v[q].equity>>
            /\ \A q \in K : q <= r /\ v[q].equity > 0 /\ v[r].equity >= 0 =>
                 (v[q].equity - v[r].equity) * b[2] <= b[1] * v[q].equity
<1> DEFINE p == CURVE!Peak(v, K, r)
           b == CURVE!Fall(v, K, r)
           e == v[r].equity
<1>1. /\ p \in Int /\ e \in Int
      /\ \E q \in K : q <= r /\ p = v[q].equity
      /\ \A q \in K : q <= r => v[q].equity <= p
  BY PeakIsHighest
<1>2. b = IF p > 0 THEN <<p - e, p>> ELSE <<0, 1>>
  BY DEF CURVE!Fall
<1> HIDE DEF p, b
<1>3. CASE p > 0
  <2>1. b = <<p - e, p>> /\ p - e \in Int /\ p \in Nat \ {0}
    BY <1>1, <1>2, <1>3
  <2>2. ASSUME NEW q \in K, q <= r, v[q].equity > 0, e >= 0
        PROVE  (v[q].equity - e) * p <= (p - e) * v[q].equity
    <3> DEFINE x == v[q].equity
    <3>1. x \in Nat /\ x <= p /\ e \in Nat
      BY <1>1, <2>2
    <3> HIDE DEF x, e
    <3>2. PICK k \in Nat : p = x + k
      <4>1. p - x \in Nat /\ p = x + (p - x)
        BY <1>1, <3>1
      <4> QED
        BY <4>1
    <3>3. (x - e) * p = x * p - e * p /\ (p - e) * x = p * x - e * x /\ x * p = p * x
          /\ e * (x + k) = e * x + e * k /\ e * k \in Nat /\ e * x \in Nat /\ x * p \in Int
      BY <1>1, <3>1, <3>2
    <3>4. (x - e) * p <= (p - e) * x
      BY <3>2, <3>3
    <3> QED
      BY <3>4 DEF x
  <2>3. b[1] = p - e /\ b[2] = p
    BY <2>1
  <2> QED
    BY <1>1, <2>1, <2>2, <2>3 DEF b
<1>4. CASE ~(p > 0)
  <2>1. b = <<0, 1>>
    BY <1>2, <1>4
  <2>2. ASSUME NEW q \in K, q <= r, v[q].equity > 0 PROVE FALSE
    <3>1. v[q].equity <= p /\ v[q].equity \in Int
      BY <1>1, <2>2
    <3> QED
      BY <1>1, <1>4, <2>2, <3>1
  <2> QED
    BY <2>1, <2>2 DEF b
<1> QED
  BY <1>3, <1>4

\* For any number of snapshots, any timeline and any thinning: a window holds
\* the rows of its hours, its curve spans it, and the drawdown is the worst fall.
THEOREM CurveHonestCorrect == ScreensSpec => []CurveHonest
<1> SUFFICES ASSUME CurveInv PROVE CurveHonest
  BY CurveInvariant, PTL
<1> SUFFICES ASSUME NEW w \in StatHours
             PROVE  LET since == CURVE!Since(w)
                        c == CURVE!equitySeries(since)
                        n == Len(c.rows)
                        m == CURVE!maxDD(c)
                    IN /\ \A i \in DOMAIN snaps : snaps[i].hour >= since <=>
                                                   i > Len(snaps) - Len(CURVE!InWindow(since))
                       /\ CURVE!Cardinality(c.kept) <= POINTS
                       /\ n > 0 => 1 \in c.kept
                       /\ \A r \in 1 .. n : \E q \in c.kept :
                            q <= r /\ r - q < (n + POINTS - 1) \div POINTS + 1
                       /\ m[1] = 0 \/ \E q, r \in c.kept :
                            /\ q <= r /\ m[2] = c.rows[q].equity
                            /\ m[1] = c.rows[q].equity - c.rows[r].equity
                       /\ \A q, r \in c.kept :
                            q <= r /\ c.rows[q].equity > 0 /\ c.rows[r].equity >= 0 =>
                              (c.rows[q].equity - c.rows[r].equity) * m[2]
                                <= m[1] * c.rows[q].equity
  BY DEF CurveHonest, CURVE!WindowIsExact, CURVE!CurveSpans, CURVE!DrawdownIsWorstFall
<1> DEFINE since == CURVE!Since(w)
           c == CURVE!equitySeries(since)
           v == CURVE!InWindow(since)
           n == Len(v)
           K == CURVE!Kept(n)
           m == CURVE!maxDD(c)
           f == [r \in c.kept |-> CURVE!Fall(c.rows, c.kept, r)]
<1>1. since \in Int
  BY ScreensAssumption DEF CurveInv, CURVE!Since
<1> HIDE DEF since
<1>2. c.rows = v /\ c.kept = K
  BY DEF CURVE!equitySeries
<1>3. /\ n = Len(snaps) - CURVE!LeftOut(since) /\ n \in Nat
      /\ \A r \in 1 .. n : v[r].equity \in Int
  BY <1>1, RowsOfWindow
<1>4. \A i \in DOMAIN snaps : snaps[i].hour >= since <=> i > Len(snaps) - n
  <2>1. snaps \in Seq(CurveRow)
    BY DEF CurveInv
  <2>2. DOMAIN snaps = 1 .. Len(snaps) /\ Len(snaps) \in Nat
    BY <2>1
  <2>3. CURVE!LeftOut(since) \in 0 .. Len(snaps)
        /\ \A i \in 1 .. Len(snaps) : snaps[i].hour >= since <=> i > CURVE!LeftOut(since)
    BY <1>1, WindowRows
  <2>4. Len(snaps) - n = CURVE!LeftOut(since)
    BY <1>3, <2>2, <2>3
  <2> QED
    BY <2>2, <2>3, <2>4
<1> HIDE DEF v, n
<1>5. /\ K \subseteq 1 .. n /\ IsFiniteSet(K) /\ Cardinality(K) <= POINTS
      /\ n > 0 => 1 \in K
      /\ \A r \in 1 .. n : \E q \in K : q <= r /\ r - q < (n + POINTS - 1) \div POINTS + 1
  BY <1>3, KeptSpans
<1> HIDE DEF K
<1>6. K \subseteq Int /\ \A r \in K : v[r].equity \in Int
  BY <1>3, <1>5
<1>7. m = Deepest(f, K) /\ f = [r \in K |-> CURVE!Fall(v, K, r)]
  <2>1. f = [r \in c.kept |-> CURVE!Fall(c.rows, c.kept, r)]
    OBVIOUS
  <2> HIDE DEF f, c
  <2> QED
    BY <1>2, <2>1, FallIsTable DEF Deepest
<1> HIDE DEF f, m, c
<1>8. \A r \in K :
        /\ f[r] \in Int \X (Nat \ {0})
        /\ f[r][1] = 0 \/ \E q \in K : q <= r /\ f[r] = <<v[q].equity - v[r].equity, v[q].equity>>
        /\ \A q \in K : q <= r /\ v[q].equity > 0 /\ v[r].equity >= 0 =>
             (v[q].equity - v[r].equity) * f[r][2] <= f[r][1] * v[q].equity
  <2> SUFFICES ASSUME NEW r \in K
               PROVE  LET b == f[r]
                      IN /\ b \in Int \X (Nat \ {0})
                         /\ \/ b[1] = 0
                            \/ \E q \in K : q <= r /\ b = <<v[q].equity - v[r].equity, v[q].equity>>
                         /\ \A q \in K : q <= r /\ v[q].equity > 0 /\ v[r].equity >= 0 =>
                              (v[q].equity - v[r].equity) * b[2] <= b[1] * v[q].equity
    OBVIOUS
  <2>1. f[r] = CURVE!Fall(v, K, r)
    BY <1>7
  <2>2. LET b == CURVE!Fall(v, K, r)
        IN /\ b \in Int \X (Nat \ {0})
           /\ b[1] = 0 \/ \E q \in K : q <= r /\ b = <<v[q].equity - v[r].equity, v[q].equity>>
           /\ \A q \in K : q <= r /\ v[q].equity > 0 /\ v[r].equity >= 0 =>
                (v[q].equity - v[r].equity) * b[2] <= b[1] * v[q].equity
    BY <1>5, <1>6, FallIsWorst
  <2> QED
    BY <2>1, <2>2, Zenon
<1>9. /\ m \in Int \X (Nat \ {0})
      /\ m = <<0, 1>> \/ \E x \in K : m = f[x]
      /\ \A x \in K : f[x][1] * m[2] <= m[1] * f[x][2]
  <2>1. \A x \in K : f[x] \in Int \X (Nat \ {0})
    BY <1>8
  <2>2. IsFiniteSet(K) /\ m = Deepest(f, K)
    BY <1>5, <1>7
  <2>3. /\ Deepest(f, K) \in Int \X (Nat \ {0})
        /\ Deepest(f, K) = <<0, 1>> \/ \E x \in K : Deepest(f, K) = f[x]
        /\ \A x \in K : f[x][1] * Deepest(f, K)[2] <= Deepest(f, K)[1] * f[x][2]
    BY <2>1, <2>2, DeepestIsWorst
  <2> QED
    BY <2>2, <2>3, Zenon
<1>10. m[1] = 0 \/ \E q, r \in K : /\ q <= r /\ m[2] = v[q].equity
                                   /\ m[1] = v[q].equity - v[r].equity
  <2>1. CASE m = <<0, 1>>
    BY <2>1
  <2>2. ASSUME NEW r \in K, m = f[r]
        PROVE  m[1] = 0 \/ \E q \in K : /\ q <= r /\ m[2] = v[q].equity
                                        /\ m[1] = v[q].equity - v[r].equity
    BY <1>8, <2>2
  <2> QED
    BY <1>9, <2>1, <2>2
<1>11. ASSUME NEW q \in K, NEW r \in K, q <= r, v[q].equity > 0, v[r].equity >= 0
       PROVE  (v[q].equity - v[r].equity) * m[2] <= m[1] * v[q].equity
  <2>1. /\ v[q].equity - v[r].equity \in Int /\ v[q].equity \in Nat \ {0}
        /\ f[r][1] \in Int /\ f[r][2] \in Nat \ {0} /\ m[1] \in Int /\ m[2] \in Nat \ {0}
    BY <1>6, <1>8, <1>9, <1>11
  <2>2. (v[q].equity - v[r].equity) * f[r][2] <= f[r][1] * v[q].equity
    BY <1>8, <1>11
  <2>3. f[r][1] * m[2] <= m[1] * f[r][2]
    BY <1>9
  <2> QED
    BY <2>1, <2>2, <2>3, CrossTransitive
<1>12. CURVE!Cardinality(K) <= POINTS
  BY <1>5, SameCurveCount
<1> QED
  BY ZenonT(30), <1>2, <1>4, <1>5, <1>10, <1>11, <1>12 DEF since, v, n, m, c
-----------------------------------------------------------------------------
(***************************************************************************)
(* The types of the run.  What the invariants above leave out are the      *)
(* bounds of the exploration, and that the exchange form only offers, and  *)
(* only sends, venues that can be linked: "none" is no choice of it.       *)
(***************************************************************************)

PrefRest == prefClicks \in 0 .. MaxClicks /\ prefFaults \in 0 .. MaxFaults

\* A press and a fault are counted below their bound.
LEMMA PrefRestSteps ==
  PrefRest /\ [SETTINGS!SettingsNext]_settingsVars => PrefRest'
<1> SUFFICES ASSUME PrefRest, [SETTINGS!SettingsNext]_settingsVars PROVE PrefRest'
  OBVIOUS
<1>1. MaxClicks \in Nat /\ MaxFaults \in Nat
  BY ScreensAssumption
<1> DEFINE Counts == /\ prefClicks' = prefClicks \/ (prefClicks < MaxClicks /\ prefClicks' = prefClicks + 1)
                     /\ prefFaults' = prefFaults \/ (prefFaults < MaxFaults /\ prefFaults' = prefFaults + 1)
<1>2. ASSUME NEW t \in Tabs, SETTINGS!ByUser(t) PROVE Counts
  BY <1>2 DEF SETTINGS!ByUser, SETTINGS!OpenPage, SETTINGS!ClosePage, SETTINGS!toggleEmail,
     SETTINGS!toggleShorting, SETTINGS!chooseCurrency, SETTINGS!chooseWindow,
     SETTINGS!typeChat, SETTINGS!connectTelegram, SETTINGS!removeTelegram,
     SETTINGS!Pressed, SETTINGS!ShownEmailToggle, SETTINGS!ShownShortToggle,
     SETTINGS!ShownRemove, SETTINGS!ShownDraft, SETTINGS!ShownCurrency,
     SETTINGS!ShownWindow, SETTINGS!OnSettings
<1>3. ASSUME NEW t \in Tabs, SETTINGS!ByServer(t) PROVE Counts
  BY <1>3 DEF SETTINGS!ByServer, SETTINGS!ReadPrefs, SETTINGS!Heal, SETTINGS!ReadRow,
     SETTINGS!WriteRow, SETTINGS!WriteColumn, SETTINGS!TestMessage, SETTINGS!Breaks,
     SETTINGS!Answer, SETTINGS!Refused
<1>4. ASSUME SETTINGS!Fill PROVE Counts
  BY <1>4 DEF SETTINGS!Fill
<1>5. ASSUME UNCHANGED settingsVars PROVE Counts
  BY <1>5 DEF settingsVars
<1>6. Counts
  BY <1>2, <1>3, <1>4, <1>5 DEF SETTINGS!SettingsNext
<1> QED
  BY <1>1, <1>6 DEF PrefRest

PanelCounts == presses \in 0 .. MaxPresses /\ panelFaults \in 0 .. MaxPanelFaults

OfferedVenues ==
  /\ keys \in Venues \cup {PANEL!NoKeys}
  /\ \A t \in Pages : /\ panel[t].exchange \in Venues
                      /\ props[t].linked \in Venues \cup {PANEL!NoKeys}
                      /\ \A i \in 1 .. Len(queue[t]) :
                           queue[t][i].op = "save" => queue[t][i].ex \in Venues

PanelRest == PanelCounts /\ OfferedVenues

\* A press and a fault are counted below their bound.
LEMMA PanelCountSteps == PanelCounts /\ [PANEL!PanelNext]_panelVars => PanelCounts'
<1> SUFFICES ASSUME PanelCounts, [PANEL!PanelNext]_panelVars PROVE PanelCounts'
  OBVIOUS
<1>1. MaxPresses \in Nat /\ MaxPanelFaults \in Nat
  BY ScreensAssumption
<1> DEFINE Counts == /\ presses' = presses \/ (presses < MaxPresses /\ presses' = presses + 1)
                     /\ \/ panelFaults' = panelFaults
                        \/ panelFaults < MaxPanelFaults /\ panelFaults' = panelFaults + 1
<1>2. ASSUME PANEL!PanelNext PROVE Counts
  BY <1>2 DEF PANEL!PanelNext, PANEL!adminDisableBot, PANEL!strategiesChange, PANEL!reload,
     PANEL!toggleActive, PANEL!turnLiveOff, PANEL!askLive, PANEL!typePhrase, PANEL!stayDry,
     PANEL!confirmGoLive, PANEL!openForm, PANEL!cancelForm, PANEL!submit,
     PANEL!pickExchange, PANEL!setBot, PANEL!goLive, PANEL!saveCredentials,
     PANEL!CallBreaks, PANEL!answer, PANEL!failure, PANEL!Press, PANEL!Local,
     PANEL!Untouched
<1>3. Counts
  BY <1>2 DEF panelVars
<1> QED
  BY <1>1, <1>3 DEF PanelCounts

\* A tab whose form, props and calls stay as they are offers what it did.
OffersOf(t) == /\ panel[t].exchange \in Venues
               /\ props[t].linked \in Venues \cup {PANEL!NoKeys}
               /\ \A i \in 1 .. Len(queue[t]) :
                    queue[t][i].op = "save" => queue[t][i].ex \in Venues

\* What the user presses: a form offers a venue or goes back to the linked one,
\* and a call for the keys names the venue the form shows.
LEMMA OfferedByUser ==
  ASSUME PanelTypes, OfferedVenues, NEW t \in Pages,
         \/ PANEL!reload(t) \/ PANEL!toggleActive(t) \/ PANEL!turnLiveOff(t)
         \/ PANEL!askLive(t) \/ PANEL!typePhrase(t) \/ PANEL!stayDry(t)
         \/ PANEL!confirmGoLive(t) \/ PANEL!openForm(t) \/ PANEL!cancelForm(t)
         \/ PANEL!submit(t) \/ \E ex \in Venues : PANEL!pickExchange(t, ex)
  PROVE  OfferedVenues'
<1> DEFINE P == [active : BOOLEAN, live : BOOLEAN, confirming : BOOLEAN,
                 phrase : BOOLEAN, showForm : BOOLEAN, exchange : Shops]
<1>1. /\ panel \in [Pages -> P] /\ props \in [Pages -> [linked : Shops, canRun : BOOLEAN]]
      /\ bot \in [active : BOOLEAN, live : BOOLEAN]
      /\ \A s \in Pages : OffersOf(s)
      /\ keys \in Venues \cup {PANEL!NoKeys} /\ "coindcx" \in Venues
  BY ScreensAssumption DEF PanelTypes, OfferedVenues, OffersOf
\* Dialogs: only the exchange of the form can change.
<1>2. ASSUME NEW q \in P, panel' = [panel EXCEPT ![t] = q], q.exchange \in Venues,
             UNCHANGED <<keys, props, queue>>
      PROVE  OfferedVenues'
  <2>1. \A s \in Pages : panel'[s] = IF s = t THEN q ELSE panel[s]
    BY <1>1, <1>2
  <2> QED
    BY <1>1, <1>2, <2>1 DEF OfferedVenues, OffersOf
\* Calls: one joins the queue, and of the form only its switches change.
<1>3. ASSUME NEW q \in P, panel' = [panel EXCEPT ![t] = q], q.exchange = panel[t].exchange,
             NEW c \in PanelCalls, PANEL!Call(t, c), c.op = "save" => c.ex \in Venues,
             UNCHANGED <<keys, props>>
      PROVE  OfferedVenues'
  <2>1. \A s \in Pages : panel'[s] = IF s = t THEN q ELSE panel[s]
    BY <1>1, <1>3
  <2>2. /\ \A s \in Pages \ {t} : queue'[s] = queue[s]
        /\ Len(queue'[t]) = Len(queue[t]) + 1 /\ Len(queue[t]) \in Nat
        /\ \A i \in 1 .. Len(queue[t]) : queue'[t][i] = queue[t][i]
        /\ queue'[t][Len(queue[t]) + 1] = c
    BY <1>3, QueueGrows, TabFields
  <2>3. ASSUME NEW i \in 1 .. Len(queue'[t]), queue'[t][i].op = "save"
        PROVE  queue'[t][i].ex \in Venues
    <3>1. i \in 1 .. Len(queue[t]) \/ i = Len(queue[t]) + 1
      BY <2>2
    <3> QED
      BY <1>1, <1>3, <2>2, <2>3, <3>1 DEF OffersOf
  <2>4. ASSUME NEW s \in Pages PROVE OffersOf(s)'
    <3>1. CASE s = t
      BY <1>1, <1>3, <2>1, <2>3, <3>1 DEF OffersOf
    <3>2. CASE s # t
      BY <1>1, <1>3, <2>1, <2>2, <3>2 DEF OffersOf
    <3> QED
      BY <3>1, <3>2
  <2> QED
    BY <1>1, <1>3, <2>4 DEF OfferedVenues, OffersOf
<1>4. panel[t] \in P /\ panel = [panel EXCEPT ![t] = panel[t]]
      /\ panel[t].exchange \in Venues /\ panel[t].exchange \in Shops
      /\ PANEL!Before(t) \in [active : BOOLEAN, live : BOOLEAN]
  BY <1>1 DEF OffersOf, PANEL!Before
<1>5. CASE PANEL!reload(t)
  <2>1. PANEL!Mounted \in P /\ PANEL!Mounted.exchange \in Venues
        /\ PANEL!Rendered.linked \in Venues \cup {PANEL!NoKeys}
    BY <1>1 DEF PANEL!Mounted, PANEL!Rendered, Shops
  <2>2. \A s \in Pages : /\ panel'[s] = IF s = t THEN PANEL!Mounted ELSE panel[s]
                         /\ props'[s] = IF s = t THEN PANEL!Rendered ELSE props[s]
    BY <1>1, <1>5 DEF PANEL!reload
  <2> QED
    BY <1>1, <1>5, <2>1, <2>2 DEF PANEL!reload, OfferedVenues, OffersOf
<1>6. ASSUME PANEL!askLive(t) \/ PANEL!typePhrase(t) \/ PANEL!stayDry(t) \/ PANEL!openForm(t)
      PROVE  OfferedVenues'
  <2>1. PICK q \in P : panel' = [panel EXCEPT ![t] = q] /\ q.exchange = panel[t].exchange
    <3>1. CASE PANEL!askLive(t)
      <4> DEFINE q == [panel[t] EXCEPT !.confirming = TRUE]
      <4>1. panel' = [panel EXCEPT ![t] = q]
        BY <3>1 DEF PANEL!askLive
      <4>2. q \in P /\ q.exchange = panel[t].exchange
        BY <1>4
      <4> HIDE DEF q
      <4> QED
        BY <4>1, <4>2
    <3>2. CASE PANEL!typePhrase(t)
      <4> DEFINE q == [panel[t] EXCEPT !.phrase = TRUE]
      <4>1. panel' = [panel EXCEPT ![t] = q]
        BY <3>2 DEF PANEL!typePhrase
      <4>2. q \in P /\ q.exchange = panel[t].exchange
        BY <1>4
      <4> HIDE DEF q
      <4> QED
        BY <4>1, <4>2
    <3>3. CASE PANEL!stayDry(t)
      <4> DEFINE q == [panel[t] EXCEPT !.confirming = FALSE, !.phrase = FALSE]
      <4>1. panel' = [panel EXCEPT ![t] = q]
        BY <1>1, <3>3 DEF PANEL!stayDry
      <4>2. q \in P /\ q.exchange = panel[t].exchange
        BY <1>4
      <4> HIDE DEF q
      <4> QED
        BY <4>1, <4>2
    <3>4. CASE PANEL!openForm(t)
      <4> DEFINE q == [panel[t] EXCEPT !.showForm = TRUE]
      <4>1. panel' = [panel EXCEPT ![t] = q]
        BY <3>4 DEF PANEL!openForm
      <4>2. q \in P /\ q.exchange = panel[t].exchange
        BY <1>4
      <4> HIDE DEF q
      <4> QED
        BY <4>1, <4>2
    <3> QED
      BY <1>6, <3>1, <3>2, <3>3, <3>4
  <2>2. UNCHANGED <<keys, props, queue>>
    BY <1>6 DEF PANEL!askLive, PANEL!typePhrase, PANEL!stayDry, PANEL!openForm, PANEL!Local
  <2> QED
    BY <1>2, <1>4, <2>1, <2>2
<1>7. CASE PANEL!cancelForm(t)
  <2> DEFINE q == [panel[t] EXCEPT !.showForm = FALSE, !.exchange = props[t].linked]
  <2>1. props[t].linked \in Venues
    BY <1>1, <1>7 DEF PANEL!cancelForm, PANEL!Linked, OffersOf
  <2>2. q \in P /\ q.exchange \in Venues
    BY <1>4, <2>1 DEF Shops
  <2>3. panel' = [panel EXCEPT ![t] = q] /\ UNCHANGED <<keys, props, queue>>
    BY <1>1, <1>7 DEF PANEL!cancelForm, PANEL!Local
  <2> HIDE DEF q
  <2> QED
    BY <1>2, <2>2, <2>3
<1>8. ASSUME NEW ex \in Venues, PANEL!pickExchange(t, ex) PROVE OfferedVenues'
  <2> DEFINE q == [panel[t] EXCEPT !.exchange = ex]
  <2>1. q \in P /\ q.exchange \in Venues
    BY <1>4 DEF Shops
  <2>2. panel' = [panel EXCEPT ![t] = q] /\ UNCHANGED <<keys, props, queue>>
    BY <1>8 DEF PANEL!pickExchange, PANEL!Local
  <2> HIDE DEF q
  <2> QED
    BY <1>2, <2>1, <2>2
<1>9. ASSUME PANEL!toggleActive(t) \/ PANEL!turnLiveOff(t) \/ PANEL!confirmGoLive(t)
             \/ PANEL!submit(t)
      PROVE  OfferedVenues'
  <2>1. PICK q \in P : panel' = [panel EXCEPT ![t] = q] /\ q.exchange = panel[t].exchange
    <3>1. CASE PANEL!toggleActive(t)
      <4> DEFINE q == [panel[t] EXCEPT !.active = ~@]
      <4>1. panel' = [panel EXCEPT ![t] = q]
        BY <3>1 DEF PANEL!toggleActive
      <4>2. q \in P /\ q.exchange = panel[t].exchange
        BY <1>4
      <4> HIDE DEF q
      <4> QED
        BY <4>1, <4>2
    <3>2. CASE PANEL!turnLiveOff(t)
      <4> DEFINE q == [panel[t] EXCEPT !.live = FALSE, !.confirming = FALSE]
      <4>1. panel' = [panel EXCEPT ![t] = q]
        BY <1>1, <3>2 DEF PANEL!turnLiveOff
      <4>2. q \in P /\ q.exchange = panel[t].exchange
        BY <1>4
      <4> HIDE DEF q
      <4> QED
        BY <4>1, <4>2
    <3>3. CASE PANEL!confirmGoLive(t) \/ PANEL!submit(t)
      BY <1>4, <3>3 DEF PANEL!confirmGoLive, PANEL!submit
    <3> QED
      BY <1>9, <3>1, <3>2, <3>3
  <2>2. UNCHANGED <<keys, props>>
    BY <1>9 DEF PANEL!toggleActive, PANEL!turnLiveOff, PANEL!confirmGoLive, PANEL!submit,
       PANEL!Press
  <2>3. PICK c \in PanelCalls : PANEL!Call(t, c) /\ (c.op = "save" => c.ex \in Venues)
    <3>1. CASE PANEL!toggleActive(t)
      <4> DEFINE c == PANEL!CallOf("set", IF panel[t].active THEN "off" ELSE "on",
                                PANEL!NoPatch, PANEL!NoKeys, FALSE, PANEL!Before(t))
      <4>1. c \in PanelCalls /\ c.op # "save"
        BY <1>4 DEF PANEL!CallOf, PanelCalls, PANEL!NoPatch, PANEL!NoKeys, Shops
      <4>2. PANEL!Call(t, c)
        BY <3>1 DEF PANEL!toggleActive
      <4> HIDE DEF c
      <4> QED
        BY <4>1, <4>2
    <3>2. CASE PANEL!turnLiveOff(t)
      <4> DEFINE c == PANEL!CallOf("set", PANEL!NoPatch, "off", PANEL!NoKeys, FALSE,
                                PANEL!Before(t))
      <4>1. c \in PanelCalls /\ c.op # "save"
        BY <1>4 DEF PANEL!CallOf, PanelCalls, PANEL!NoPatch, PANEL!NoKeys, Shops
      <4>2. PANEL!Call(t, c)
        BY <3>2 DEF PANEL!turnLiveOff
      <4> HIDE DEF c
      <4> QED
        BY <4>1, <4>2
    <3>3. CASE PANEL!confirmGoLive(t)
      <4> DEFINE c == PANEL!CallOf("goLive", PANEL!NoPatch, "on", PANEL!NoKeys, FALSE,
                                PANEL!Before(t))
      <4>1. c \in PanelCalls /\ c.op # "save"
        BY <1>4 DEF PANEL!CallOf, PanelCalls, PANEL!NoPatch, PANEL!NoKeys, Shops
      <4>2. PANEL!Call(t, c)
        BY <3>3 DEF PANEL!confirmGoLive
      <4> HIDE DEF c
      <4> QED
        BY <4>1, <4>2
    <3>4. CASE PANEL!submit(t)
      <4> DEFINE c == PANEL!CallOf("save", PANEL!NoPatch, PANEL!NoPatch, panel[t].exchange,
                                PANEL!Switching(t), PANEL!Before(t))
      <4>1. PANEL!Switching(t) \in BOOLEAN
        BY DEF PANEL!Switching, PANEL!Linked
      <4>2. c \in PanelCalls /\ c.ex \in Venues
        BY <1>4, <4>1 DEF PANEL!CallOf, PanelCalls, PANEL!NoPatch, Shops
      <4>3. PANEL!Call(t, c)
        BY <3>4 DEF PANEL!submit
      <4> HIDE DEF c
      <4> QED
        BY <4>2, <4>3
    <3> QED
      BY <1>9, <3>1, <3>2, <3>3, <3>4
  <2> QED
    BY <1>3, <2>1, <2>2, <2>3
<1> QED
  BY <1>5, <1>6, <1>7, <1>8, <1>9

\* What the server does: a save links the venue its call names.
LEMMA OfferedByServer ==
  ASSUME PanelTypes, OfferedVenues, NEW t \in Pages,
         \/ PANEL!setBot(t) \/ PANEL!goLive(t) \/ PANEL!saveCredentials(t)
         \/ PANEL!CallBreaks(t)
  PROVE  OfferedVenues'
<1>1. PICK how \in {"ok", "failed"} : PANEL!Active(t) /\ PANEL!Ends(t, how)
  BY DEF PANEL!setBot, PANEL!goLive, PANEL!saveCredentials, PANEL!CallBreaks, PANEL!Sent
<1>2. /\ \A s \in Pages \ {t} : queue'[s] = queue[s]
      /\ Len(queue'[t]) = Len(queue[t]) /\ Len(queue[t]) \in Nat /\ Len(queue[t]) >= 1
      /\ \A i \in 2 .. Len(queue[t]) : queue'[t][i] = queue[t][i]
      /\ queue'[t][1] = [queue[t][1] EXCEPT !.at = how]
      /\ queue[t][1] \in PanelCalls
  BY <1>1, QueueEnds, TabFields DEF PANEL!Active
<1>3. queue'[t][1].op = queue[t][1].op /\ queue'[t][1].ex = queue[t][1].ex
  BY <1>2 DEF PanelCalls
<1>4. UNCHANGED <<props, panel>>
  BY DEF PANEL!setBot, PANEL!goLive, PANEL!saveCredentials, PANEL!CallBreaks, PANEL!Untouched
<1>5. keys' \in Venues \cup {PANEL!NoKeys}
  <2>1. CASE PANEL!saveCredentials(t)
    <3>1. queue[t][1].op = "save" /\ keys' \in {keys, queue[t][1].ex}
      BY <2>1 DEF PANEL!saveCredentials, PANEL!Sent, PANEL!Head1
    <3>2. 1 \in 1 .. Len(queue[t])
      BY <1>2
    <3>3. keys \in Venues \cup {PANEL!NoKeys} /\ queue[t][1].ex \in Venues
      BY <3>1, <3>2 DEF OfferedVenues
    <3> QED
      BY <3>1, <3>3
  <2>2. CASE PANEL!setBot(t) \/ PANEL!goLive(t) \/ PANEL!CallBreaks(t)
    BY <2>2 DEF PANEL!setBot, PANEL!goLive, PANEL!CallBreaks, OfferedVenues
  <2> QED
    BY <2>1, <2>2
<1>6. ASSUME NEW i \in 1 .. Len(queue'[t]), queue'[t][i].op = "save"
      PROVE  queue'[t][i].ex \in Venues
  <2>1. i \in 1 .. Len(queue[t]) /\ (i = 1 \/ i \in 2 .. Len(queue[t]))
    BY <1>2
  <2>2. queue'[t][i].op = queue[t][i].op /\ queue'[t][i].ex = queue[t][i].ex
    <3>1. CASE i = 1
      BY <1>3, <3>1
    <3>2. CASE i \in 2 .. Len(queue[t])
      BY <1>2, <3>2
    <3> QED
      BY <2>1, <3>1, <3>2
  <2>3. queue[t][i].op = "save" => queue[t][i].ex \in Venues
    BY <2>1 DEF OfferedVenues
  <2> QED
    BY <1>6, <2>2, <2>3
<1>7. ASSUME NEW s \in Pages
      PROVE  \A i \in 1 .. Len(queue'[s]) : queue'[s][i].op = "save" => queue'[s][i].ex \in Venues
  <2>1. CASE s = t
    BY <1>6, <2>1
  <2>2. CASE s # t
    BY <1>2, <2>2 DEF OfferedVenues
  <2> QED
    BY <2>1, <2>2
<1> QED
  BY <1>4, <1>5, <1>7 DEF OfferedVenues

\* What comes back: a refused save leaves the form's choice, and the page is
\* rendered anew from the keys that are linked.
LEMMA OfferedByAnswer ==
  ASSUME PanelTypes, OfferedVenues, NEW t \in Pages, PANEL!answer(t) \/ PANEL!failure(t)
  PROVE  OfferedVenues'
<1>1. queue[t] # <<>> /\ queue' = [queue EXCEPT ![t] = Tail(@)] /\ UNCHANGED keys
  BY DEF PANEL!answer, PANEL!failure, PANEL!Active
<1>2. /\ \A s \in Pages \ {t} : queue'[s] = queue[s]
      /\ Len(queue'[t]) = Len(queue[t]) - 1 /\ Len(queue[t]) \in Nat
      /\ \A i \in 1 .. Len(queue'[t]) : queue'[t][i] = queue[t][i + 1]
      /\ queue[t][1] \in PanelCalls
  BY <1>1, QueuePops, TabFields
<1>3. ASSUME NEW s \in Pages, NEW i \in 1 .. Len(queue'[s]), queue'[s][i].op = "save"
      PROVE  queue'[s][i].ex \in Venues
  <2>1. CASE s = t
    <3>1. i + 1 \in 1 .. Len(queue[t]) /\ queue'[t][i] = queue[t][i + 1]
      BY <1>2, <1>3, <2>1
    <3> QED
      BY <1>3, <2>1, <3>1 DEF OfferedVenues
  <2>2. CASE s # t
    BY <1>2, <1>3, <2>2 DEF OfferedVenues
  <2> QED
    BY <2>1, <2>2
<1>4. ASSUME NEW s \in Pages PROVE panel'[s].exchange \in Venues
  <2>1. panel[s].exchange \in Venues /\ panel \in [Pages -> [active : BOOLEAN,
          live : BOOLEAN, confirming : BOOLEAN, phrase : BOOLEAN, showForm : BOOLEAN,
          exchange : Shops]]
    BY DEF OfferedVenues, PanelTypes
  <2>2. CASE PANEL!answer(t)
    BY <2>1, <2>2 DEF PANEL!answer, PANEL!Answered
  <2>3. CASE PANEL!failure(t)
    BY <2>1, <2>3 DEF PANEL!failure, PANEL!Reverted
  <2> QED
    BY <2>2, <2>3
<1>5. ASSUME NEW s \in Pages PROVE props'[s].linked \in Venues \cup {PANEL!NoKeys}
  <2>1. /\ props \in [Pages -> [linked : Shops, canRun : BOOLEAN]]
        /\ PANEL!Rendered.linked = keys
        /\ {keys, props[s].linked} \subseteq Venues \cup {PANEL!NoKeys}
    BY DEF OfferedVenues, PanelTypes, PANEL!Rendered
  <2>2. CASE PANEL!answer(t)
    BY <2>1, <2>2 DEF PANEL!answer
  <2>3. CASE PANEL!failure(t)
    BY <2>1, <2>3 DEF PANEL!failure
  <2> QED
    BY <2>2, <2>3
<1> QED
  BY <1>1, <1>3, <1>4, <1>5 DEF OfferedVenues

\* Every step of the account page keeps its bounds and its venues.
LEMMA PanelRestSteps ==
  PanelTypes /\ PanelRest /\ [PANEL!PanelNext]_panelVars => PanelRest'
<1>1. ASSUME PanelTypes, OfferedVenues, PANEL!PanelNext PROVE OfferedVenues'
  <2>1. CASE PANEL!adminDisableBot \/ PANEL!strategiesChange
    BY <1>1, <2>1 DEF PANEL!adminDisableBot, PANEL!strategiesChange, OfferedVenues
  <2> QED
    BY <1>1, <2>1, OfferedByUser, OfferedByServer, OfferedByAnswer DEF PANEL!PanelNext
<1>2. OfferedVenues /\ UNCHANGED panelVars => OfferedVenues'
  BY DEF panelVars, OfferedVenues
<1> QED
  BY <1>1, <1>2, PanelCountSteps DEF PanelRest

ScreensRest == which \in Machines /\ PrefRest /\ PanelRest

\* At the start nothing is counted and the form offers the default exchange.
LEMMA ScreensRestStarts == ScreensInit => ScreensRest
<1> SUFFICES ASSUME ScreensInit PROVE ScreensRest
  OBVIOUS
<1>1. PrefRest
  BY ScreensAssumption DEF ScreensInit, SETTINGS!SettingsInit, PrefRest
<1>2. PanelCounts
  BY ScreensAssumption DEF ScreensInit, PANEL!PanelInit, PanelCounts
<1>3. OfferedVenues
  <2>1. /\ keys \in Venues \cup {PANEL!NoKeys}
        /\ PANEL!Mounted.exchange \in Venues /\ PANEL!Rendered.linked = keys
    BY ScreensAssumption DEF ScreensInit, PANEL!PanelInit, PANEL!Mounted, PANEL!Rendered
  <2>2. ASSUME NEW s \in Pages
        PROVE panel[s] = PANEL!Mounted /\ props[s] = PANEL!Rendered /\ Len(queue[s]) = 0
    BY DEF ScreensInit, PANEL!PanelInit
  <2> QED
    BY <2>1, <2>2 DEF OfferedVenues
<1> QED
  BY <1>1, <1>2, <1>3 DEF ScreensInit, ScreensRest, PanelRest

\* Each of the six moves as it does alone.
LEMMA ScreensMoves ==
  [ScreensNext]_screensVars =>
    /\ UNCHANGED which
    /\ [FeedNext]_feedVars /\ [LimitNext]_limitVars /\ [SETTINGS!SettingsNext]_settingsVars
    /\ [PANEL!PanelNext]_panelVars /\ [READ!ReadNext]_readVars
    /\ [CURVE!CurveNext]_curveVars
BY DEF ScreensNext, screensVars

\* The bounds and the venues among the machines of the run.
LEMMA ScreensRestCorrect == ScreensSpec => []ScreensRest
<1>1. PanelInv /\ ScreensRest /\ [ScreensNext]_screensVars => ScreensRest'
  BY ScreensMoves, PrefRestSteps, PanelRestSteps DEF ScreensRest, PanelInv
<1> QED
  BY <1>1, ScreensRestStarts, PanelInvariant, PTL DEF ScreensSpec

\* Every page, queue, bucket, chart and log has the type its module gives it,
\* for any numbers of tabs, clients, presses and rows.
THEOREM ScreensTypeCorrect == ScreensSpec => []ScreensTypeOK
<1>1. ScreensSpec => []FeedInv /\ []LimitTypeOK
  <2>1. ScreensInit => FeedInit /\ LimitInit
    BY DEF ScreensInit
  <2>2. ScreensSpec => FeedSpec /\ LimitSpec
    BY <2>1, ScreensMoves, PTL DEF ScreensSpec, FeedSpec, LimitSpec
  <2> QED
    BY <2>2, FeedInvariant, LimitTypeCorrect, PTL
<1>2. FeedInv => FeedTypeOK
  <2> SUFFICES ASSUME FeedInv PROVE FeedTypeOK
    OBVIOUS
  <2>1. sockets[pair] \in Nat /\ timers \in Nat /\ sockets[pair] + timers = 1
    BY DEF FeedInv, FeedTypes, OneConnection
  <2> QED
    BY <2>1 DEF FeedInv, FeedTypes, FeedTypeOK, Charts, Prices, Ranges
<1>3. SettingsInv /\ PrefRest => SETTINGS!SettingsTypeOK
  BY DEF SettingsInv, PrefTypes, PrefRest, PrefRow, SETTINGS!SettingsTypeOK
<1>4. PanelInv /\ PanelRest => PANEL!PanelTypeOK
  <2> SUFFICES ASSUME PanelInv, PanelRest PROVE PANEL!PanelTypeOK
    OBVIOUS
  <2> DEFINE V == Venues \cup {PANEL!NoKeys}
             P == [active : BOOLEAN, live : BOOLEAN, confirming : BOOLEAN,
                   phrase : BOOLEAN, showForm : BOOLEAN, exchange : Venues]
  <2>1. PanelTypes /\ PanelCounts /\ OfferedVenues
    BY DEF PanelInv, PanelRest
  <2>2. ASSUME NEW s \in Pages
        PROVE  panel[s] \in P /\ props[s] \in [linked : V, canRun : BOOLEAN]
    BY <2>1, TabFields DEF OfferedVenues
  <2>3. panel \in [Pages -> P] /\ props \in [Pages -> [linked : V, canRun : BOOLEAN]]
    BY <2>1, <2>2 DEF PanelTypes
  <2> QED
    BY <2>1, <2>3 DEF PanelTypes, PanelCounts, OfferedVenues, PANEL!PanelTypeOK
<1>5. ReadInv => READ!ReadTypeOK
  <2> SUFFICES ASSUME ReadInv PROVE READ!ReadTypeOK
    OBVIOUS
  <2>1. trades \in Seq(Trade) /\ DOMAIN trades = 1 .. Len(trades) /\ today \in Nat
    BY ScreensAssumption DEF ReadInv
  <2>2. \A i \in 1 .. Len(trades) : trades[i] \in Trade
    BY <2>1
  <2> QED
    BY <2>1, <2>2 DEF ReadInv, READ!ReadTypeOK, Trade
<1>6. CurveInv => CURVE!CurveTypeOK
  <2> SUFFICES ASSUME CurveInv PROVE CURVE!CurveTypeOK
    OBVIOUS
  <2>1. snaps \in Seq(CurveRow) /\ DOMAIN snaps = 1 .. Len(snaps) /\ hour \in Nat
    BY ScreensAssumption DEF CurveInv
  <2>2. \A i \in 1 .. Len(snaps) : snaps[i] \in CurveRow
    BY <2>1
  <2> QED
    BY <2>1, <2>2 DEF CurveInv, CURVE!CurveTypeOK, CurveRow
<1>7. /\ FeedInv /\ LimitTypeOK /\ SettingsInv /\ PanelInv /\ ReadInv /\ CurveInv
      /\ ScreensRest
      => ScreensTypeOK
  <2>1. which \in Machines =>
          which \in {"feed", "limit", "settings", "panel", "read", "curve"}
    BY ScreensAssumption
  <2> QED
    BY <1>2, <1>3, <1>4, <1>5, <1>6, <2>1 DEF ScreensRest, ScreensTypeOK
<1> QED
  BY <1>1, <1>7, ScreensRestCorrect, SettingsInvariant, PanelInvariant, ReadInvariant,
     CurveInvariant, PTL
=============================================================================
