------------------------------ MODULE Preview ------------------------------
(***************************************************************************)
(* The strategy preview (components/StrategyPreview.tsx) and the candle    *)
(* proxy it asks (app/api/candles/route.ts). Each change of market or      *)
(* interval sends a request and disowns the earlier ones; answers come     *)
(* back in any order. The candles of the last good answer stay in memory   *)
(* while another loads or fails, and the chart scales, marks and hovers    *)
(* over them. The page that holds the preview may take it away and put it  *)
(* back, which forgets everything but the requests on their way.           *)
(***************************************************************************)
EXTENDS Signals, SequencesExt

CONSTANTS
    Pairs,       \* markets previewed
    TryIntervals,\* bound: intervals picked
    Klines,      \* the proxy's data: pair -> interval -> candles, oldest first
    Trades,      \* bound: trade lists a simulation may give on n bars: n -> sets of sequences
    Lines,       \* bound: indicator levels drawn over n bars: n -> sets of levels
    MinBars,     \* answers with fewer candles are errors (10 in the code)
    FoldBars     \* the folds need this many (100 in the code)

INTERVALS == {"1d", "4h", "1h", "15m"}
Hosts == <<"data-api", "api", "us">>

VARIABLES pair, interval,
          candles,   \* [of, iv, bars]: the last good answer
          status,    \* "loading", "ok" or "error"
          asked,     \* requests on their way: [of, iv, alive]
          drawn,     \* what the simulation gave for the candles: [trades, levels]
          hover,     \* bar under the pointer, 0 for none
          logPref    \* "auto", or the user's choice

pvars == <<pair, interval, candles, status, asked, drawn, hover, logPref>>

NoCandles == [of |-> "none", iv |-> "1d", bars |-> <<>>]
NothingDrawn == [trades |-> <<>>, levels |-> {}]

-----------------------------------------------------------------------------
(* The proxy: a market must map to a symbol; mirrors are tried in order *)

toBinanceSymbol(p) == IF p \in DOMAIN Klines THEN p ELSE "none"

\* A mirror that is down, or answers with a failure, passes the question on.
upstream(down) == {k \in 1..Len(Hosts) : Hosts[k] \notin down}

candlesGET(p, iv, limited, down) ==
    IF limited \/ toBinanceSymbol(p) = "none" \/ iv \notin INTERVALS \/ upstream(down) = {}
    THEN [ok |-> FALSE] ELSE [ok |-> TRUE, bars |-> Klines[p][iv]]

-----------------------------------------------------------------------------
(* Simulation and geometry, from the candles at hand *)

n == Len(candles.bars)

\* Simulated again whenever the candles or the strategy change.
sim(bars) ==
    IF bars = <<>> THEN {NothingDrawn}
    ELSE {[trades |-> t, levels |-> l] : t \in Trades[Len(bars)], l \in Lines[Len(bars)]}

\* Mutant of RangeOf: only the candles decide the scale.
CandleRange(bars, levels) ==
    IF bars = <<>> THEN [lo |-> 0, hi |-> 1]
    ELSE [lo |-> Min({bars[i].l : i \in DOMAIN bars}), hi |-> Max({bars[i].h : i \in DOMAIN bars})]
RangeOf(bars, levels) ==
    IF bars = <<>> THEN [lo |-> 0, hi |-> 1]
    ELSE [lo |-> Min({bars[i].l : i \in DOMAIN bars} \cup levels),
          hi |-> Max({bars[i].h : i \in DOMAIN bars} \cup levels)]

canLog == RangeOf(candles.bars, drawn.levels).lo > 0
logScale ==
    LET r == RangeOf(candles.bars, drawn.levels)
    IN canLog /\ IF logPref = "auto" THEN r.hi >= 3 * r.lo ELSE logPref = "log"

\* The linear scale only (the log one needs logarithms), padded 7% either side (6% of the level when it is flat): 0 is the top, 1 the bottom.
padded(r) ==
    LET pad == IF r.hi > r.lo THEN Frac(7 * (r.hi - r.lo), 100)
               ELSE IF r.hi # 0 THEN Frac(6 * Abs(r.hi), 100) ELSE Whole1(1)
    IN [lo |-> Minus(Whole1(r.lo), pad), hi |-> Plus(Whole1(r.hi), pad)]
yOf(v) ==
    LET p == padded(RangeOf(candles.bars, drawn.levels))
        span == Minus(p.hi, p.lo)
    IN Times(Minus(p.hi, Whole1(v)), <<span[2], span[1]>>)

\* Centre of a bar, and the bar nearest to a place on the axis.
xOf(i) == Frac(2 * i - 1, 2 * n)
onMove(x) == Max({1, Min({n, (x[1] * n) \div x[2] + 1})})

\* The marks by bar: an entry, and an exit once the trade is closed.
eventAt(i) ==
    {[kind |-> "entry", trade |-> k] : k \in {j \in DOMAIN drawn.trades : drawn.trades[j].entry = i}}
    \cup {[kind |-> "exit", trade |-> k] : k \in {j \in DOMAIN drawn.trades : drawn.trades[j].exit = i}}

\* What is on the screen: the header's price and the log switch, the statistics, the folds,
\* the plot with its marks, and the trade log all wait for candles of the selection.
ShownHeader == IF status = "ok" THEN {"price"} \cup (IF canLog THEN {"log"} ELSE {}) ELSE {}
ShownStats == IF status = "ok" /\ n > 0 THEN {"stats"} ELSE {}
Closed == {k \in DOMAIN drawn.trades : drawn.trades[k].exit # 0}
ShownFolds == IF status = "ok" /\ n >= FoldBars /\ Closed # {} THEN {"folds"} ELSE {}
ShownPlot == IF status = "ok" THEN {"plot"} ELSE {}
ShownMarks == IF status = "ok" THEN {i \in 1..n : eventAt(i) # {}} ELSE {}
ShownLog == IF status # "ok" THEN <<>> ELSE Reverse(drawn.trades)
Shown == ShownHeader \cup ShownStats \cup ShownFolds \cup ShownPlot

-----------------------------------------------------------------------------
(* The effect and the controls *)

Disowned == {[f EXCEPT !.alive = FALSE] : f \in asked}
Fetch(p, iv) ==
    /\ asked' = Disowned \cup {[of |-> p, iv |-> iv, alive |-> TRUE]}
    /\ status' = "loading"

PInit(p) ==
    /\ pair = p /\ interval = "1d" /\ candles = NoCandles /\ status = "loading"
    /\ asked = {[of |-> p, iv |-> "1d", alive |-> TRUE]}
    /\ drawn = NothingDrawn /\ hover = 0 /\ logPref = "auto"

\* Mounted anew.
Mount(p) ==
    /\ pair' = p /\ interval' = "1d" /\ candles' = NoCandles
    /\ Fetch(p, "1d") /\ drawn' = NothingDrawn /\ hover' = 0 /\ logPref' = "auto"

Unmount == asked' = Disowned /\ UNCHANGED <<pair, interval, candles, status, drawn, hover, logPref>>

\* The page shows another market.
PickPair(p) ==
    /\ p # pair /\ pair' = p /\ Fetch(p, interval)
    /\ UNCHANGED <<interval, candles, drawn, hover, logPref>>

setInterval(iv) ==
    /\ iv # interval /\ interval' = iv /\ Fetch(pair, iv)
    /\ UNCHANGED <<pair, candles, drawn, hover, logPref>>

\* Mutant of Arrives: an answer counts whoever asked for it.
AnyAnswerCounts(f, a) ==
    /\ f \in asked /\ asked' = asked \ {f}
    /\ IF a.ok /\ Len(a.bars) >= MinBars
       THEN /\ candles' = [of |-> f.of, iv |-> f.iv, bars |-> a.bars] /\ status' = "ok"
            /\ drawn' \in sim(a.bars)
       ELSE status' = "error" /\ UNCHANGED <<candles, drawn>>
    /\ UNCHANGED <<pair, interval, hover, logPref>>

\* The answer comes, for this selection or for one the user has left.
Arrives(f, a) ==
    /\ f \in asked /\ asked' = asked \ {f}
    /\ IF ~f.alive THEN UNCHANGED <<candles, status, drawn>>
       ELSE IF a.ok /\ Len(a.bars) >= MinBars
       THEN /\ candles' = [of |-> f.of, iv |-> f.iv, bars |-> a.bars] /\ status' = "ok"
            /\ drawn' \in sim(a.bars)
       ELSE status' = "error" /\ UNCHANGED <<candles, drawn>>
    /\ UNCHANGED <<pair, interval, hover, logPref>>

\* The strategy changed: simulated over the candles in memory, whatever the status.
Resimulate == drawn' \in sim(candles.bars) /\ UNCHANGED <<pair, interval, candles, status, asked, hover, logPref>>

HoverAt(i) ==
    /\ "plot" \in ShownPlot /\ n >= 2 /\ i \in 1..n
    /\ hover' = onMove(xOf(i))
    /\ UNCHANGED <<pair, interval, candles, status, asked, drawn, logPref>>
HoverOut ==
    /\ "plot" \in ShownPlot /\ hover' = 0
    /\ UNCHANGED <<pair, interval, candles, status, asked, drawn, logPref>>
setLogPref ==
    /\ "log" \in ShownHeader
    /\ logPref' = IF logScale THEN "linear" ELSE "log"
    /\ UNCHANGED <<pair, interval, candles, status, asked, drawn, hover>>

\* What the proxy may answer, as its limiter and the mirrors decide.
MayAnswer(f) ==
    {candlesGET(f.of, f.iv, limited, down) : limited \in BOOLEAN, down \in SUBSET Range(Hosts)}
PAnswers == \E f \in asked : \E a \in MayAnswer(f) : Arrives(f, a)
PClicks ==
    \/ \E iv \in TryIntervals : setInterval(iv)
    \/ \E i \in 1..n : HoverAt(i)
    \/ HoverOut \/ setLogPref

-----------------------------------------------------------------------------
(* Properties *)

PTypeOK ==
    /\ pair \in Pairs /\ interval \in TryIntervals /\ status \in {"loading", "ok", "error"}
    /\ asked \subseteq [of : Pairs, iv : TryIntervals, alive : BOOLEAN]
    /\ drawn \in sim(candles.bars) /\ hover \in Nat /\ logPref \in {"auto", "log", "linear"}

\* Whatever is shown belongs to the market and the interval selected, in whatever order the
\* answers arrive, and at most one request still counts.
PreviewIsOfSelection ==
    /\ Shown # {} => candles.of = pair /\ candles.iv = interval
    /\ \A f \in asked : f.alive => f.of = pair /\ f.iv = interval
    /\ status = "loading" <=> \E f \in asked : f.alive

\* Every candle, level and mark on the screen lies inside the plot and answers to the pointer
\* over it, with one event at most on a bar.
MarksInPlot ==
    ShownPlot # {} =>
        /\ \A v \in drawn.levels \cup {candles.bars[i].l : i \in 1..n} \cup {candles.bars[i].h : i \in 1..n} :
                AtMost(Whole1(0), yOf(v)) /\ AtMost(yOf(v), Whole1(1))
        /\ \A i \in 1..n : onMove(xOf(i)) = i
        /\ \A i \in ShownMarks : Cardinality(eventAt(i)) = 1

=============================================================================
