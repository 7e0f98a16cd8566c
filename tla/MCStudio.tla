------------------------------ MODULE MCStudio ------------------------------
(***************************************************************************)
(* The machines of the strategy pages, for TLC: the list of strategies,    *)
(* the replay of a strategy over candles, the builder of custom ones, the  *)
(* quiz, the automatic pick and the comparison of markets.  They share no  *)
(* variable, so every behaviour is one of them, named by `which`, while    *)
(* the others stay as they started.                                        *)
(***************************************************************************)
EXTENDS Simulator, StrategyPage, AutoPick, TLC

CONSTANT Machines   \* the ones a configuration explores
VARIABLE which

-----------------------------------------------------------------------------
(* The replay: periods of two or three bars, prices of a few units.        *)

K(x) == 1000*x
AllBuiltin == {"bb_breakout","donchian_trend","tsmom","supertrend","ma_crossover","rsi","momentum","vol_expansion","bb_reversion","squeeze_breakout","macd_trend","trend_regime","ichimoku","sharpe_mom"}
All == AllBuiltin \cup {"custom"}
Tiny ==
  [t \in AllBuiltin |->
   CASE t = "bb_breakout" -> [period |-> K(3), k |-> 500, exit_k |-> -500, regime_period |-> 0]
     [] t = "donchian_trend" -> [entry_lookback |-> K(2), exit_lookback |-> K(3), regime_period |-> K(2)]
     [] t = "tsmom" -> [lookback |-> K(2), min_return |-> 100, near_high_frac |-> 300, regime_period |-> K(2)]
     [] t = "supertrend" -> [atr_period |-> K(1), mult |-> 500, confirm_bars |-> K(1), regime_period |-> K(2)]
     [] t = "ma_crossover" -> [fast |-> K(1), slow |-> K(2), confirm_bars |-> K(1), k_atr |-> 100, atr_period |-> K(1), regime_period |-> K(2)]
     [] t = "rsi" -> [period |-> K(2), oversold |-> K(70), regime_period |-> K(2)]
     [] t = "momentum" -> [lookback |-> K(2), buffer |-> 0, max_chase |-> 600, vol_period |-> K(2), vol_mult |-> 1000, min_atr_frac |-> 100, atr_period |-> K(1), regime_period |-> K(2)]
     [] t = "vol_expansion" -> [short_atr |-> K(1), long_atr |-> K(2), expansion_mult |-> 1200, breakout_lookback |-> K(2), regime_period |-> K(2)]
     [] t = "bb_reversion" -> [period |-> K(3), k |-> 500, z_entry |-> 600, regime_period |-> K(2)]
     [] t = "squeeze_breakout" -> [bb_period |-> K(2), atr_period |-> K(1), k_bb |-> 1000, k_kc |-> 1000, squeeze_lookback |-> K(2), lookback |-> K(2), buffer |-> 0, max_chase |-> 600, min_atr_frac |-> 100, vol_period |-> K(2), vol_mult |-> 500, regime_period |-> K(2)]
     [] t = "macd_trend" -> [fast |-> K(1), slow |-> K(2), signal |-> K(2), confirm_bars |-> K(1), require_positive |-> K(1), regime_period |-> K(2)]
     [] t = "trend_regime" -> [period |-> K(2), slope_bars |-> K(1), band |-> 50]
     [] t = "ichimoku" -> [tenkan |-> K(1), kijun |-> K(2), senkou_b |-> K(2), confirm_bars |-> K(1)]
     [] t = "sharpe_mom" -> [lookback |-> K(2), min_return |-> 100, min_score |-> 500, near_high_frac |-> 300, regime_period |-> K(2)]]
Blocks == {
  [kind |-> "trend", f |-> [op |-> "below", period |-> K(3)]],
  [kind |-> "sma_cross", f |-> [fast |-> K(1), slow |-> K(2), within |-> K(2)]],
  [kind |-> "rsi", f |-> [period |-> K(2), op |-> "below", value |-> K(50)]],
  [kind |-> "breakout", f |-> [lookback |-> K(2), buffer |-> 2000]],
  [kind |-> "bollinger", f |-> [band |-> "below_lower", period |-> K(3), k |-> 500]],
  [kind |-> "bollinger", f |-> [band |-> "above_upper", period |-> K(2), k |-> 1000]],
  [kind |-> "volume", f |-> [mult |-> 1500, period |-> K(2)]],
  [kind |-> "volatility", f |-> [period |-> K(1), op |-> "above", value |-> K(40)]],
  [kind |-> "change", f |-> [lookback |-> K(2), op |-> "above", value |-> K(30)]],
  [kind |-> "confirm", f |-> NoParams]}
TinyCustom == {[rules |-> <<r>>, exits |-> [stop |-> 300, target |-> 500, trail |-> 1000, atr |-> K(2), hold |-> 2]] : r \in Blocks}
  \cup {[rules |-> <<r1, [kind |-> "confirm", f |-> NoParams]>>, exits |-> [stop |-> 300, target |-> 500, trail |-> 1000, atr |-> K(1), hold |-> 3]] : r1 \in {x \in Blocks : x.kind = "trend"}}
TinySets == [t \in All |-> IF t = "custom" THEN TinyCustom ELSE IF t = "bb_breakout" THEN {Tiny[t], [Tiny[t] EXCEPT !.exit_k = 1000]}
  ELSE IF t = "supertrend" THEN {Tiny[t], [Tiny[t] EXCEPT !.atr_period = K(2), !.confirm_bars = K(2)]} ELSE {Tiny[t]}]
TinyExits == [t \in AllBuiltin |->
   IF t \in {"trend_regime", "donchian_trend"} THEN [stop |-> 400, target |-> 0, trail |-> 0, atr |-> K(1), hold |-> 0]
   ELSE [stop |-> 300, target |-> 500, trail |-> 1000, atr |-> K(2), hold |-> 2]]
Bar(c, s, v) == [h |-> c + s, l |-> c - s, c |-> c, v |-> v]
TinyCandles == [t \in All |->
   CASE t \in {"momentum", "squeeze_breakout", "custom"} -> {Bar(2,0,1), Bar(3,1,1), Bar(4,1,2), Bar(3, 0, 2)}
     [] t = "supertrend" -> {Bar(c, 0, 1) : c \in 2..4} \cup {[h |-> 2, l |-> 1, c |-> 1, v |-> 1], [h |-> 12, l |-> 3, c |-> 3, v |-> 1]}
     [] t = "macd_trend" -> {Bar(c, 0, 1) : c \in {2,4}} \cup {Bar(1,0,1)}
     [] t \in {"ichimoku", "trend_regime", "bb_reversion"} -> {Bar(c, 0, 1) : c \in 2..4} \cup {[h |-> 4, l |-> 2, c |-> 2, v |-> 1]}
     [] OTHER -> {Bar(c, 0, 1) : c \in 2..4} \cup {[h |-> 4, l |-> 2, c |-> 2, v |-> 1]}]
TinyLength == [t \in All |-> IF t = "macd_trend" THEN 8 ELSE IF t \in {"ichimoku", "momentum", "trend_regime", "bb_reversion"} THEN 6 ELSE 5]
Keep == <<4, 5>>
Quarter == <<1, 4>>

-----------------------------------------------------------------------------
(* The list of strategies.                                                 *)

SomeMarkets == {[pair |-> "inr", coin |-> "BNB"], [pair |-> "other", coin |-> "BTC"]}

-----------------------------------------------------------------------------
(* The builder, on two markets of up to three candles.                     *)

VARIABLES def, market, windows, winAsked, compareIv, addOpen, saving, saved, away, saveFailures,
          clicks, seen, pair, interval, candles, status, asked, drawn, hover, logPref
CONSTANTS Pairs, FirstPair, Klines, Trades, Lines, TryWindows, TryIntervals, MinBars, FoldBars,
          TryKinds, TryNumbers, TryFields, TryExits, MaxClicks, SaveIds, SaveFailures
\* What a replay over so many bars gives (ExposureIsHolding): trades in order, the last may be open.
Replayed(ts, bars_) ==
  /\ ts \in Seq([entry : 1 .. bars_, exit : 0 .. bars_])
  /\ \A k \in DOMAIN ts : ts[k].exit # 0 => ts[k].entry < ts[k].exit
  /\ \A k \in 1 .. Len(ts) - 1 : ts[k].exit # 0 /\ ts[k].exit < ts[k + 1].entry
\* What is there to preview: prices, replays and levels are numbers, a new definition is allowed.
ASSUME BuilderAssumption ==
  /\ FirstPair \in Pairs /\ "1d" \in TryIntervals /\ MAX_RULES >= 3
  /\ TryNumbers \subseteq Int /\ TryWindows \subseteq SUBSET {"1d", "4h", "1h", "15m"}
  /\ \A p \in DOMAIN Klines, iv \in TryIntervals :
       /\ Klines[p][iv] \in Seq({b \in [l : Int, h : Int] : b.l <= b.h})
       /\ Klines[p][iv] # <<>> =>
            /\ \A ts \in Trades[Len(Klines[p][iv])] : Replayed(ts, Len(Klines[p][iv]))
            /\ \A ls \in Lines[Len(Klines[p][iv])] : IsFiniteSet(ls) /\ ls \subseteq Int
Wide(l, h) == [l |-> l, h |-> h]
ThreeBars == <<Wide(1, 2), Wide(2, 3), Wide(2, 2)>>
TwoBars == <<Wide(1, 4), Wide(2, 2)>>
OneBar  == <<Wide(2, 2)>>
AllIntervals == {"1d", "4h", "1h", "15m"}
SomeKlines == [p \in {"btc", "eth"} |-> [iv \in AllIntervals |->
  IF p = "btc" THEN (IF iv = "1d" THEN ThreeBars ELSE TwoBars)
               ELSE (IF iv = "1d" THEN TwoBars ELSE OneBar)]]
SomeTrades == [n \in 1 .. 3 |-> IF n < 3 THEN {<<>>}
  ELSE {<<[entry |-> 2, exit |-> 3]>>, <<[entry |-> 3, exit |-> 0]>>}]
SomeLines   == [n \in 1 .. 3 |-> IF n < 3 THEN {{}} ELSE {{0, 6}}]
SomeWindows == {{}, {"1d"}}
BUILD == INSTANCE Builder

-----------------------------------------------------------------------------
(* The quiz, the automatic pick, the comparison of markets.                *)

VARIABLES quizAnswers
QUIZ == INSTANCE Quiz
Inr(c)   == [pair |-> "inr", coin |-> c]
At(t, c) == [template |-> t, market |-> Inr(c)]
Earned(n, c) == [pnl |-> n, closed |-> c]
Results == At("ensemble_ls", "BTC") :> Earned(9, 4) @@ At("tsmom", "ETH") :> Earned(5, 4)
           @@ At("custom", "BTC") :> Earned(-2, 3)
Saved(i, t, c, on) == [id |-> i, template |-> t, market |-> Inr(c), enabled |-> on]
Starts == {<<>>, <<Saved(1, "tsmom", "ETH", FALSE), Saved(2, "custom", "BTC", TRUE)>>,
           <<Saved(1, "rsi", "BNB", TRUE), Saved(2, "tsmom", "ETH", TRUE),
             Saved(3, "tsmom", "ETH", FALSE)>>}

VARIABLES days, failed, comparing, ranking, ranDays, sel, adding, added, finderClicks,
          finderFaults, ticked
CONSTANTS Coins2, Scores, Ranges, FirstRange, FinderClicks, FinderFaults
Score(t, net, closed, w) == [template |-> t, net |-> net, closed |-> closed, winRate |-> w]
Table == [c \in {"BTC", "ETH"} |-> [d \in {90, 365} |->
  IF c = "BTC" THEN (IF d = 90 THEN {Score("momentum", 9, 2, 50)}
                     ELSE {Score("momentum", 4, 5, 50), Score("tsmom", 4, 5, 60)})
               ELSE (IF d = 90 THEN {Score("momentum", 3, 3, 30)} ELSE {})]]
\* A simulation gives one score per template.
ASSUME FinderAssumption ==
  /\ FirstRange \in Ranges
  /\ \A c \in Coins2, d \in Ranges :
       /\ IsFiniteSet(Scores[c][d])
       /\ \A s, t \in Scores[c][d] : s.template = t.template => s = t
FIND == INSTANCE Finder WITH err <- failed, rows <- ranking

-----------------------------------------------------------------------------
buildVars == <<def, market, windows, winAsked, compareIv, addOpen, saving, saved, away,
               saveFailures, clicks, seen, pair, interval, candles, status, asked, drawn, hover,
               logPref>>
pickVars  == <<userRows, pageRows, panel, applying, pickFailures, pickMoves, outcome>>
findVars  == <<days, failed, comparing, ranking, ranDays, sel, adding, added, finderClicks,
               finderFaults, ticked>>
studioVars == <<which, simVars, pageVars, buildVars, quizAnswers, pickVars, findVars>>

(* A machine that is not explored starts in one of its initial states.     *)
Parked ==
  /\ which # "replay" => /\ tpl = "tsmom"
                         /\ bars = <<CHOOSE c \in Candles[tpl] : TRUE>>
  /\ which # "page"   => ~shorting /\ card.tpl = CHOOSE t \in TryTemplates : TRUE
  /\ which # "pick"   => userRows = <<>>

StudioInit ==
  /\ which \in Machines
  /\ SimInit /\ PageInit /\ BUILD!BInit /\ QUIZ!QuizInit /\ AInit /\ FIND!FInit
  /\ Parked

StudioNext ==
  /\ UNCHANGED which
  /\ \/ /\ which = "replay" /\ SimNext
        /\ UNCHANGED <<pageVars, buildVars, quizAnswers, pickVars, findVars>>
     \/ /\ which = "page" /\ PageNext
        /\ UNCHANGED <<simVars, buildVars, quizAnswers, pickVars, findVars>>
     \/ /\ which = "build" /\ BUILD!BNext
        /\ UNCHANGED <<simVars, pageVars, quizAnswers, pickVars, findVars>>
     \/ /\ which = "quiz" /\ QUIZ!QuizNext
        /\ UNCHANGED <<simVars, pageVars, buildVars, pickVars, findVars>>
     \/ /\ which = "pick" /\ ANext
        /\ UNCHANGED <<simVars, pageVars, buildVars, quizAnswers, findVars>>
     \/ /\ which = "find" /\ FIND!FNext
        /\ UNCHANGED <<simVars, pageVars, buildVars, quizAnswers, pickVars>>

StudioSpec == StudioInit /\ [][StudioNext]_studioVars

-----------------------------------------------------------------------------
(* Stored parameters are legal as the engine reads them, the engine runs a *)
(* row with exactly those its preview showed, and the page is up to date.  *)
PageHonest == which = "page" => PageTypeOK /\ RunsAsPreviewed /\ StoredIsLegal /\ PageIsFresh

(* What the replay reports of its trades, its exposure, its folds, its     *)
(* recurring buys and its chart agrees with the rules it replays.          *)
ReplayHonest == which = "replay" =>
  /\ SimTypeOK
  /\ OverlayExplains /\ EntryExcludesExit
  /\ ExposureIsHolding /\ FoldsPartition /\ AvgCostIsAPrice

(* The builder analyses the market it names, draws inside its plot, and    *)
(* saves the definition that was previewed.                                *)
BuilderHonest == which = "build" =>
  /\ BUILD!BTypeOK
  /\ BUILD!AnalysisIsOfMarket /\ BUILD!SavedIsPreviewed /\ BUILD!MarksInPlot

(* The quiz, the automatic pick and the comparison advise what their       *)
(* scores say, and what they add or replace is what was chosen.            *)
AdviceHonest ==
  /\ which = "quiz" => QUIZ!MatchIsBest
  /\ which = "pick" => ATypeOK /\ AppliedAsRecommended /\ NeverLeftWithout
  /\ which = "find" => FIND!FTypeOK /\ FIND!RankingIsOfRange /\ FIND!AddedAsTicked
=============================================================================
