---------------------------- MODULE StudioProofs ----------------------------
(***************************************************************************)
(* Proofs about the machines of the strategy pages.  The machines share no *)
(* variable, so each invariant below is proved of the composition: the     *)
(* steps of the other machines leave its variables alone.                  *)
(***************************************************************************)
EXTENDS MCStudio, Recursion, TLAPS

-----------------------------------------------------------------------------
(***************************************************************************)
(* The list of strategies.  The server action in flight is the one thing   *)
(* that ties what was confirmed to what is removed, and what is listed to  *)
(* what is stored: a removal holds ids that were confirmed at its click,   *)
(* and only an addition past its checks has written rows the page has not  *)
(* been given yet.                                                         *)
(***************************************************************************)

\* What a server action carries, for each button that starts one.
JobShape ==
  /\ job = [x \in DOMAIN job |-> job[x]]
  /\ \/ job = NoJob
     \/ job.op = "toggle" /\ {"op", "id", "enabled"} = DOMAIN job
     \/ job.op = "remove" /\ {"op", "ids", "ticked"} = DOMAIN job
     \/ /\ job.op = "add" /\ {"op", "tpl", "markets", "checked", "params", "shown"} = DOMAIN job
        /\ job.checked \in BOOLEAN

\* A removal under way removes rows the user confirmed.
Chosen == job.op = "remove" => job.ids \subseteq confirmed

\* The page lists what is stored but for the rows an addition has inserted so far.
ListedUnlessAdding ==
  failures = 0 /\ other = 0 => listed = rows \/ (job.op = "add" /\ job.checked)

PageInv == failures \in Nat /\ other \in Nat /\ JobShape /\ Chosen /\ ListedUnlessAdding

\* No action runs at first, and nothing is stored.
LEMMA PageStarts == PageInit => PageInv
BY DEF PageInit, PageInv, JobShape, Chosen, ListedUnlessAdding, NoJob

\* A click that starts an action finds none running.
LEMMA Idles ==
  ASSUME PageInv, ~pending
  PROVE  job = NoJob /\ (failures = 0 /\ other = 0 => listed = rows)
BY DEF pending, PageInv, ListedUnlessAdding, NoJob

\* The clicks: those that only edit the page, and the buttons that start an action.
LEMMA ClickSteps == ASSUME PageInv, Clicks PROVE PageInv' /\ rows' = rows
<1> USE DEF PageInv
<1>1. ASSUME UNCHANGED server PROVE PageInv' /\ rows' = rows
  BY <1>1 DEF server, JobShape, Chosen, ListedUnlessAdding
<1>2. ASSUME NEW t \in TryTemplates, pickTemplate(t) PROVE PageInv' /\ rows' = rows
  BY <1>1, <1>2 DEF pickTemplate
<1>3. ASSUME NEW s \in cfg.editable, NEW v \in TryValues, EditParam(s, v)
      PROVE  PageInv' /\ rows' = rows
  BY <1>1, <1>3 DEF EditParam
<1>4. CASE ResetToStock \/ MalformedMarket
  BY <1>1, <1>4 DEF ResetToStock, MalformedMarket
<1>5. ASSUME NEW m \in TryMarkets, toggleMarket(m) \/ addCustomMarket(m)
      PROVE  PageInv' /\ rows' = rows
  BY <1>1, <1>5 DEF toggleMarket, addCustomMarket
<1>6. ASSUME NEW i \in Ids, toggleSelected(i) PROVE PageInv' /\ rows' = rows
  BY <1>1, <1>6 DEF toggleSelected
<1>7. ASSUME NEW i \in Ids, toggleStrategy(i) PROVE PageInv' /\ rows' = rows
  <2>1. ~pending
    BY <1>7 DEF toggleStrategy, ShownRow
  <2>2. job' = [op |-> "toggle", id |-> i, enabled |-> ~listed[i].enabled]
        /\ UNCHANGED <<rows, listed, failures, other, confirmed>>
    BY <1>7 DEF toggleStrategy, run
  <2>3. failures = 0 /\ other = 0 => listed = rows
    BY <2>1, Idles
  <2>4. JobShape' /\ Chosen'
    BY <2>2 DEF JobShape, Chosen
  <2> QED
    BY <2>2, <2>3, <2>4 DEF ListedUnlessAdding
<1>8. ASSUME NEW i \in Ids, removeOne(i) PROVE PageInv' /\ rows' = rows
  <2>1. ~pending
    BY <1>8 DEF removeOne, ShownRow
  <2>2. job' = [op |-> "remove", ids |-> {i}, ticked |-> FALSE]
        /\ confirmed' = confirmed \cup {i} /\ UNCHANGED <<rows, listed, failures, other>>
    BY <1>8 DEF removeOne, run
  <2>3. failures = 0 /\ other = 0 => listed = rows
    BY <2>1, Idles
  <2>4. JobShape' /\ Chosen'
    BY <2>2 DEF JobShape, Chosen
  <2> QED
    BY <2>2, <2>3, <2>4 DEF ListedUnlessAdding
<1>9. CASE toggleSelectAll \/ ClearSelected
  BY <1>1, <1>9 DEF toggleSelectAll, ClearSelected
<1>10. CASE removeSelected
  <2>1. ~pending
    BY <1>10 DEF removeSelected, ShownTools
  <2>2. job' = [op |-> "remove", ids |-> selected, ticked |-> TRUE]
        /\ confirmed' = confirmed \cup selected /\ UNCHANGED <<rows, listed, failures, other>>
    BY <1>10 DEF removeSelected, run
  <2>3. failures = 0 /\ other = 0 => listed = rows
    BY <2>1, Idles
  <2>4. JobShape' /\ Chosen'
    BY <2>2 DEF JobShape, Chosen
  <2> QED
    BY <2>2, <2>3, <2>4 DEF ListedUnlessAdding
<1>11. CASE AddStrategies
  <2> DEFINE sent == IF tplShort THEN paramValues ELSE diffs
             view == Previewed
  <2>1. ~pending
    BY <1>11 DEF AddStrategies, ShownAdd
  <2>2. job' = [op |-> "add", tpl |-> card.tpl, markets |-> card.markets, checked |-> FALSE,
                params |-> sent, shown |-> view]
        /\ UNCHANGED <<rows, listed, failures, other, confirmed>>
    BY <1>11 DEF AddStrategies, run
  <2> HIDE DEF sent, view
  <2>3. failures = 0 /\ other = 0 => listed = rows
    BY <2>1, Idles
  <2>4. JobShape' /\ Chosen'
    BY <2>2 DEF JobShape, Chosen
  <2> QED
    BY <2>2, <2>3, <2>4 DEF ListedUnlessAdding
<1>12. CASE EqualSplit
  BY <1>1, <1>12 DEF EqualSplit
<1>13. CASE saveSplit
  BY <1>13 DEF saveSplit, JobShape, Chosen, ListedUnlessAdding
<1>14. ASSUME NEW i \in Ids, NEW w \in TryWeights, EditWeight(i, w)
       PROVE  PageInv' /\ rows' = rows
  BY <1>1, <1>14 DEF EditWeight
<1> QED
  BY <1>2, <1>3, <1>4, <1>5, <1>6, <1>7, <1>8, <1>9, <1>10, <1>11, <1>12, <1>13, <1>14
  DEF Clicks

\* The calls of the server: a row that goes was confirmed, unless another tab acted.
LEMMA ServerSteps ==
  ASSUME PageInv, ServerActions
  PROVE  PageInv' /\ \A i \in DOMAIN rows \ DOMAIN rows' : i \in confirmed
<1> USE DEF PageInv
<1>1. CASE AddChecked
  <2>1. /\ job.op = "add" /\ ~job.checked /\ job' = [job EXCEPT !.checked = TRUE]
        /\ UNCHANGED <<rows, listed, failures, other, confirmed>>
    BY <1>1 DEF AddChecked, others
  <2>2. JobShape' /\ Chosen' /\ ListedUnlessAdding'
    BY <2>1 DEF JobShape, Chosen, ListedUnlessAdding, NoJob
  <2> QED
    BY <2>1, <2>2
<1>2. CASE setStrategyEnabled
  <2>1. /\ job' = NoJob /\ listed' = rows' /\ DOMAIN rows' = DOMAIN rows
        /\ UNCHANGED <<failures, other, confirmed>>
    BY <1>2 DEF setStrategyEnabled, Finish, Refresh, others
  <2>2. JobShape' /\ Chosen' /\ ListedUnlessAdding'
    BY <2>1 DEF JobShape, Chosen, ListedUnlessAdding, NoJob
  <2> QED
    BY <2>1, <2>2
<1>3. CASE ActionFails
  <2>1. /\ job' = NoJob /\ UNCHANGED <<rows, listed, other, confirmed>>
        /\ \/ failures' = failures + 1
           \/ failures' = failures /\ job.op = "add" /\ ~job.checked
    BY <1>3 DEF ActionFails, Finish, others
  <2>2. JobShape' /\ Chosen' /\ ListedUnlessAdding'
    BY <2>1 DEF JobShape, Chosen, ListedUnlessAdding, NoJob
  <2> QED
    BY <2>1, <2>2
<1>4. CASE setStrategyWeights
  <2>1. /\ listed' = rows' /\ DOMAIN rows' = DOMAIN rows
        /\ UNCHANGED <<job, failures, other, confirmed>>
    BY <1>4 DEF setStrategyWeights, Refresh
  <2>2. JobShape' /\ Chosen' /\ ListedUnlessAdding'
    BY <2>1 DEF JobShape, Chosen, ListedUnlessAdding
  <2> QED
    BY <2>1, <2>2
<1>5. CASE WeightsFail
  <2>1. /\ failures' = failures + 1 /\ DOMAIN rows' = DOMAIN rows
        /\ UNCHANGED <<job, listed, other, confirmed>>
    BY <1>5 DEF WeightsFail
  <2>2. JobShape' /\ Chosen' /\ ListedUnlessAdding'
    BY <2>1 DEF JobShape, Chosen, ListedUnlessAdding
  <2> QED
    BY <2>1, <2>2
<1>6. ASSUME NEW i \in Ids, addStrategy(i)
      PROVE  PageInv' /\ \A k \in DOMAIN rows \ DOMAIN rows' : k \in confirmed
  <2>1. /\ job.op = "add" /\ job.checked /\ DOMAIN rows' = DOMAIN rows \cup {i}
        /\ UNCHANGED <<failures, other, confirmed>>
        /\ \/ job' = NoJob /\ listed' = rows'
           \/ job' = [job EXCEPT !.markets = Tail(@)]
    BY <1>6 DEF addStrategy, RowsWith, Finish, Refresh, others
  <2>2. CASE job' = NoJob /\ listed' = rows'
    BY <2>1, <2>2 DEF JobShape, Chosen, ListedUnlessAdding, NoJob
  <2>3. CASE job' = [job EXCEPT !.markets = Tail(@)]
    <3>1. JobShape' /\ Chosen' /\ ListedUnlessAdding'
      BY <2>1, <2>3 DEF JobShape, Chosen, ListedUnlessAdding, NoJob
    <3> QED
      BY <2>1, <3>1
  <2> QED
    BY <2>1, <2>2, <2>3
<1>7. ASSUME NEW i \in Ids, removeStrategy(i)
      PROVE  PageInv' /\ \A k \in DOMAIN rows \ DOMAIN rows' : k \in confirmed
  <2>1. /\ job.op = "remove" /\ i \in job.ids /\ DOMAIN rows' = DOMAIN rows \ {i}
        /\ listed' = rows' /\ UNCHANGED <<failures, other, confirmed>>
        /\ job' = NoJob \/ job' = [job EXCEPT !.ids = @ \ {i}]
    BY <1>7 DEF removeStrategy, Without, Finish, Refresh, others
  <2>2. i \in confirmed
    BY <2>1 DEF Chosen
  <2>3. JobShape' /\ Chosen' /\ ListedUnlessAdding'
    <3>1. CASE job' = NoJob
      BY <2>1, <3>1 DEF JobShape, Chosen, ListedUnlessAdding, NoJob
    <3>2. CASE job' = [job EXCEPT !.ids = @ \ {i}]
      BY <2>1, <3>2 DEF JobShape, Chosen, ListedUnlessAdding, NoJob
    <3> QED
      BY <2>1, <3>1, <3>2
  <2> QED
    BY <2>1, <2>2, <2>3
<1> QED
  BY <1>1, <1>2, <1>3, <1>4, <1>5, <1>6, <1>7 DEF ServerActions

\* What another tab does is counted.
LEMMA OtherSteps == ASSUME PageInv, OtherTab PROVE PageInv' /\ other' # other
<1>1. other' = other + 1 /\ UNCHANGED <<listed, job, failures, confirmed>>
  BY DEF OtherTab
<1> QED
  BY <1>1 DEF PageInv, JobShape, Chosen, ListedUnlessAdding

\* Every step of the page keeps the invariant, and removes only confirmed rows.
LEMMA PageSteps ==
  ASSUME PageInv, [PageNext]_pageVars
  PROVE  PageInv' /\ (other' = other => \A i \in DOMAIN rows \ DOMAIN rows' : i \in confirmed)
<1>1. CASE UNCHANGED pageVars
  BY <1>1 DEF pageVars, PageInv, JobShape, Chosen, ListedUnlessAdding
<1> QED
  BY <1>1, ClickSteps, ServerSteps, OtherSteps DEF PageNext

\* The invariant of the list of strategies.
THEOREM PageInvariant == StudioSpec => []PageInv
<1>1. StudioInit => PageInv
  BY PageStarts DEF StudioInit
<1>2. PageInv /\ [StudioNext]_studioVars => PageInv'
  <2>1. [StudioNext]_studioVars => [PageNext]_pageVars
    BY DEF StudioNext, studioVars
  <2> QED
    BY <2>1, PageSteps
<1> QED
  BY <1>1, <1>2, PTL DEF StudioSpec

\* Whatever is ticked while a removal runs, and however many rows there are, this
\* tab removes only rows the user confirmed to remove.
THEOREM RemovesConfirmedCorrect == StudioSpec => RemovesConfirmed
<1>1. PageInv /\ [StudioNext]_studioVars =>
        [other' = other => \A i \in DOMAIN rows \ DOMAIN rows' : i \in confirmed]_pageVars
  <2>1. [StudioNext]_studioVars => [PageNext]_pageVars
    BY DEF StudioNext, studioVars
  <2> QED
    BY <2>1, PageSteps
<1> QED
  BY <1>1, PageInvariant, PTL DEF StudioSpec, RemovesConfirmed

\* When no call failed and no other tab acted, the idle page lists what is stored.
THEOREM PageIsFreshCorrect == StudioSpec => []PageIsFresh
<1>1. PageInv => PageIsFresh
  BY Idles DEF PageIsFresh
<1> QED
  BY <1>1, PageInvariant, PTL

-----------------------------------------------------------------------------
(***************************************************************************)
(* Parameters from the form to the engine.  A set of overrides fits a      *)
(* template when it holds legal values of editable keys only; the gate and *)
(* the worker leave such a set as it is, and what the page sends fits.     *)
(***************************************************************************)

\* An entry s of a table whose stock values are p: the key has a stock value within the bounds,
\* whole numbers have whole bounds, and the worker's wider clamps contain the bounds.
EntryOK(p, s) ==
  /\ s.key \in DOMAIN p /\ s.int \in BOOLEAN /\ s.min \in Int /\ s.max \in Int
  /\ p[s.key] \in s.min .. s.max
  /\ s.int => s.min % 1000 = 0 /\ s.max % 1000 = 0 /\ s.min >= 0 /\ s.max <= 10000000
  /\ ~s.int => s.key # "oversold" /\ s.min >= -100000 /\ s.max <= 100000

\* A template's table: every editable key has one entry.
TableOK(c) ==
  /\ c.market = [pair |-> "inr", coin |-> c.market.coin]
  /\ \A s, r \in c.editable : s.key = r.key => s = r
  /\ \A s \in c.editable : EntryOK(c.params, s)

\* The key of an entry.
LEMMA WholeKey == \A k, lo, hi : Whole(k, lo, hi).key = k
BY DEF Whole

\* The key of an entry.
LEMMA RealKey == \A k, lo, hi : Real(k, lo, hi).key = k
BY DEF Real

\* The table that Config makes of its entries.
LEMMA TableOfConfig ==
  ASSUME NEW coin, NEW x, NEW p, NEW E,
         \A s, r \in E : s.key = r.key => s = r, \A s \in E : EntryOK(p, s)
  PROVE  TableOK(Config(coin, x, p, E))
BY DEF TableOK, Config

\* bb_breakout: every bound holds its stock value, and no key comes twice.
LEMMA TableOfBbBreakout == TableOK(bb_breakout_config)
<1> DEFINE p == [period |-> 20000, k |-> 2000, exit_k |-> 0, regime_period |-> 0,
                 expected_move_pct |-> 80]
           E == {Whole("period", 10, 60), Real("k", 1000, 3500), Real("exit_k", -2000, 1000),
                 Whole("regime_period", 0, 300)}
<1>1. /\ {"period", "k", "exit_k", "regime_period"} \subseteq DOMAIN p
      /\ p.period = 20000 /\ p.k = 2000 /\ p.exit_k = 0 /\ p.regime_period = 0
  OBVIOUS
<1>2. bb_breakout_config = Config("XRP", Stop(100), p, E)
  BY DEF bb_breakout_config
<1> HIDE DEF p
<1>3. /\ EntryOK(p, Whole("period", 10, 60))
      /\ EntryOK(p, Real("k", 1000, 3500))
      /\ EntryOK(p, Real("exit_k", -2000, 1000))
      /\ EntryOK(p, Whole("regime_period", 0, 300))
  BY <1>1 DEF EntryOK, Whole, Real
<1>4. \A s, r \in E : s.key = r.key => s = r
  BY WholeKey, RealKey
<1>5. \A s \in E : EntryOK(p, s)
  BY <1>3
<1> HIDE DEF E
<1> QED
  BY <1>2, <1>4, <1>5, TableOfConfig

\* donchian_trend: every bound holds its stock value, and no key comes twice.
LEMMA TableOfDonchianTrend == TableOK(donchian_trend_config)
<1> DEFINE p == [entry_lookback |-> 20000, exit_lookback |-> 10000, regime_period |-> 0,
                 expected_move_pct |-> 100]
           E == {Whole("entry_lookback", 5, 120), Whole("exit_lookback", 3, 60),
                 Whole("regime_period", 0, 300)}
<1>1. /\ {"entry_lookback", "exit_lookback", "regime_period"} \subseteq DOMAIN p
      /\ p.entry_lookback = 20000 /\ p.exit_lookback = 10000 /\ p.regime_period = 0
  OBVIOUS
<1>2. donchian_trend_config = Config("BNB", Stop(100), p, E)
  BY DEF donchian_trend_config
<1> HIDE DEF p
<1>3. /\ EntryOK(p, Whole("entry_lookback", 5, 120))
      /\ EntryOK(p, Whole("exit_lookback", 3, 60))
      /\ EntryOK(p, Whole("regime_period", 0, 300))
  BY <1>1 DEF EntryOK, Whole, Real
<1>4. \A s, r \in E : s.key = r.key => s = r
  BY WholeKey, RealKey
<1>5. \A s \in E : EntryOK(p, s)
  BY <1>3
<1> HIDE DEF E
<1> QED
  BY <1>2, <1>4, <1>5, TableOfConfig

\* vol_expansion: every bound holds its stock value, and no key comes twice.
LEMMA TableOfVolExpansion == TableOK(vol_expansion_config)
<1> DEFINE p == [short_atr |-> 5000, long_atr |-> 20000, expansion_mult |-> 1300,
                 breakout_lookback |-> 10000, regime_period |-> 50000,
                 expected_move_pct |-> 60]
           E == {Whole("short_atr", 2, 50), Whole("long_atr", 5, 200),
                 Real("expansion_mult", 1000, 4000), Whole("breakout_lookback", 5, 100),
                 Whole("regime_period", 10, 400)}
<1>1. /\ {"short_atr", "long_atr", "expansion_mult", "breakout_lookback", "regime_period"}
           \subseteq DOMAIN p
      /\ p.short_atr = 5000 /\ p.long_atr = 20000 /\ p.expansion_mult = 1300
         /\ p.breakout_lookback = 10000 /\ p.regime_period = 50000
  OBVIOUS
<1>2. vol_expansion_config = Config("BNB", Trailing, p, E)
  BY DEF vol_expansion_config
<1> HIDE DEF p
<1>3. /\ EntryOK(p, Whole("short_atr", 2, 50))
      /\ EntryOK(p, Whole("long_atr", 5, 200))
      /\ EntryOK(p, Real("expansion_mult", 1000, 4000))
      /\ EntryOK(p, Whole("breakout_lookback", 5, 100))
      /\ EntryOK(p, Whole("regime_period", 10, 400))
  BY <1>1 DEF EntryOK, Whole, Real
<1>4. \A s, r \in E : s.key = r.key => s = r
  BY WholeKey, RealKey
<1>5. \A s \in E : EntryOK(p, s)
  BY <1>3
<1> HIDE DEF E
<1> QED
  BY <1>2, <1>4, <1>5, TableOfConfig

\* momentum: every bound holds its stock value, and no key comes twice.
LEMMA TableOfMomentum == TableOK(momentum_config)
<1> DEFINE p == [lookback |-> 20000, atr_period |-> 14000, vol_period |-> 20000,
                 min_atr_frac |-> 10, vol_mult |-> 1000, buffer |-> 2, max_chase |-> 50,
                 regime_period |-> 50000, expected_move_pct |-> 80]
           E == {Whole("lookback", 5, 200), Real("buffer", 0, 20), Real("max_chase", 5, 100),
                 Real("vol_mult", 500, 5000), Whole("regime_period", 10, 400)}
<1>1. /\ {"lookback", "buffer", "max_chase", "vol_mult", "regime_period"} \subseteq DOMAIN p
      /\ p.lookback = 20000 /\ p.buffer = 2 /\ p.max_chase = 50 /\ p.vol_mult = 1000
         /\ p.regime_period = 50000
  OBVIOUS
<1>2. momentum_config = Config("BTC", Trailing, p, E)
  BY DEF momentum_config
<1> HIDE DEF p
<1>3. /\ EntryOK(p, Whole("lookback", 5, 200))
      /\ EntryOK(p, Real("buffer", 0, 20))
      /\ EntryOK(p, Real("max_chase", 5, 100))
      /\ EntryOK(p, Real("vol_mult", 500, 5000))
      /\ EntryOK(p, Whole("regime_period", 10, 400))
  BY <1>1 DEF EntryOK, Whole, Real
<1>4. \A s, r \in E : s.key = r.key => s = r
  BY WholeKey, RealKey
<1>5. \A s \in E : EntryOK(p, s)
  BY <1>3
<1> HIDE DEF E
<1> QED
  BY <1>2, <1>4, <1>5, TableOfConfig

\* tsmom: every bound holds its stock value, and no key comes twice.
LEMMA TableOfTsmom == TableOK(tsmom_config)
<1> DEFINE p == [lookback |-> 30000, min_return |-> 100, near_high_frac |-> 20,
                 regime_period |-> 50000, expected_move_pct |-> 80]
           E == {Whole("lookback", 5, 200), Real("min_return", 20, 500),
                 Real("near_high_frac", 5, 100), Whole("regime_period", 10, 400)}
<1>1. /\ {"lookback", "min_return", "near_high_frac", "regime_period"} \subseteq DOMAIN p
      /\ p.lookback = 30000 /\ p.min_return = 100 /\ p.near_high_frac = 20
         /\ p.regime_period = 50000
  OBVIOUS
<1>2. tsmom_config = Config("ETH", Trailing, p, E)
  BY DEF tsmom_config
<1> HIDE DEF p
<1>3. /\ EntryOK(p, Whole("lookback", 5, 200))
      /\ EntryOK(p, Real("min_return", 20, 500))
      /\ EntryOK(p, Real("near_high_frac", 5, 100))
      /\ EntryOK(p, Whole("regime_period", 10, 400))
  BY <1>1 DEF EntryOK, Whole, Real
<1>4. \A s, r \in E : s.key = r.key => s = r
  BY WholeKey, RealKey
<1>5. \A s \in E : EntryOK(p, s)
  BY <1>3
<1> HIDE DEF E
<1> QED
  BY <1>2, <1>4, <1>5, TableOfConfig

\* trend_regime: every bound holds its stock value, and no key comes twice.
LEMMA TableOfTrendRegime == TableOK(trend_regime_config)
<1> DEFINE p == [period |-> 100000, band |-> 20, slope_bars |-> 5000,
                 expected_move_pct |-> 100]
           E == {Whole("period", 20, 300), Real("band", 0, 100), Whole("slope_bars", 1, 30)}
<1>1. /\ {"period", "band", "slope_bars"} \subseteq DOMAIN p
      /\ p.period = 100000 /\ p.band = 20 /\ p.slope_bars = 5000
  OBVIOUS
<1>2. trend_regime_config = Config("DOGE", Stop(100), p, E)
  BY DEF trend_regime_config
<1> HIDE DEF p
<1>3. /\ EntryOK(p, Whole("period", 20, 300))
      /\ EntryOK(p, Real("band", 0, 100))
      /\ EntryOK(p, Whole("slope_bars", 1, 30))
  BY <1>1 DEF EntryOK, Whole, Real
<1>4. \A s, r \in E : s.key = r.key => s = r
  BY WholeKey, RealKey
<1>5. \A s \in E : EntryOK(p, s)
  BY <1>3
<1> HIDE DEF E
<1> QED
  BY <1>2, <1>4, <1>5, TableOfConfig

\* supertrend: every bound holds its stock value, and no key comes twice.
LEMMA TableOfSupertrend == TableOK(supertrend_config)
<1> DEFINE p == [atr_period |-> 10000, mult |-> 3000, confirm_bars |-> 2000,
                 regime_period |-> 50000, expected_move_pct |-> 80]
           E == {Whole("atr_period", 3, 50), Real("mult", 1000, 6000),
                 Whole("confirm_bars", 1, 10), Whole("regime_period", 10, 400)}
<1>1. /\ {"atr_period", "mult", "confirm_bars", "regime_period"} \subseteq DOMAIN p
      /\ p.atr_period = 10000 /\ p.mult = 3000 /\ p.confirm_bars = 2000
         /\ p.regime_period = 50000
  OBVIOUS
<1>2. supertrend_config = Config("BTC", Trailing, p, E)
  BY DEF supertrend_config
<1> HIDE DEF p
<1>3. /\ EntryOK(p, Whole("atr_period", 3, 50))
      /\ EntryOK(p, Real("mult", 1000, 6000))
      /\ EntryOK(p, Whole("confirm_bars", 1, 10))
      /\ EntryOK(p, Whole("regime_period", 10, 400))
  BY <1>1 DEF EntryOK, Whole, Real
<1>4. \A s, r \in E : s.key = r.key => s = r
  BY WholeKey, RealKey
<1>5. \A s \in E : EntryOK(p, s)
  BY <1>3
<1> HIDE DEF E
<1> QED
  BY <1>2, <1>4, <1>5, TableOfConfig

\* macd_trend: every bound holds its stock value, and no key comes twice.
LEMMA TableOfMacdTrend == TableOK(macd_trend_config)
<1> DEFINE p == [fast |-> 12000, slow |-> 26000, signal |-> 9000, confirm_bars |-> 3000,
                 require_positive |-> 1000, regime_period |-> 50000, expected_move_pct |-> 80]
           E == {Whole("fast", 3, 100), Whole("slow", 5, 200), Whole("signal", 2, 50),
                 Whole("confirm_bars", 1, 10), Whole("regime_period", 10, 400)}
<1>1. /\ {"fast", "slow", "signal", "confirm_bars", "regime_period"} \subseteq DOMAIN p
      /\ p.fast = 12000 /\ p.slow = 26000 /\ p.signal = 9000 /\ p.confirm_bars = 3000
         /\ p.regime_period = 50000
  OBVIOUS
<1>2. macd_trend_config = Config("BNB", Trailing, p, E)
  BY DEF macd_trend_config
<1> HIDE DEF p
<1>3. /\ EntryOK(p, Whole("fast", 3, 100))
      /\ EntryOK(p, Whole("slow", 5, 200))
      /\ EntryOK(p, Whole("signal", 2, 50))
      /\ EntryOK(p, Whole("confirm_bars", 1, 10))
      /\ EntryOK(p, Whole("regime_period", 10, 400))
  BY <1>1 DEF EntryOK, Whole, Real
<1>4. \A s, r \in E : s.key = r.key => s = r
  BY WholeKey, RealKey
<1>5. \A s \in E : EntryOK(p, s)
  BY <1>3
<1> HIDE DEF E
<1> QED
  BY <1>2, <1>4, <1>5, TableOfConfig

\* hf_forecast: every bound holds its stock value, and no key comes twice.
LEMMA TableOfHfForecast == TableOK(hf_forecast_config)
<1> DEFINE p == [context |-> 512000, horizon |-> 8000, min_forecast_pct |-> 3000,
                 regime_period |-> 100000, expected_move_pct |-> 60]
           E == {Whole("horizon", 2, 24), Real("min_forecast_pct", 500, 10000),
                 Whole("context", 64, 1024)}
<1>1. /\ {"horizon", "min_forecast_pct", "context"} \subseteq DOMAIN p
      /\ p.horizon = 8000 /\ p.min_forecast_pct = 3000 /\ p.context = 512000
  OBVIOUS
<1>2. hf_forecast_config = Config("BTC", Bracket(50, 80, 14, 16), p, E)
  BY DEF hf_forecast_config
<1> HIDE DEF p
<1>3. /\ EntryOK(p, Whole("horizon", 2, 24))
      /\ EntryOK(p, Real("min_forecast_pct", 500, 10000))
      /\ EntryOK(p, Whole("context", 64, 1024))
  BY <1>1 DEF EntryOK, Whole, Real
<1>4. \A s, r \in E : s.key = r.key => s = r
  BY WholeKey, RealKey
<1>5. \A s \in E : EntryOK(p, s)
  BY <1>3
<1> HIDE DEF E
<1> QED
  BY <1>2, <1>4, <1>5, TableOfConfig

\* donchian_ls: every bound holds its stock value, and no key comes twice.
LEMMA TableOfDonchianLs == TableOK(donchian_ls_config)
<1> DEFINE p == [lookback |-> 20000, buffer |-> 2, expected_move_pct |-> 80,
                 stop_loss_pct |-> 70, take_profit_pct |-> 120]
           E == {Whole("lookback", 5, 200), Real("stop_loss_pct", 5, 200),
                 Real("take_profit_pct", 10, 500)}
<1>1. /\ {"lookback", "stop_loss_pct", "take_profit_pct"} \subseteq DOMAIN p
      /\ p.lookback = 20000 /\ p.stop_loss_pct = 70 /\ p.take_profit_pct = 120
  OBVIOUS
<1>2. donchian_ls_config = Config("BTC", Bracket(70, 120, 14, 0), p, E)
  BY DEF donchian_ls_config
<1> HIDE DEF p
<1>3. /\ EntryOK(p, Whole("lookback", 5, 200))
      /\ EntryOK(p, Real("stop_loss_pct", 5, 200))
      /\ EntryOK(p, Real("take_profit_pct", 10, 500))
  BY <1>1 DEF EntryOK, Whole, Real
<1>4. \A s, r \in E : s.key = r.key => s = r
  BY WholeKey, RealKey
<1>5. \A s \in E : EntryOK(p, s)
  BY <1>3
<1> HIDE DEF E
<1> QED
  BY <1>2, <1>4, <1>5, TableOfConfig

\* The cards of the page, each with its table.
LEMMA Tables == \A t \in PickableTemplate : TableOK(TEMPLATE_CONFIG[t])
<1> SUFFICES ASSUME NEW t \in PickableTemplate PROVE TableOK(TEMPLATE_CONFIG[t])
  OBVIOUS
<1>1. CASE t = "bb_breakout"
  BY <1>1, TableOfBbBreakout DEF TEMPLATE_CONFIG
<1>2. CASE t = "donchian_trend"
  BY <1>2, TableOfDonchianTrend DEF TEMPLATE_CONFIG
<1>3. CASE t = "vol_expansion"
  BY <1>3, TableOfVolExpansion DEF TEMPLATE_CONFIG
<1>4. CASE t = "momentum"
  BY <1>4, TableOfMomentum DEF TEMPLATE_CONFIG
<1>5. CASE t = "tsmom"
  BY <1>5, TableOfTsmom DEF TEMPLATE_CONFIG
<1>6. CASE t = "trend_regime"
  BY <1>6, TableOfTrendRegime DEF TEMPLATE_CONFIG
<1>7. CASE t = "supertrend"
  BY <1>7, TableOfSupertrend DEF TEMPLATE_CONFIG
<1>8. CASE t = "macd_trend"
  BY <1>8, TableOfMacdTrend DEF TEMPLATE_CONFIG
<1>9. CASE t = "hf_forecast"
  BY <1>9, TableOfHfForecast DEF TEMPLATE_CONFIG
<1>10. CASE t = "donchian_ls"
  BY <1>10, TableOfDonchianLs DEF TEMPLATE_CONFIG
<1> QED
  BY <1>1, <1>2, <1>3, <1>4, <1>5, <1>6, <1>7, <1>8, <1>9, <1>10
  DEF PickableTemplate, ACTIVE_TEMPLATES, EXPERIMENTAL_TEMPLATES, SHORT_CAPABLE_TEMPLATES

\* Overrides that are legal values of editable keys.
FitsTable(c, p) ==
  /\ DOMAIN p \subseteq KeysIn(c)
  /\ p = [k \in DOMAIN p |-> p[k]]
  /\ \A k \in DOMAIN p : /\ p[k] \in SpecIn(c, k).min .. SpecIn(c, k).max
                         /\ SpecIn(c, k).int => p[k] % 1000 = 0

\* A key's entry in a table.
LEMMA SpecOfKey ==
  ASSUME NEW c, TableOK(c), NEW k \in KeysIn(c)
  PROVE  LET s == SpecIn(c, k)
         IN /\ s \in c.editable /\ s.key = k /\ k \in DOMAIN c.params
            /\ s.int \in BOOLEAN /\ s.min \in Int /\ s.max \in Int
            /\ c.params[k] \in s.min .. s.max
            /\ s.int => s.min % 1000 = 0 /\ s.max % 1000 = 0 /\ s.min >= 0 /\ s.max <= 10000000
            /\ ~s.int => k # "oversold" /\ s.min >= -100000 /\ s.max <= 100000
<1>1. PICK s \in c.editable : s.key = k
  BY DEF KeysIn
<1>2. SpecIn(c, k) \in c.editable /\ SpecIn(c, k).key = k
  BY <1>1 DEF SpecIn
<1> QED
  BY <1>2 DEF TableOK, EntryOK

\* The worker reads a legal set as the page does.
LEMMA EngineReadsIt ==
  ASSUME NEW c, TableOK(c), NEW p, FitsTable(c, p)
  PROVE  CoercedIn(c, p) = mergedParams(c, p)
<1> DEFINE coerced(k) ==
      IF k \notin DOMAIN p \cap KeysIn(c) THEN c.params[k]
      ELSE IF WholeInWorker(SpecIn(c, k)) THEN (Clamp(p[k], 0, 10000 * 1000) \div 1000) * 1000
      ELSE Clamp(p[k], -100 * 1000, 100 * 1000)
<1>1. ASSUME NEW k \in DOMAIN c.params
      PROVE  coerced(k) = IF k \in KeysIn(c) \cap DOMAIN p THEN p[k] ELSE c.params[k]
  <2>1. CASE k \notin DOMAIN p \cap KeysIn(c)
    BY <2>1
  <2>2. CASE k \in DOMAIN p \cap KeysIn(c)
    <3> DEFINE s == SpecIn(c, k)  v == p[k]
    <3>1. /\ s.key = k /\ s.int \in BOOLEAN /\ s.min \in Int /\ s.max \in Int
          /\ s.int => s.min >= 0 /\ s.max <= 10000000
          /\ ~s.int => k # "oversold" /\ s.min >= -100000 /\ s.max <= 100000
      BY <2>2, SpecOfKey
    <3>2. v \in Int /\ v >= s.min /\ v <= s.max /\ (s.int => v % 1000 = 0)
      BY <2>2, <3>1 DEF FitsTable
    <3>3. CASE s.int
      <4>1. Clamp(v, 0, 10000 * 1000) = v
        BY <3>1, <3>2, <3>3 DEF Clamp
      <4>2. (v \div 1000) * 1000 = v
        BY <3>2, <3>3
      <4>3. coerced(k) = (Clamp(v, 0, 10000 * 1000) \div 1000) * 1000
        BY <2>2, <3>3 DEF WholeInWorker
      <4> HIDE DEF coerced, s, v
      <4>4. coerced(k) = v
        BY <4>1, <4>2, <4>3
      <4> QED
        BY <4>4, <2>2 DEF v
    <3>4. CASE ~s.int
      <4>1. Clamp(v, -100 * 1000, 100 * 1000) = v
        BY <3>1, <3>2, <3>4 DEF Clamp
      <4>2. coerced(k) = Clamp(v, -100 * 1000, 100 * 1000)
        BY <2>2, <3>1, <3>4 DEF WholeInWorker
      <4> HIDE DEF coerced, s, v
      <4>3. coerced(k) = v
        BY <4>1, <4>2
      <4> QED
        BY <4>3, <2>2 DEF v
    <3> QED
      BY <3>1, <3>3, <3>4
  <2> QED
    BY <2>1, <2>2
<1>2. CoercedIn(c, p) = [k \in DOMAIN c.params |-> coerced(k)]
  BY DEF CoercedIn
<1> HIDE DEF coerced
<1> QED
  BY <1>1, <1>2 DEF mergedParams

\* What the engine then runs with is within the bounds of the template.
LEMMA MergedInBounds ==
  ASSUME NEW c, TableOK(c), NEW p, FitsTable(c, p), NEW s \in c.editable
  PROVE  mergedParams(c, p)[s.key] \in s.min .. s.max
<1>1. s.key \in KeysIn(c) /\ s.key \in DOMAIN c.params /\ c.params[s.key] \in s.min .. s.max
  BY DEF KeysIn, TableOK, EntryOK
<1>2. SpecIn(c, s.key) = s
  BY <1>1, SpecOfKey DEF TableOK
<1>3. mergedParams(c, p)[s.key] = IF s.key \in DOMAIN p THEN p[s.key] ELSE c.params[s.key]
  BY <1>1 DEF mergedParams
<1> QED
  BY <1>1, <1>2, <1>3 DEF FitsTable

\* A value within its bounds is left as it is, rounding included.
LEMMA ClampFieldKeeps ==
  ASSUME NEW s, s.int \in BOOLEAN, s.min \in Int, s.max \in Int,
         NEW v \in s.min .. s.max, s.int => v % 1000 = 0
  PROVE  clampField(s, v) = v
<1>1. Within(s, v) = v
  BY DEF Within, Clamp
<1>2. CASE s.int
  <2>1. ((v + 500) \div 1000) * 1000 = v
    BY <1>2
  <2> QED
    BY <1>1, <1>2, <2>1 DEF clampField, RoundTo
<1> QED
  BY <1>1, <1>2 DEF clampField

\* Any number typed is brought within the bounds, and stays whole where it must be.
LEMMA WithinFits ==
  ASSUME NEW s, s.int \in BOOLEAN, s.min \in Int, s.max \in Int, s.min <= s.max,
         s.int => s.min % 1000 = 0 /\ s.max % 1000 = 0,
         NEW v \in Int
  PROVE  /\ Within(s, v) \in s.min .. s.max
         /\ s.int /\ v % 1000 = 0 => Within(s, v) % 1000 = 0
BY DEF Within, Clamp

\* The gate rounds between bounds that are whole, and so stays between them.
LEMMA ClampFieldFits ==
  ASSUME NEW s, s.int \in BOOLEAN, s.min \in Int, s.max \in Int, s.min <= s.max,
         s.int => s.min % 1000 = 0 /\ s.max % 1000 = 0,
         NEW v \in Int
  PROVE  clampField(s, v) \in s.min .. s.max /\ (s.int => clampField(s, v) % 1000 = 0)
<1> DEFINE w == Within(s, v)
<1>1. w \in s.min .. s.max
  BY WithinFits
<1> HIDE DEF w
<1>2. CASE s.int
  <2> DEFINE r == ((w + 500) \div 1000) * 1000
  <2>1. r \in Int /\ r % 1000 = 0 /\ r <= w + 500 /\ r >= w - 499
    BY <1>1
  <2>2. r \in s.min .. s.max
    BY <1>1, <1>2, <2>1
  <2>3. clampField(s, v) = r
    BY <1>2 DEF clampField, RoundTo, w
  <2> QED
    BY <2>1, <2>2, <2>3
<1>3. CASE ~s.int
  BY <1>1, <1>3 DEF clampField, w
<1> QED
  BY <1>2, <1>3

\* The gate changes nothing of a legal set that differs from the stock.
LEMMA GateKeeps ==
  ASSUME NEW t, NEW c, TableOK(c), NEW p, FitsTable(c, p),
         \A k \in DOMAIN p : p[k] # c.params[k]
  PROVE  sanitizeIn(t, c, p) = Judged(t, c, p)
<1>1. ASSUME NEW k \in DOMAIN p PROVE clampField(SpecIn(c, k), p[k]) = p[k]
  <2>1. k \in KeysIn(c) /\ p[k] \in SpecIn(c, k).min .. SpecIn(c, k).max
        /\ (SpecIn(c, k).int => p[k] % 1000 = 0)
    BY DEF FitsTable
  <2>2. SpecIn(c, k).int \in BOOLEAN /\ SpecIn(c, k).min \in Int /\ SpecIn(c, k).max \in Int
    BY <2>1, SpecOfKey
  <2> QED
    BY <2>1, <2>2, ClampFieldKeeps
<1>2. KeysIn(c) \cap DOMAIN p = DOMAIN p /\ p = [k \in DOMAIN p |-> p[k]]
  BY SMTT(30) DEF FitsTable
<1>3. Cleaned(c, p) = p
  BY <1>1, <1>2 DEF Cleaned
<1>4. {j \in DOMAIN p : p[j] # c.params[j]} = DOMAIN p
  OBVIOUS
<1>5. Genuine(c, p) = p
  BY <1>2, <1>4 DEF Genuine
<1> QED
  BY <1>3, <1>5 DEF sanitizeIn

\* Whatever it is sent, what the gate keeps is legal.
LEMMA GateFits ==
  ASSUME NEW c, TableOK(c), NEW raw, \A k \in DOMAIN raw : raw[k] \in Int
  PROVE  FitsTable(c, Genuine(c, Cleaned(c, raw)))
<1> DEFINE q == Cleaned(c, raw)  g == Genuine(c, q)
<1>1. ASSUME NEW k \in KeysIn(c) \cap DOMAIN raw
      PROVE  /\ q[k] \in SpecIn(c, k).min .. SpecIn(c, k).max
             /\ SpecIn(c, k).int => q[k] % 1000 = 0
  <2>1. q[k] = clampField(SpecIn(c, k), raw[k])
    BY DEF Cleaned
  <2> HIDE DEF q
  <2> DEFINE s == SpecIn(c, k)
  <2>2. /\ s.int \in BOOLEAN /\ s.min \in Int /\ s.max \in Int /\ c.params[k] \in s.min .. s.max
        /\ s.int => s.min % 1000 = 0 /\ s.max % 1000 = 0
    BY SpecOfKey
  <2> HIDE DEF s
  <2>3. s.min <= s.max
    BY <2>2
  <2>4. clampField(s, raw[k]) \in s.min .. s.max /\ (s.int => clampField(s, raw[k]) % 1000 = 0)
    BY <2>2, <2>3, ClampFieldFits
  <2> QED
    BY <2>1, <2>4 DEF s
<1>2. DOMAIN q = KeysIn(c) \cap DOMAIN raw
  BY DEF Cleaned
<1> HIDE DEF q
<1>3. DOMAIN g \subseteq DOMAIN q /\ g = [k \in DOMAIN g |-> q[k]]
  BY DEF Genuine
<1>4. g = [k \in DOMAIN g |-> g[k]] /\ \A k \in DOMAIN g : g[k] = q[k]
  BY <1>3
<1> HIDE DEF g
<1>5. FitsTable(c, g)
  BY <1>1, <1>2, <1>3, <1>4 DEF FitsTable
<1> QED
  BY <1>5 DEF g, q

\* What the page sends and simulates is legal and differs from the stock, whatever was typed.
EditsFit(c, e) ==
  /\ DOMAIN e \subseteq KeysIn(c)
  /\ \A k \in DOMAIN e : e[k] \in Int /\ (SpecIn(c, k).int => e[k] % 1000 = 0)

LEMMA DiffsFit ==
  ASSUME NEW c, TableOK(c), EditsFit(c, card.edits)
  PROVE  FitsTable(c, diffsOf(c)) /\ \A k \in DOMAIN diffsOf(c) : diffsOf(c)[k] # c.params[k]
<1> DEFINE q == [k \in KeysIn(c) |-> Within(SpecIn(c, k), InputsOf(c)[k])]
           g == Genuine(c, q)
<1>1. diffsOf(c) = g
  BY DEF diffsOf
<1>2. ASSUME NEW k \in KeysIn(c), q[k] # c.params[k]
      PROVE  /\ q[k] \in SpecIn(c, k).min .. SpecIn(c, k).max
             /\ SpecIn(c, k).int => q[k] % 1000 = 0
  <2> DEFINE s == SpecIn(c, k)
             v == IF k \in DOMAIN card.edits THEN card.edits[k] ELSE c.params[k]
  <2>1. /\ s.int \in BOOLEAN /\ s.min \in Int /\ s.max \in Int /\ c.params[k] \in s.min .. s.max
        /\ s.int => s.min % 1000 = 0 /\ s.max % 1000 = 0
    BY SpecOfKey
  <2>2. q[k] = Within(s, v)
    BY DEF InputsOf
  <2>3. v \in Int /\ (k \in DOMAIN card.edits /\ s.int => v % 1000 = 0)
        /\ (k \notin DOMAIN card.edits => v = c.params[k])
    BY <2>1 DEF EditsFit
  <2> HIDE DEF s, v, q
  <2>4. k \in DOMAIN card.edits
    <3>1. SUFFICES ASSUME k \notin DOMAIN card.edits PROVE FALSE
      OBVIOUS
    <3>2. Within(s, v) = c.params[k]
      BY <2>1, <2>3, <3>1 DEF Within, Clamp
    <3> QED
      BY <2>2, <3>2, <1>2
  <2>5. s.min <= s.max
    BY <2>1
  <2>6. Within(s, v) \in s.min .. s.max /\ (s.int /\ v % 1000 = 0 => Within(s, v) % 1000 = 0)
    BY <2>1, <2>3, <2>5, WithinFits
  <2> QED
    BY <2>2, <2>3, <2>4, <2>6 DEF s
<1>3. DOMAIN q = KeysIn(c)
  OBVIOUS
<1> HIDE DEF q
<1>4. DOMAIN g = {k \in KeysIn(c) : q[k] # c.params[k]} /\ g = [k \in DOMAIN g |-> q[k]]
  BY <1>3 DEF Genuine
<1>5. g = [k \in DOMAIN g |-> g[k]] /\ \A k \in DOMAIN g : g[k] = q[k] /\ q[k] # c.params[k]
  BY <1>4
<1> HIDE DEF g
<1>6. FitsTable(c, g)
  BY <1>2, <1>4, <1>5 DEF FitsTable
<1> QED
  BY <1>1, <1>5, <1>6

\* The inputs show numbers.
LEMMA InputsAreNumbers ==
  ASSUME NEW c, TableOK(c), EditsFit(c, card.edits)
  PROVE  DOMAIN InputsOf(c) = KeysIn(c) /\ \A k \in KeysIn(c) : InputsOf(c)[k] \in Int
<1>1. ASSUME NEW k \in KeysIn(c) PROVE c.params[k] \in Int
  <2>1. SpecIn(c, k).min \in Int /\ SpecIn(c, k).max \in Int
        /\ c.params[k] \in SpecIn(c, k).min .. SpecIn(c, k).max
    BY SpecOfKey
  <2> QED
    BY <2>1
<1> QED
  BY <1>1 DEF InputsOf, EditsFit

\* A stored set of parameters p of template t, and the preview v of its card: p is legal, and
\* the engine reads it as v.
Fits(t, p, v) ==
  /\ t \in TryTemplates
  /\ FitsTable(TEMPLATE_CONFIG[t], p)
  /\ ~paramRuleError(t, mergedParams(TEMPLATE_CONFIG[t], p))
  /\ t \in BUILTIN_TEMPLATES => v = mergedParams(TEMPLATE_CONFIG[t], p)
  /\ t \in SHORT_CAPABLE_TEMPLATES =>
       /\ {"stop_loss_pct", "take_profit_pct"} \subseteq DOMAIN p
       /\ p.stop_loss_pct \in 5 .. 200 /\ p.take_profit_pct \in 10 .. 500

\* What the server is sent, s, will be stored as a set that fits, if it is stored at all.
Promised(t, s, v) ==
  prepareStrategyInsert(t, s).ok => Fits(t, prepareStrategyInsert(t, s).params, v)

\* The stock values of a card obey its rule.
LEMMA StockObeys ==
  ASSUME NEW t \in PickableTemplate
  PROVE  ~paramRuleError(t, mergedParams(TEMPLATE_CONFIG[t], NoParams))
<1>1. mergedParams(TEMPLATE_CONFIG[t], NoParams)
        = [k \in DOMAIN TEMPLATE_CONFIG[t].params |-> TEMPLATE_CONFIG[t].params[k]]
  BY DEF mergedParams, NoParams
<1>2. CASE t = "vol_expansion"
  BY <1>1, <1>2 DEF TEMPLATE_CONFIG, vol_expansion_config, Config, paramRuleError
<1>3. CASE t = "macd_trend"
  BY <1>1, <1>3 DEF TEMPLATE_CONFIG, macd_trend_config, Config, paramRuleError
<1>4. CASE t = "bb_breakout"
  BY <1>1, <1>4 DEF TEMPLATE_CONFIG, bb_breakout_config, Config, paramRuleError
<1>5. CASE t \notin {"vol_expansion", "macd_trend", "bb_breakout", "ma_crossover", "ichimoku"}
  BY <1>5 DEF paramRuleError
<1> QED
  BY <1>2, <1>3, <1>4, <1>5
  DEF PickableTemplate, ACTIVE_TEMPLATES, EXPERIMENTAL_TEMPLATES, SHORT_CAPABLE_TEMPLATES

\* The differences of a long-only card are stored as they were simulated.
LEMMA LongPromise ==
  ASSUME NEW t \in TryTemplates, t \notin SHORT_CAPABLE_TEMPLATES, TryTemplates \subseteq PickableTemplate,
         NEW c, c = TEMPLATE_CONFIG[t], NEW d, FitsTable(c, d),
         \A k \in DOMAIN d : d[k] # c.params[k], ~paramRuleError(t, mergedParams(c, d))
  PROVE  Promised(t, d, mergedParams(c, d))
<1>1. TableOK(c) /\ t \in PickableTemplate
  BY Tables
<1>2. sanitizeIn(t, c, d) = Accepted(d)
  BY <1>1, GateKeeps DEF Judged
<1>3. prepareStrategyInsert(t, d) = Accepted(d)
  BY <1>1, <1>2 DEF prepareStrategyInsert, sanitizeParams, Prepared
<1>4. Accepted(d).params = d
  BY DEF Accepted
<1>5. Fits(t, d, mergedParams(c, d))
  BY DEF Fits
<1> QED
  BY <1>3, <1>4, <1>5 DEF Promised

\* A short-capable card is stored with the bracket that was sent.
LEMMA ShortPromise ==
  ASSUME NEW t \in TryTemplates, t \in SHORT_CAPABLE_TEMPLATES, TryTemplates \subseteq PickableTemplate,
         NEW raw, \A k \in DOMAIN raw : raw[k] \in Int, NEW v
  PROVE  Promised(t, raw, v)
<1> DEFINE c == TEMPLATE_CONFIG[t]  g == Genuine(c, Cleaned(c, raw))
           B == {"stop_loss_pct", "take_profit_pct"}
<1>1. t = "donchian_ls" /\ TableOK(c) /\ t \in PickableTemplate
  BY Tables DEF SHORT_CAPABLE_TEMPLATES
<1>2. c = donchian_ls_config
  BY <1>1 DEF TEMPLATE_CONFIG
<1>3. FitsTable(c, g)
  BY <1>1, GateFits
<1>4. sanitizeParams(t, raw) = Judged(t, c, g)
  BY DEF sanitizeParams, sanitizeIn
<1> HIDE DEF g
<1>5. Judged(t, c, g) = Accepted(g)
  BY <1>1 DEF Judged, paramRuleError
<1>6. prepareStrategyInsert(t, raw) =
        IF BracketGiven(raw) THEN Accepted(WithBracket(g, raw)) ELSE Refused
  <2> HIDE DEF c
  <2>1. prepareStrategyInsert(t, raw) = Prepared(t, Accepted(g), raw)
    BY <1>4, <1>5 DEF prepareStrategyInsert
  <2>2. Accepted(g).ok = TRUE /\ Accepted(g).params = g
    BY DEF Accepted
  <2> QED
    BY <1>1, <2>1, <2>2 DEF Prepared
<1>7. SUFFICES ASSUME BracketGiven(raw) PROVE Fits(t, WithBracket(g, raw), v)
  BY <1>6 DEF Promised, Accepted, Refused
<1> DEFINE p == WithBracket(g, raw)
<1>8. /\ DOMAIN p = DOMAIN g \cup B /\ p = [k \in DOMAIN p |-> p[k]]
      /\ \A k \in DOMAIN p : p[k] = IF k \in DOMAIN g \ B THEN g[k] ELSE raw[k]
  BY DEF WithBracket
<1> HIDE DEF p
<1>9. raw.stop_loss_pct \in 5 .. 200 /\ raw.take_profit_pct \in 10 .. 500
  BY <1>7 DEF BracketGiven
<1>10. ASSUME NEW k \in B
       PROVE  /\ k \in KeysIn(c) /\ SpecIn(c, k).int = FALSE
              /\ raw[k] \in SpecIn(c, k).min .. SpecIn(c, k).max
  <2>1. Real("stop_loss_pct", 5, 200) \in c.editable /\ Real("take_profit_pct", 10, 500) \in c.editable
    BY <1>2 DEF donchian_ls_config, Config
  <2>2. k \in KeysIn(c)
    BY <2>1 DEF KeysIn, Real
  <2>3. SpecIn(c, k) \in c.editable /\ SpecIn(c, k).key = k
    BY <2>2, <1>1, SpecOfKey
  <2>4. SpecIn(c, k) = IF k = "stop_loss_pct" THEN Real("stop_loss_pct", 5, 200)
                       ELSE Real("take_profit_pct", 10, 500)
    BY <2>1, <2>3, <1>1 DEF TableOK, Real
  <2> QED
    BY SMTT(30), <2>2, <2>4, <1>9 DEF Real
<1> HIDE DEF c
<1>11. FitsTable(c, p)
  <2>1. /\ DOMAIN g \subseteq KeysIn(c)
        /\ \A k \in DOMAIN g : /\ g[k] \in SpecIn(c, k).min .. SpecIn(c, k).max
                               /\ SpecIn(c, k).int => g[k] % 1000 = 0
    BY <1>3 DEF FitsTable
  <2>2. ASSUME NEW k \in DOMAIN p
        PROVE  /\ p[k] \in SpecIn(c, k).min .. SpecIn(c, k).max
               /\ SpecIn(c, k).int => p[k] % 1000 = 0
    <3>1. CASE k \in B
      <4>1. p[k] = raw[k]
        BY <1>8, <3>1
      <4> QED
        BY ZenonT(30), <1>10, <3>1, <4>1
    <3>2. CASE k \notin B
      <4>1. k \in DOMAIN g /\ p[k] = g[k]
        BY <1>8, <2>2, <3>2
      <4> QED
        BY <2>1, <4>1
    <3> QED
      BY <3>1, <3>2
  <2>3. DOMAIN p \subseteq KeysIn(c)
    BY <1>8, <1>10, <2>1
  <2> QED
    BY <1>8, <2>2, <2>3 DEF FitsTable
<1>12. p.stop_loss_pct = raw.stop_loss_pct /\ p.take_profit_pct = raw.take_profit_pct /\ B \subseteq DOMAIN p
  BY <1>8
<1>13. ~paramRuleError(t, mergedParams(c, p))
  BY <1>1 DEF paramRuleError
<1>14. t \notin BUILTIN_TEMPLATES
  BY <1>1 DEF BUILTIN_TEMPLATES, ACTIVE_TEMPLATES, RETIRED_TEMPLATES
<1> QED
  BY <1>9, <1>11, <1>12, <1>13, <1>14 DEF Fits, p, c

-----------------------------------------------------------------------------
(***************************************************************************)
(* What is stored.  The inductive invariant says of every place a set of   *)
(* parameters passes through what the next place relies on: the edits of   *)
(* the card, the action in flight, the rows.                               *)
(***************************************************************************)

\* The card: numbers typed into editable keys, whole where they must be, and no coin ticked twice.
CardInv ==
  \E t \in {card.tpl}, e \in {card.edits}, ms \in {card.markets} :
    /\ card = [tpl |-> t, edits |-> e, markets |-> ms]
    /\ t \in TryTemplates /\ EditsFit(TEMPLATE_CONFIG[t], e)
    /\ ms \in Seq(Markets) /\ IsInjective(ms)

\* The action in flight: an addition will store what was previewed, and past its checks it
\* will store it for certain.
JobInv ==
  /\ job.op = "add" =>
       \E t \in {job.tpl}, ms \in {job.markets}, s \in {job.params}, v \in {job.shown} :
         /\ t \in TryTemplates /\ ms \in Seq(Markets) /\ Promised(t, s, v)
         /\ job.checked => prepareStrategyInsert(t, s).ok
  /\ job.op = "remove" => job.ids \subseteq Ids
  /\ job.op = "toggle" => job.enabled \in BOOLEAN

\* A row r, and the preview v of the card it was added from.
RowFits(r, v) ==
  /\ r = [template |-> r.template, market |-> r.market, params |-> r.params,
          enabled |-> r.enabled, weight |-> r.weight]
  /\ r.market \in Markets /\ r.enabled \in BOOLEAN /\ r.weight \in Nat
  /\ Fits(r.template, r.params, v)

RowsInv ==
  /\ DOMAIN rows \subseteq Ids \cap DOMAIN previewed
  /\ \A i \in DOMAIN rows : \E r \in {rows[i]}, v \in {previewed[i]} : RowFits(r, v)

ListedInv ==
  /\ DOMAIN listed \subseteq Ids
  /\ \A i \in DOMAIN listed : listed[i].enabled \in BOOLEAN /\ listed[i].weight \in Nat

Weights(w) == \A i \in DOMAIN w : w[i] \in Nat

PageSide ==
  /\ CardInv /\ selected \subseteq Ids /\ err \in BOOLEAN
  /\ \E w \in {split} : Weights(w)

ServerSide ==
  /\ JobInv /\ RowsInv /\ ListedInv /\ confirmed \subseteq Ids /\ shorting \in BOOLEAN
  /\ \E w \in {splitJob} : Weights(w)

StoredInv == PageSide /\ ServerSide

\* The card is left alone, and with it the page's side.
LEMMA PageSideKeeps ==
  ASSUME PageSide, UNCHANGED <<card, selected, split>>, err' \in BOOLEAN
  PROVE  PageSide'
BY DEF PageSide, CardInv

\* A button starts an action.
LEMMA JobStarts ==
  ASSUME ServerSide, UNCHANGED <<rows, previewed, listed, splitJob, shorting>>,
         confirmed' \subseteq Ids, JobInv'
  PROVE  ServerSide'
BY DEF ServerSide, RowsInv, ListedInv

\* The server's side is left alone.
LEMMA ServerSideKeeps ==
  ASSUME ServerSide, UNCHANGED <<rows, previewed, listed, splitJob, shorting, job, confirmed>>
  PROVE  ServerSide'
<1>1. JobInv' /\ confirmed' \subseteq Ids
  BY DEF ServerSide, JobInv
<1> QED
  BY <1>1, JobStarts

\* Opening a card: nothing edited, its own market ticked.
LEMMA Opens ==
  ASSUME NEW t \in TryTemplates
  PROVE  \E e, ms : /\ OpenCard(t) = [tpl |-> t, edits |-> e, markets |-> ms]
                    /\ EditsFit(TEMPLATE_CONFIG[t], e)
                    /\ ms \in Seq(Markets) /\ IsInjective(ms)
<1> DEFINE c == TEMPLATE_CONFIG[t]  m == marketFor(Exchange, c.market)
<1>1. t \in PickableTemplate /\ TableOK(c)
  BY PageAssumption, Tables
<1>2. c.market.coin \in Coins
  <2>1. t \in DOMAIN TEMPLATE_CONFIG
    BY <1>1 DEF PickableTemplate, ACTIVE_TEMPLATES, EXPERIMENTAL_TEMPLATES,
                SHORT_CAPABLE_TEMPLATES, TEMPLATE_CONFIG
  <2> QED
    BY <2>1 DEF Coins
<1>3. c.market = [pair |-> "inr", coin |-> c.market.coin]
  BY <1>1 DEF TableOK
<1> HIDE DEF c
<1>4. m \in Markets
  BY <1>2, <1>3 DEF marketFor, Markets
<1>5. EditsFit(c, NoParams)
  BY DEF EditsFit, NoParams
<1>6. OpenCard(t) = [tpl |-> t, edits |-> NoParams, markets |-> <<m>>]
  BY DEF OpenCard, c
<1> HIDE DEF m
<1>7. <<m>> \in Seq(Markets) /\ IsInjective(<<m>>)
  BY <1>4 DEF IsInjective
<1> QED
  BY <1>5, <1>6, <1>7 DEF c

\* Ticking a coin that is not ticked.
LEMMA Ticks ==
  ASSUME NEW ms \in Seq(Markets), IsInjective(ms), NEW m \in Markets, ~Contains(ms, m)
  PROVE  Append(ms, m) \in Seq(Markets) /\ IsInjective(Append(ms, m))
<1> DEFINE r == Append(ms, m)  n == Len(ms)
<1>1. /\ n \in Nat /\ DOMAIN r = 1 .. n + 1 /\ r[n + 1] = m
      /\ \A i \in 1 .. n : r[i] = ms[i] /\ ms[i] # m
  BY DEF Contains
<1>2. \A i, j \in 1 .. n : ms[i] = ms[j] => i = j
  BY DEF IsInjective
<1>3. r \in Seq(Markets)
  OBVIOUS
<1> HIDE DEF r, n
<1>4. \A i, j \in 1 .. n + 1 : r[i] = r[j] => i = j
  BY <1>1, <1>2
<1> QED
  BY <1>1, <1>3, <1>4 DEF IsInjective, r

\* One sequence after another.
LEMMA Joined ==
  ASSUME NEW S, NEW a \in Seq(S), NEW b \in Seq(S)
  PROVE  /\ a \o b \in Seq(S) /\ Len(a \o b) = Len(a) + Len(b)
         /\ \A i \in 1 .. Len(a) + Len(b) :
              (a \o b)[i] = IF i <= Len(a) THEN a[i] ELSE b[i - Len(a)]
OBVIOUS

\* Taking back a tick.
LEMMA Unticks ==
  ASSUME NEW ms \in Seq(Markets), IsInjective(ms), NEW m, Contains(ms, m)
  PROVE  Unticked(ms, m) \in Seq(Markets) /\ IsInjective(Unticked(ms, m))
<1> DEFINE k == CHOOSE i \in DOMAIN ms : ms[i] = m
           a == SubSeq(ms, 1, k - 1)  b == SubSeq(ms, k + 1, Len(ms))  n == Len(ms)
           r == a \o b
<1>1. k \in 1 .. n /\ n \in Nat
  BY DEF Contains
<1>2. Unticked(ms, m) = r
  BY DEF Unticked, RemoveAt
<1> HIDE DEF k
<1>3. a \in Seq(Markets) /\ Len(a) = k - 1 /\ \A i \in 1 .. k - 1 : a[i] = ms[i]
  BY <1>1
<1>4. b \in Seq(Markets) /\ Len(b) = n - k /\ \A i \in 1 .. n - k : b[i] = ms[k + i]
  BY <1>1
<1>5. \A i, j \in 1 .. n : ms[i] = ms[j] => i = j
  BY DEF IsInjective
<1> HIDE DEF a, b, n
<1>6. /\ r \in Seq(Markets) /\ DOMAIN r = 1 .. n - 1
      /\ \A i \in 1 .. n - 1 : r[i] = IF i < k THEN ms[i] ELSE ms[i + 1]
  <2>1. /\ r \in Seq(Markets) /\ Len(r) = n - 1
        /\ \A i \in 1 .. n - 1 : r[i] = IF i <= k - 1 THEN a[i] ELSE b[i - (k - 1)]
    <3>1. /\ r \in Seq(Markets) /\ Len(r) = Len(a) + Len(b)
          /\ \A i \in 1 .. Len(a) + Len(b) :
               r[i] = IF i <= Len(a) THEN a[i] ELSE b[i - Len(a)]
      BY <1>3, <1>4, Joined
    <3>2. Len(a) = k - 1 /\ Len(a) + Len(b) = n - 1
      BY <1>1, <1>3, <1>4
    <3> HIDE DEF r
    <3> QED
      BY <3>1, <3>2
  <2> HIDE DEF r
  <2>2. ASSUME NEW i \in 1 .. n - 1 PROVE r[i] = IF i < k THEN ms[i] ELSE ms[i + 1]
    <3>1. CASE i < k
      BY <1>1, <1>3, <2>1, <3>1
    <3>2. CASE i >= k
      <4>1. i - (k - 1) \in 1 .. n - k /\ k + (i - (k - 1)) = i + 1
        BY <1>1, <3>2
      <4>2. b[i - (k - 1)] = ms[i + 1]
        BY <1>4, <4>1
      <4>3. r[i] = b[i - (k - 1)]
        BY <1>1, <2>1, <3>2
      <4> QED
        BY <1>1, <3>2, <4>2, <4>3
    <3> QED
      BY <1>1, <3>1, <3>2
  <2> QED
    BY <2>1, <2>2
<1> HIDE DEF r
<1>7. \A i, j \in 1 .. n - 1 : r[i] = r[j] => i = j
  BY SMTT(30), <1>1, <1>5, <1>6
<1> QED
  BY <1>2, <1>6, <1>7 DEF IsInjective

\* The market of a row.
LEMMA StoredMarket == ASSUME NEW m \in Markets PROVE marketFor(Exchange, m) \in Markets
BY DEF marketFor, Markets

\* A number typed, rounded where the parameter is whole.
LEMMA Types ==
  ASSUME NEW c, TableOK(c), NEW e, EditsFit(c, e), NEW s \in c.editable, NEW v \in Int
  PROVE  EditsFit(c, Edited(e, s, v))
<1> DEFINE k == s.key  w == IF s.int THEN RoundTo(v, 1000) ELSE v
           f == [j \in DOMAIN e \cup {k} |-> IF j # k THEN e[j] ELSE w]
<1>1. k \in KeysIn(c) /\ SpecIn(c, k) = s /\ s.int \in BOOLEAN
  <2>1. k \in KeysIn(c)
    BY DEF KeysIn
  <2> QED
    BY <2>1, SpecOfKey DEF TableOK
<1>2. w \in Int /\ (s.int => w % 1000 = 0)
  BY <1>1 DEF RoundTo
<1>3. DOMAIN f = DOMAIN e \cup {k} /\ \A j \in DOMAIN f : f[j] = IF j # k THEN e[j] ELSE w
  OBVIOUS
<1> HIDE DEF f, w, k
<1>4. EditsFit(c, f)
  BY <1>1, <1>2, <1>3 DEF EditsFit
<1> QED
  BY <1>4 DEF f, w, k, Edited

\* The card, whichever of its controls is used.
LEMMA CardSteps ==
  ASSUME PageSide,
         \/ \E t \in TryTemplates : pickTemplate(t)
         \/ \E s \in cfg.editable, v \in TryValues : EditParam(s, v)
         \/ ResetToStock
         \/ \E m \in TryMarkets : toggleMarket(m) \/ addCustomMarket(m)
  PROVE  CardInv' /\ UNCHANGED <<selected, split, server>> /\ err' \in BOOLEAN
<1>1. PICK t, e, ms :
        /\ t \in TryTemplates /\ card = [tpl |-> t, edits |-> e, markets |-> ms]
        /\ EditsFit(TEMPLATE_CONFIG[t], e) /\ ms \in Seq(Markets) /\ IsInjective(ms)
  BY DEF PageSide, CardInv
<1>2. err \in BOOLEAN
  BY DEF PageSide
<1>3. ASSUME NEW u \in TryTemplates, NEW f, NEW ns,
             card' = [tpl |-> u, edits |-> f, markets |-> ns],
             EditsFit(TEMPLATE_CONFIG[u], f), ns \in Seq(Markets), IsInjective(ns)
      PROVE  CardInv'
  BY <1>3 DEF CardInv
<1>4. ASSUME NEW u \in TryTemplates, pickTemplate(u)
      PROVE  CardInv' /\ UNCHANGED <<selected, split, server>> /\ err' \in BOOLEAN
  <2>1. card' = OpenCard(u) /\ UNCHANGED <<selected, split, server, err>>
    BY <1>4 DEF pickTemplate
  <2>2. CardInv'
    BY <1>3, <2>1, Opens
  <2> QED
    BY <1>2, <2>1, <2>2
<1>5. ASSUME NEW s \in cfg.editable, NEW v \in TryValues, EditParam(s, v)
      PROVE  CardInv' /\ UNCHANGED <<selected, split, server>> /\ err' \in BOOLEAN
  <2> DEFINE c == TEMPLATE_CONFIG[t]  f == Edited(e, s, v)
  <2>1. card.edits = e /\ s \in c.editable
    BY <1>1 DEF cfg
  <2>2. card' = [card EXCEPT !.edits = f] /\ UNCHANGED <<selected, split, server, err>>
    BY <1>5, <2>1 DEF EditParam
  <2>3. TableOK(c) /\ v \in Int
    BY <1>1, PageAssumption, Tables
  <2>4. EditsFit(c, f)
    BY <1>1, <2>1, <2>3, Types
  <2> HIDE DEF f
  <2>5. card' = [tpl |-> t, edits |-> f, markets |-> ms]
    BY <1>1, <2>2
  <2>6. CardInv'
    BY <1>1, <1>3, <2>4, <2>5
  <2> QED
    BY <1>2, <2>2, <2>6
<1>6. CASE ResetToStock
  <2>1. card' = [tpl |-> t, edits |-> NoParams, markets |-> ms]
        /\ UNCHANGED <<selected, split, server, err>>
    BY <1>1, <1>6 DEF ResetToStock
  <2>2. EditsFit(TEMPLATE_CONFIG[t], NoParams)
    BY DEF EditsFit, NoParams
  <2>3. CardInv'
    BY <1>1, <1>3, <2>1, <2>2
  <2> QED
    BY <1>2, <2>1, <2>3
<1>7. ASSUME NEW ns \in Seq(Markets), IsInjective(ns), card' = [card EXCEPT !.markets = ns]
      PROVE  CardInv'
  <2>1. card' = [tpl |-> t, edits |-> e, markets |-> ns]
    BY <1>1, <1>7
  <2> QED
    BY <1>1, <1>3, <1>7, <2>1
<1>8. ASSUME NEW m \in TryMarkets, toggleMarket(m)
      PROVE  CardInv' /\ UNCHANGED <<selected, split, server>> /\ err' \in BOOLEAN
  <2>1. m \in Markets /\ card.markets = ms
    BY <1>1, PageAssumption
  <2> DEFINE ns == IF Contains(card.markets, m) THEN Unticked(card.markets, m)
                   ELSE Append(card.markets, m)
  <2>2. card' = [card EXCEPT !.markets = ns] /\ UNCHANGED <<selected, split, server, err>>
    BY <1>8 DEF toggleMarket
  <2>3. CASE Contains(ms, m)
    <3>1. Unticked(ms, m) \in Seq(Markets) /\ IsInjective(Unticked(ms, m))
      BY <1>1, <2>3, Unticks
    <3>2. ns = Unticked(ms, m)
      BY <2>1, <2>3
    <3> HIDE DEF ns
    <3> QED
      BY <1>2, <1>7, <2>2, <3>1, <3>2
  <2>4. CASE ~Contains(ms, m)
    <3>1. Append(ms, m) \in Seq(Markets) /\ IsInjective(Append(ms, m))
      BY <1>1, <2>1, <2>4, Ticks
    <3>2. ns = Append(ms, m)
      BY <2>1, <2>4
    <3> HIDE DEF ns
    <3> QED
      BY <1>2, <1>7, <2>2, <3>1, <3>2
  <2> QED
    BY <1>2, <2>2, <2>3, <2>4
<1>9. ASSUME NEW m \in TryMarkets, addCustomMarket(m)
      PROVE  CardInv' /\ UNCHANGED <<selected, split, server>> /\ err' \in BOOLEAN
  <2>1. m \in Markets /\ card.markets = ms
    BY <1>1, PageAssumption
  <2> DEFINE ns == IF Contains(card.markets, m) THEN card.markets ELSE Append(card.markets, m)
  <2>2. /\ card' = [card EXCEPT !.markets = ns] /\ UNCHANGED <<selected, split, server>>
        /\ err' = FALSE
    BY <1>9 DEF addCustomMarket
  <2>3. CASE Contains(ms, m)
    <3>1. ns = ms
      BY <2>1, <2>3
    <3> HIDE DEF ns
    <3> QED
      BY <1>1, <1>7, <2>2, <3>1
  <2>4. CASE ~Contains(ms, m)
    <3>1. Append(ms, m) \in Seq(Markets) /\ IsInjective(Append(ms, m))
      BY <1>1, <2>1, <2>4, Ticks
    <3>2. ns = Append(ms, m)
      BY <2>1, <2>4
    <3> HIDE DEF ns
    <3> QED
      BY <1>7, <2>2, <3>1, <3>2
  <2> QED
    BY <2>2, <2>3, <2>4
<1> QED
  BY <1>4, <1>5, <1>6, <1>8, <1>9

\* What an addition sends is what was previewed.
LEMMA AddPromises ==
  ASSUME PageSide, "add" \in ShownAdd
  PROVE  /\ card.tpl \in TryTemplates /\ card.markets \in Seq(Markets)
         /\ \E s, v : /\ s = (IF tplShort THEN paramValues ELSE diffs) /\ v = Previewed
                      /\ Promised(card.tpl, s, v)
<1> DEFINE t == card.tpl  c == TEMPLATE_CONFIG[t]
<1>1. t \in TryTemplates /\ card.markets \in Seq(Markets) /\ EditsFit(c, card.edits)
  BY DEF PageSide, CardInv
<1>2. TableOK(c)
  BY <1>1, PageAssumption, Tables
<1>3. ~paramRuleError(t, mergedParams(c, diffsOf(c)))
  BY DEF ShownAdd, ruleErr, BreaksRule, diffs, cfg
<1>4. CASE tplShort
  <2>1. t \in SHORT_CAPABLE_TEMPLATES
    BY <1>4 DEF tplShort
  <2>2. \A k \in DOMAIN InputsOf(c) : InputsOf(c)[k] \in Int
    BY <1>1, <1>2, InputsAreNumbers
  <2>3. paramValues = InputsOf(c)
    BY DEF paramValues, cfg
  <2> HIDE DEF c
  <2>4. \A k \in DOMAIN paramValues : paramValues[k] \in Int
    BY <2>2, <2>3
  <2>5. Promised(t, paramValues, Previewed)
    BY <1>1, <2>1, <2>4, ShortPromise, PageAssumption
  <2> QED
    BY <1>1, <1>4, <2>5
<1>5. CASE ~tplShort
  <2>1. t \notin SHORT_CAPABLE_TEMPLATES
    BY <1>5 DEF tplShort
  <2>2. FitsTable(c, diffsOf(c)) /\ \A k \in DOMAIN diffsOf(c) : diffsOf(c)[k] # c.params[k]
    BY <1>1, <1>2, DiffsFit
  <2>3. Previewed = mergedParams(c, diffsOf(c)) /\ diffs = diffsOf(c)
    BY <1>3 DEF Previewed, PreviewedIn, BreaksRule, diffs, cfg
  <2>4. Promised(t, diffsOf(c), mergedParams(c, diffsOf(c)))
    BY <1>1, <1>3, <2>1, <2>2, LongPromise, PageAssumption
  <2> QED
    BY <1>1, <1>5, <2>3, <2>4
<1> QED
  BY <1>4, <1>5

\* The buttons that start an action.
LEMMA ButtonSteps ==
  ASSUME PageInv, StoredInv,
         \/ \E i \in Ids : toggleStrategy(i) \/ removeOne(i)
         \/ removeSelected \/ AddStrategies
  PROVE  StoredInv'
<1>1. PageSide /\ ServerSide /\ selected \subseteq Ids /\ confirmed \subseteq Ids
  BY DEF StoredInv, PageSide, ServerSide
<1>2. ASSUME UNCHANGED <<card, selected, split, rows, previewed, listed, splitJob, shorting>>,
             err' = FALSE, confirmed' \subseteq Ids, JobInv'
      PROVE  StoredInv'
  BY <1>1, <1>2, PageSideKeeps, JobStarts DEF StoredInv
<1>3. ASSUME NEW i \in Ids, toggleStrategy(i) PROVE StoredInv'
  <2>1. /\ job' = [op |-> "toggle", id |-> i, enabled |-> ~listed[i].enabled]
        /\ UNCHANGED <<card, selected, split, rows, previewed, listed, splitJob, shorting>>
        /\ err' = FALSE /\ confirmed' = confirmed
    BY <1>3 DEF toggleStrategy, run
  <2>2. JobInv'
    BY <2>1 DEF JobInv
  <2> QED
    BY <1>1, <1>2, <2>1, <2>2
<1>4. ASSUME NEW i \in Ids, removeOne(i) PROVE StoredInv'
  <2>1. /\ job' = [op |-> "remove", ids |-> {i}, ticked |-> FALSE]
        /\ UNCHANGED <<card, selected, split, rows, previewed, listed, splitJob, shorting>>
        /\ err' = FALSE /\ confirmed' = confirmed \cup {i}
    BY <1>4 DEF removeOne, run
  <2>2. JobInv'
    BY <2>1 DEF JobInv
  <2> QED
    BY <1>1, <1>2, <2>1, <2>2
<1>5. CASE removeSelected
  <2>1. /\ job' = [op |-> "remove", ids |-> selected, ticked |-> TRUE]
        /\ UNCHANGED <<card, selected, split, rows, previewed, listed, splitJob, shorting>>
        /\ err' = FALSE /\ confirmed' = confirmed \cup selected
    BY <1>5 DEF removeSelected, run
  <2>2. JobInv'
    BY <1>1, <2>1 DEF JobInv
  <2> QED
    BY <1>1, <1>2, <2>1, <2>2
<1>6. CASE AddStrategies
  <2>1. PICK s, v : /\ s = (IF tplShort THEN paramValues ELSE diffs) /\ v = Previewed
                    /\ Promised(card.tpl, s, v)
    BY <1>1, <1>6, AddPromises DEF AddStrategies
  <2>2. card.tpl \in TryTemplates /\ card.markets \in Seq(Markets)
    BY <1>1, <1>6, AddPromises DEF AddStrategies
  <2>3. /\ job' = [op |-> "add", tpl |-> card.tpl, markets |-> card.markets, checked |-> FALSE,
                   params |-> s, shown |-> v]
        /\ UNCHANGED <<card, selected, split, rows, previewed, listed, splitJob, shorting>>
        /\ err' = FALSE /\ confirmed' = confirmed
    BY <1>6, <2>1 DEF AddStrategies, run
  <2>4. PICK t, ms : t = card.tpl /\ ms = card.markets
    OBVIOUS
  <2>5. job' = [op |-> "add", tpl |-> t, markets |-> ms, checked |-> FALSE,
                params |-> s, shown |-> v]
        /\ t \in TryTemplates /\ ms \in Seq(Markets) /\ Promised(t, s, v)
    BY <2>1, <2>2, <2>3, <2>4
  <2>6. JobInv'
    BY <2>5 DEF JobInv
  <2> QED
    BY <1>1, <1>2, <2>3, <2>6
<1> QED
  BY <1>3, <1>4, <1>5, <1>6

\* The clicks keep the invariant.
LEMMA ClicksKeep == ASSUME PageInv, StoredInv, Clicks PROVE StoredInv'
<1>1. PageSide /\ ServerSide /\ selected \subseteq Ids /\ err \in BOOLEAN /\ DOMAIN listed \subseteq Ids
      /\ CardInv
  BY DEF StoredInv, PageSide, ServerSide, ListedInv
<1>2. ASSUME UNCHANGED server PROVE ServerSide'
  BY <1>1, <1>2, ServerSideKeeps DEF server
<1>3. ASSUME UNCHANGED <<card, selected, split, server>>, err' \in BOOLEAN PROVE StoredInv'
  BY <1>1, <1>2, <1>3, PageSideKeeps DEF StoredInv
<1>4. ASSUME CardInv', UNCHANGED <<selected, split, server>>, err' \in BOOLEAN PROVE StoredInv'
  <2>1. PageSide'
    BY <1>1, <1>4 DEF PageSide
  <2> QED
    BY <1>2, <1>4, <2>1 DEF StoredInv
<1>5. ASSUME UNCHANGED <<card, err, split, server>>, selected' \subseteq Ids PROVE StoredInv'
  <2>1. PageSide'
    BY <1>1, <1>5 DEF PageSide, CardInv
  <2> QED
    BY <1>2, <1>5, <2>1 DEF StoredInv
<1>6. ASSUME UNCHANGED <<card, err, selected, server>>, \A i \in DOMAIN split' : split'[i] \in Nat
      PROVE  StoredInv'
  <2>1. PageSide'
    BY <1>1, <1>6 DEF PageSide, CardInv, Weights
  <2> QED
    BY <1>2, <1>6, <2>1 DEF StoredInv
<1>7. \A i \in DOMAIN split : split[i] \in Nat
  BY <1>1 DEF PageSide, Weights
<1>8. CASE \/ \E t \in TryTemplates : pickTemplate(t)
           \/ \E s \in cfg.editable, v \in TryValues : EditParam(s, v)
           \/ ResetToStock
           \/ \E m \in TryMarkets : toggleMarket(m) \/ addCustomMarket(m)
  BY <1>1, <1>4, <1>8, CardSteps
<1>9. CASE MalformedMarket
  BY <1>3, <1>9 DEF MalformedMarket
<1>10. CASE toggleSelectAll \/ ClearSelected \/ \E i \in Ids : toggleSelected(i)
  BY <1>1, <1>5, <1>10 DEF toggleSelectAll, ClearSelected, toggleSelected
<1>11. CASE \/ \E i \in Ids : toggleStrategy(i) \/ removeOne(i)
            \/ removeSelected \/ AddStrategies
  BY <1>11, ButtonSteps
<1>12. CASE EqualSplit
  BY <1>6, <1>12 DEF EqualSplit
<1>13. ASSUME NEW i \in Ids, NEW w \in TryWeights, EditWeight(i, w) PROVE StoredInv'
  <2>1. w \in Nat
    BY PageAssumption
  <2> QED
    BY <1>6, <1>7, <1>13, <2>1 DEF EditWeight
<1>14. CASE saveSplit
  <2>1. UNCHANGED <<card, selected, err, split, rows, previewed, listed, shorting, job, confirmed>>
        /\ splitJob' = [i \in enabledRows |-> weightShown(i)]
    BY <1>14 DEF saveSplit, page
  <2>2. \A i \in enabledRows : weightShown(i) \in Nat
    BY <1>1, <1>7 DEF enabledRows, weightShown, ServerSide, ListedInv
  <2>3. PICK w : w = [i \in enabledRows |-> weightShown(i)]
    OBVIOUS
  <2>4. Weights(w) /\ splitJob' = w
    BY <2>1, <2>2, <2>3 DEF Weights
  <2>5. ServerSide'
    BY <1>1, <2>1, <2>4 DEF ServerSide, JobInv, RowsInv, ListedInv
  <2>6. PageSide'
    BY <1>1, <2>1, PageSideKeeps
  <2> QED
    BY <2>5, <2>6 DEF StoredInv
<1> QED
  BY <1>8, <1>9, <1>10, <1>11, <1>12, <1>13, <1>14 DEF Clicks

\* A row is added, changed or taken away.
LEMMA RowsGrow ==
  ASSUME RowsInv, NEW i \in Ids \ DOMAIN previewed, NEW r, NEW v, RowFits(r, v),
         rows' = RowsWith(i, r),
         previewed' = [j \in DOMAIN previewed \cup {i} |-> IF j = i THEN v ELSE previewed[j]]
  PROVE  RowsInv'
<1>1. /\ DOMAIN rows' = DOMAIN rows \cup {i} /\ rows'[i] = r
      /\ \A j \in DOMAIN rows : j # i => rows'[j] = rows[j]
  BY DEF RowsWith
<1>2. /\ DOMAIN previewed' = DOMAIN previewed \cup {i} /\ previewed'[i] = v
      /\ \A j \in DOMAIN previewed : j # i => previewed'[j] = previewed[j]
  OBVIOUS
<1>3. \A j \in DOMAIN rows : j # i /\ \E q \in {rows[j]}, u \in {previewed[j]} : RowFits(q, u)
  BY DEF RowsInv
<1>4. ASSUME NEW j \in DOMAIN rows' PROVE \E q \in {rows'[j]}, u \in {previewed'[j]} : RowFits(q, u)
  <2>1. CASE j = i
    BY <1>1, <1>2, <2>1
  <2>2. CASE j # i
    BY <1>1, <1>2, <1>3, <1>4, <2>2 DEF RowsInv
  <2> QED
    BY <2>1, <2>2
<1> QED
  BY <1>1, <1>2, <1>4 DEF RowsInv

\* Rows are taken away, and of those that stay only the switch or the weight may change.
LEMMA RowsChange ==
  ASSUME RowsInv, UNCHANGED previewed, DOMAIN rows' \subseteq DOMAIN rows,
         \A j \in DOMAIN rows' :
           \/ rows'[j] = rows[j]
           \/ \E on \in BOOLEAN : rows'[j] = [rows[j] EXCEPT !.enabled = on]
           \/ \E w \in Nat : rows'[j] = [rows[j] EXCEPT !.weight = w]
  PROVE  RowsInv'
<1>1. ASSUME NEW j \in DOMAIN rows' PROVE \E q \in {rows'[j]}, u \in {previewed'[j]} : RowFits(q, u)
  <2>1. PICK q, u : q = rows[j] /\ u = previewed[j] /\ RowFits(q, u)
    BY <1>1 DEF RowsInv
  <2>2. PICK p : p = rows'[j]
    OBVIOUS
  <2>3. RowFits(p, u)
    <3>1. CASE p = q
      BY <2>1, <3>1
    <3>2. ASSUME NEW on \in BOOLEAN, p = [q EXCEPT !.enabled = on] PROVE RowFits(p, u)
      BY <2>1, <3>2 DEF RowFits
    <3>3. ASSUME NEW w \in Nat, p = [q EXCEPT !.weight = w] PROVE RowFits(p, u)
      BY <2>1, <3>3 DEF RowFits
    <3> QED
      BY <1>1, <2>1, <2>2, <3>1, <3>2, <3>3
  <2> QED
    BY <2>1, <2>2, <2>3
<1> QED
  BY <1>1 DEF RowsInv

\* The page is rendered again.
LEMMA Rerenders == ASSUME RowsInv', listed' = rows' PROVE ListedInv'
BY DEF RowsInv, ListedInv, RowFits

\* The server's side after a step that changed rows or ended an action.
LEMMA ServerSideOf ==
  ASSUME ServerSide, RowsInv', ListedInv', JobInv', UNCHANGED <<confirmed, splitJob>>,
         shorting' \in BOOLEAN
  PROVE  ServerSide'
BY DEF ServerSide

\* An action that is over has nothing to answer for.
LEMMA Ends == ASSUME job' = NoJob PROVE JobInv'
BY DEF JobInv, NoJob

\* The row an addition stores.
LEMMA AddsRow ==
  ASSUME PageInv, StoredInv, NEW i \in Ids, addStrategy(i)
  PROVE  RowsInv' /\ JobInv'
<1>1. PICK t, ms, s, v :
        /\ t \in TryTemplates /\ ms \in Seq(Markets)
        /\ t = job.tpl /\ ms = job.markets /\ s = job.params /\ v = job.shown
        /\ Promised(t, s, v) /\ prepareStrategyInsert(t, s).ok
  BY DEF StoredInv, ServerSide, JobInv, addStrategy
<1> DEFINE p == prepareStrategyInsert(t, s).params
           m == marketFor(Exchange, Head(ms))
           r == [template |-> t, market |-> m, params |-> p, enabled |-> TRUE, weight |-> 1000]
<1>2. ms # <<>> /\ i \in Ids \ DOMAIN previewed /\ rows' = RowsWith(i, r)
      /\ previewed' = [j \in DOMAIN previewed \cup {i} |-> IF j = i THEN v ELSE previewed[j]]
  BY <1>1 DEF addStrategy
<1>3. m \in Markets
  BY <1>1, <1>2, StoredMarket
<1>4. Fits(t, p, v)
  BY <1>1 DEF Promised
<1> HIDE DEF p, m
<1>5. RowFits(r, v)
  BY <1>3, <1>4 DEF RowFits
<1> HIDE DEF r
<1>6. RowsInv'
  BY <1>2, <1>5, RowsGrow DEF StoredInv, ServerSide
<1>7. job' = NoJob \/ job' = [job EXCEPT !.markets = Tail(@)]
  BY DEF addStrategy, Finish
<1>8. CASE job' = NoJob
  BY <1>6, <1>8, Ends
<1>9. CASE job' = [job EXCEPT !.markets = Tail(@)]
  <2>1. PICK tl : tl = Tail(ms) /\ tl \in Seq(Markets)
    <3>1. ms # <<>>
      BY <1>2
    <3>2. Tail(ms) \in Seq(Markets)
      BY <1>1, <3>1
    <3> QED
      BY <3>2, Zenon
  <2>2. job' = [job EXCEPT !.markets = tl]
    <3>1. tl = Tail(job.markets)
      BY <1>1, <2>1
    <3> QED
      BY <1>9, <3>1
  <2>3. job.op = "add" /\ {"op", "tpl", "markets", "checked", "params", "shown"} = DOMAIN job
        /\ job = [x \in DOMAIN job |-> job[x]]
    BY DEF addStrategy, PageInv, JobShape, NoJob
  <2>4. /\ job'.op = "add" /\ job'.tpl = t /\ job'.markets = tl /\ job'.params = s
        /\ job'.shown = v
    BY <1>1, <2>2, <2>3
  <2>5. JobInv'
    BY <1>1, <2>1, <2>4 DEF JobInv
  <2> QED
    BY <1>6, <2>5
<1> QED
  BY <1>7, <1>8, <1>9

\* The calls of the server keep the invariant.
LEMMA ServerKeeps == ASSUME PageInv, StoredInv, ServerActions PROVE StoredInv'
<1>1. /\ PageSide /\ ServerSide /\ RowsInv /\ ListedInv /\ JobInv /\ selected \subseteq Ids
      /\ err \in BOOLEAN /\ shorting \in BOOLEAN /\ CardInv
  BY DEF StoredInv, PageSide, ServerSide
<1>2. ASSUME UNCHANGED <<card, split>>, selected' \subseteq Ids, err' \in BOOLEAN PROVE PageSide'
  BY <1>1, <1>2 DEF PageSide, CardInv
<1>3. CASE AddChecked
  <2>1. /\ job.op = "add" /\ job' = [job EXCEPT !.checked = TRUE]
        /\ prepareStrategyInsert(job.tpl, job.params).ok
        /\ UNCHANGED <<rows, listed, card, selected, err, split, previewed, shorting, splitJob,
                       confirmed>>
    BY <1>3 DEF AddChecked, others
  <2>2. PICK t, ms, s, v :
          /\ t \in TryTemplates /\ ms \in Seq(Markets)
          /\ t = job.tpl /\ ms = job.markets /\ s = job.params /\ v = job.shown
          /\ Promised(t, s, v)
    BY <1>1, <2>1 DEF JobInv
  <2>3. {"op", "tpl", "markets", "checked", "params", "shown"} = DOMAIN job
        /\ job = [x \in DOMAIN job |-> job[x]]
    BY <2>1 DEF PageInv, JobShape, NoJob
  <2>4. /\ job'.op = "add" /\ job'.tpl = t /\ job'.markets = ms /\ job'.params = s
        /\ job'.shown = v
    BY <2>1, <2>2, <2>3
  <2>5. prepareStrategyInsert(t, s).ok
    BY <2>1, <2>2
  <2>6. JobInv'
    BY <2>2, <2>4, <2>5 DEF JobInv
  <2>7. ServerSide'
    BY <1>1, <2>1, <2>6 DEF ServerSide, RowsInv, ListedInv
  <2> QED
    BY <1>1, <1>2, <2>1, <2>7 DEF StoredInv
<1>4. CASE setStrategyEnabled
  <2>1. /\ job' = NoJob /\ listed' = rows'
        /\ UNCHANGED <<card, selected, err, split, previewed, shorting, splitJob, confirmed>>
        /\ rows' = IF job.id \in DOMAIN rows THEN [rows EXCEPT ![job.id].enabled = job.enabled]
                   ELSE rows
    BY <1>4 DEF setStrategyEnabled, Finish, Refresh, others
  <2>2. job.enabled \in BOOLEAN
    BY <1>1, <1>4 DEF JobInv, setStrategyEnabled
  <2>3. DOMAIN rows' \subseteq DOMAIN rows
        /\ \A j \in DOMAIN rows' :
             rows'[j] = rows[j] \/ rows'[j] = [rows[j] EXCEPT !.enabled = job.enabled]
    BY <2>1
  <2>4. RowsInv'
    BY <1>1, <2>1, <2>2, <2>3, RowsChange
  <2>5. ServerSide'
    BY <1>1, <2>1, <2>4, Rerenders, Ends, ServerSideOf
  <2> QED
    BY <1>1, <1>2, <2>1, <2>5 DEF StoredInv
<1>5. CASE ActionFails
  <2>1. /\ job' = NoJob /\ err' = TRUE
        /\ UNCHANGED <<rows, listed, card, selected, split, previewed, shorting, splitJob, confirmed>>
    BY <1>5 DEF ActionFails, Finish, others
  <2>2. ServerSide'
    BY <1>1, <2>1, Ends, JobStarts DEF ServerSide
  <2> QED
    BY <1>1, <1>2, <2>1, <2>2 DEF StoredInv
<1>6. ASSUME NEW w, w = splitJob, NEW done \in SUBSET DOMAIN w,
             rows' = [i \in DOMAIN rows |-> IF i \in done THEN [rows[i] EXCEPT !.weight = w[i]]
                                            ELSE rows[i]],
             UNCHANGED previewed
      PROVE  RowsInv'
  <2>1. \A i \in done : w[i] \in Nat
    BY <1>1, <1>6 DEF ServerSide, Weights
  <2>2. DOMAIN rows' = DOMAIN rows
        /\ \A j \in DOMAIN rows : rows'[j] = IF j \in done THEN [rows[j] EXCEPT !.weight = w[j]]
                                             ELSE rows[j]
    BY <1>6
  <2> QED
    BY <1>1, <1>6, <2>1, <2>2, RowsChange
<1>7. splitJob' = Empty => \E w \in {splitJob'} : Weights(w)
  BY DEF Empty, Weights
<1>8. CASE setStrategyWeights
  <2>1. /\ rows' = [i \in DOMAIN rows |-> IF i \in DOMAIN splitJob
                        THEN [rows[i] EXCEPT !.weight = splitJob[i]] ELSE rows[i]]
        /\ listed' = rows' /\ splitJob' = Empty /\ split' = Empty
        /\ UNCHANGED <<shorting, card, selected, err, job, previewed, confirmed>>
    BY <1>8 DEF setStrategyWeights, Refresh
  <2>2. RowsInv'
    BY <1>6, <2>1
  <2>3. ListedInv'
    BY <2>1, <2>2, Rerenders
  <2>4. ServerSide'
    BY <1>1, <1>7, <2>1, <2>2, <2>3 DEF ServerSide, JobInv
  <2>5. PageSide'
    BY <1>1, <2>1 DEF PageSide, CardInv, Empty, Weights
  <2> QED
    BY <2>4, <2>5 DEF StoredInv
<1>9. CASE WeightsFail
  <2>1. /\ \E done \in SUBSET DOMAIN splitJob :
              rows' = [i \in DOMAIN rows |-> IF i \in done
                          THEN [rows[i] EXCEPT !.weight = splitJob[i]] ELSE rows[i]]
        /\ splitJob' = Empty
        /\ UNCHANGED <<shorting, listed, card, selected, err, job, split, previewed, confirmed>>
    BY <1>9 DEF WeightsFail
  <2>2. RowsInv'
    BY <1>6, <2>1
  <2>3. ServerSide'
    BY <1>1, <1>7, <2>1, <2>2 DEF ServerSide, JobInv, ListedInv
  <2> QED
    BY <1>1, <1>2, <2>1, <2>3 DEF StoredInv
<1>10. ASSUME NEW i \in Ids, addStrategy(i) PROVE StoredInv'
  <2>1. /\ RowsInv' /\ JobInv'
        /\ UNCHANGED <<card, selected, err, split, shorting, splitJob, confirmed>>
        /\ listed' = rows' \/ listed' = listed
    BY <1>10, AddsRow DEF addStrategy, Refresh, others
  <2>2. ListedInv'
    BY <1>1, <2>1, Rerenders DEF ListedInv
  <2>3. ServerSide'
    BY <1>1, <2>1, <2>2, ServerSideOf
  <2> QED
    BY <1>1, <1>2, <2>1, <2>3 DEF StoredInv
<1>11. ASSUME NEW i \in Ids, removeStrategy(i) PROVE StoredInv'
  <2>1. /\ job.op = "remove" /\ rows' = [j \in DOMAIN rows \ {i} |-> rows[j]] /\ listed' = rows'
        /\ job' = NoJob \/ job' = [job EXCEPT !.ids = @ \ {i}]
        /\ selected' = {} \/ selected' = selected
        /\ UNCHANGED <<card, err, split, previewed, shorting, splitJob, confirmed>>
    BY <1>11 DEF removeStrategy, Without, Finish, Refresh, others
  <2>2. RowsInv'
    BY <1>1, <2>1, RowsChange
  <2>3. JobInv'
    <3>1. CASE job' = NoJob
      BY <3>1, Ends
    <3>2. CASE job' = [job EXCEPT !.ids = @ \ {i}]
      <4>1. {"op", "ids", "ticked"} = DOMAIN job /\ job = [x \in DOMAIN job |-> job[x]]
        BY <2>1 DEF PageInv, JobShape, NoJob
      <4>2. job'.op = "remove" /\ job'.ids = job.ids \ {i}
        BY <2>1, <3>2, <4>1
      <4> QED
        BY <1>1, <2>1, <4>2 DEF JobInv
    <3> QED
      BY <2>1, <3>1, <3>2
  <2>4. ServerSide'
    BY <1>1, <2>1, <2>2, <2>3, Rerenders, ServerSideOf
  <2> QED
    BY <1>1, <1>2, <2>1, <2>4 DEF StoredInv
<1> QED
  BY <1>3, <1>4, <1>5, <1>8, <1>9, <1>10, <1>11 DEF ServerActions

\* Another tab removes or switches a row, or changes the opt-in.
LEMMA OtherKeeps == ASSUME StoredInv, OtherTab PROVE StoredInv'
<1>1. PageSide /\ ServerSide /\ RowsInv /\ ListedInv /\ JobInv /\ shorting \in BOOLEAN /\ err \in BOOLEAN
  BY DEF StoredInv, PageSide, ServerSide
<1>2. UNCHANGED <<listed, job, splitJob, previewed, confirmed, card, selected, err, split>>
  BY DEF OtherTab, page
<1>3. RowsInv' /\ shorting' \in BOOLEAN
  <2>1. CASE \E i \in DOMAIN rows : rows' = Without({i}) /\ UNCHANGED shorting
    BY <1>1, <1>2, <2>1, RowsChange DEF Without
  <2>2. ASSUME NEW i \in DOMAIN rows, rows' = [rows EXCEPT ![i].enabled = ~@], UNCHANGED shorting
        PROVE  RowsInv' /\ shorting' \in BOOLEAN
    <3>1. PICK on \in BOOLEAN : rows' = [rows EXCEPT ![i].enabled = on]
      BY <2>2
    <3>2. DOMAIN rows' = DOMAIN rows
          /\ \A j \in DOMAIN rows : rows'[j] = rows[j] \/ rows'[j] = [rows[j] EXCEPT !.enabled = on]
      BY <3>1
    <3> QED
      BY <1>1, <1>2, <2>2, <3>2, RowsChange
  <2>3. CASE shorting' = ~shorting /\ UNCHANGED rows
    BY <1>1, <1>2, <2>3 DEF RowsInv
  <2> QED
    BY <2>1, <2>2, <2>3 DEF OtherTab
<1>4. ListedInv' /\ JobInv'
  BY <1>1, <1>2 DEF ListedInv, JobInv
<1>5. ServerSide'
  BY <1>1, <1>2, <1>3, <1>4, ServerSideOf
<1> QED
  BY <1>1, <1>2, <1>5, PageSideKeeps DEF StoredInv

\* At first nothing is stored, and the card is as it opens.
LEMMA StoredStarts == PageInit => StoredInv
<1> SUFFICES ASSUME PageInit PROVE StoredInv
  OBVIOUS
<1>1. /\ rows = Empty /\ listed = Empty /\ shorting \in BOOLEAN /\ selected = {} /\ err = FALSE
      /\ job = NoJob /\ split = Empty /\ splitJob = Empty /\ confirmed = {}
  BY DEF PageInit
<1>2. CardInv
  <2>1. PICK t \in TryTemplates : card = OpenCard(t)
    BY DEF PageInit
  <2>2. PICK e, ms : /\ OpenCard(t) = [tpl |-> t, edits |-> e, markets |-> ms]
                     /\ EditsFit(TEMPLATE_CONFIG[t], e)
                     /\ ms \in Seq(Markets) /\ IsInjective(ms)
    BY Opens
  <2> QED
    BY <2>1, <2>2 DEF CardInv
<1>3. JobInv
  BY <1>1 DEF JobInv, NoJob
<1>4. Weights(Empty) /\ DOMAIN Empty = {}
  BY DEF Weights, Empty
<1>5. RowsInv /\ ListedInv
  BY <1>1, <1>4 DEF RowsInv, ListedInv
<1> QED
  BY <1>1, <1>2, <1>3, <1>4, <1>5 DEF StoredInv, PageSide, ServerSide

\* Every step of the page keeps what is stored legal and as it was previewed.
LEMMA StoredSteps == ASSUME PageInv, StoredInv, [PageNext]_pageVars PROVE StoredInv'
<1>1. CASE UNCHANGED pageVars
  <2>1. UNCHANGED <<card, selected, split, err>>
        /\ UNCHANGED <<rows, previewed, listed, splitJob, shorting, job, confirmed>>
    BY <1>1 DEF pageVars
  <2>2. err' \in BOOLEAN
    BY <2>1 DEF StoredInv, PageSide
  <2> QED
    BY <2>1, <2>2, PageSideKeeps, ServerSideKeeps DEF StoredInv
<1> QED
  BY <1>1, ClicksKeep, ServerKeeps, OtherKeeps DEF PageNext

\* What the engine reads of a row is what was previewed, and legal.
LEMMA RowIsHonest ==
  ASSUME NEW r, NEW v, RowFits(r, v)
  PROVE  /\ r.template \in BUILTIN_TEMPLATES => EngineParams(r.template, r.params) = v
         /\ LegalAs(r, TEMPLATE_CONFIG[r.template], EngineParams(r.template, r.params))
<1> DEFINE t == r.template  c == TEMPLATE_CONFIG[t]  p == r.params  q == mergedParams(c, p)
<1>1. Fits(t, p, v)
  BY DEF RowFits
<1>2. t \in PickableTemplate /\ TableOK(c) /\ FitsTable(c, p)
  BY <1>1, PageAssumption, Tables DEF Fits
<1>3. EngineParams(t, p) = q
  BY <1>2, EngineReadsIt DEF EngineParams
<1>4. ~paramRuleError(t, q) /\ (t \in BUILTIN_TEMPLATES => v = q)
  BY <1>1 DEF Fits
<1>5. \A s \in c.editable : q[s.key] \in s.min .. s.max
  BY <1>2, MergedInBounds
<1>6. ASSUME t \in SHORT_CAPABLE_TEMPLATES
      PROVE  LET x == EngineExits(t, c.exits, q)
             IN x.stop = p.stop_loss_pct /\ x.target = p.take_profit_pct
  <2> DEFINE e == c.exits
  <2>1. /\ {"stop_loss_pct", "take_profit_pct"} \subseteq DOMAIN p
        /\ p.stop_loss_pct \in 5 .. 200 /\ p.take_profit_pct \in 10 .. 500
    BY <1>1, <1>6 DEF Fits
  <2>2. DOMAIN p \subseteq KeysIn(c)
    BY <1>2 DEF FitsTable
  <2>3. DOMAIN p \subseteq DOMAIN c.params
    BY <1>2, <2>2, SpecOfKey
  <2>4. q.stop_loss_pct = p.stop_loss_pct /\ q.take_profit_pct = p.take_profit_pct
    BY <2>1, <2>2, <2>3 DEF mergedParams
  <2>5. e = Bracket(70, 120, 14, 0)
    BY <1>6 DEF SHORT_CAPABLE_TEMPLATES, TEMPLATE_CONFIG, donchian_ls_config, Config
  <2>6. {"stop", "target"} \subseteq DOMAIN e
    BY <2>5 DEF Bracket
  <2>7. EngineExits(t, e, q) = [e EXCEPT !.stop = Clamp(q.stop_loss_pct, 5, 200),
                                         !.target = Clamp(q.take_profit_pct, 10, 500)]
    BY <1>6 DEF EngineExits
  <2> HIDE DEF e, q, p
  <2>8. Clamp(q.stop_loss_pct, 5, 200) = p.stop_loss_pct
        /\ Clamp(q.take_profit_pct, 10, 500) = p.take_profit_pct
    BY <2>1, <2>4 DEF Clamp
  <2>9. EngineExits(t, e, q).stop = p.stop_loss_pct /\ EngineExits(t, e, q).target = p.take_profit_pct
    BY <2>6, <2>7, <2>8
  <2> QED
    BY <2>9 DEF e
<1> QED
  BY <1>3, <1>4, <1>5, <1>6 DEF LegalAs

\* Types, rows and preview, as the run checks them.
LEMMA StoredIsHonest ==
  ASSUME PageInv, StoredInv
  PROVE  PageTypeOK /\ RunsAsPreviewed /\ StoredIsLegal
<1>1. ASSUME NEW i \in DOMAIN rows PROVE RowFits(rows[i], previewed[i])
  BY DEF StoredInv, ServerSide, RowsInv
<1>2. RunsAsPreviewed /\ StoredIsLegal
  BY <1>1, RowIsHonest DEF RunsAsPreviewed, StoredIsLegal
<1>3. ASSUME NEW i \in DOMAIN rows
      PROVE  [rows[i] EXCEPT !.params = 0] \in
               [template : TryTemplates, market : Markets, params : {0}, enabled : BOOLEAN,
                weight : Nat]
  <2>1. PICK r : r = rows[i] /\ RowFits(r, previewed[i])
    BY <1>1
  <2>2. [r EXCEPT !.params = 0] = [template |-> r.template, market |-> r.market, params |-> 0,
                                  enabled |-> r.enabled, weight |-> r.weight]
    BY <2>1 DEF RowFits
  <2>3. r.template \in TryTemplates /\ r.market \in Markets /\ r.enabled \in BOOLEAN /\ r.weight \in Nat
    BY <2>1 DEF RowFits, Fits
  <2> QED
    BY <2>1, <2>2, <2>3
<1>4. /\ card.tpl \in TryTemplates /\ DOMAIN card.edits \subseteq KeysIn(cfg)
      /\ IsInjective(card.markets)
  BY DEF StoredInv, PageSide, CardInv, EditsFit, cfg
<1>5. job.op \in {"none", "add", "toggle", "remove"}
  BY DEF PageInv, JobShape, NoJob
<1>6. /\ DOMAIN rows \subseteq Ids /\ DOMAIN listed \subseteq Ids
      /\ selected \subseteq Ids /\ confirmed \subseteq Ids /\ {err, shorting} \subseteq BOOLEAN
  BY DEF StoredInv, PageSide, ServerSide, RowsInv, ListedInv
<1>7. PageTypeOK
  BY <1>3, <1>4, <1>5, <1>6 DEF PageTypeOK
<1> QED
  BY <1>2, <1>7

\* The parameters of a row: from the card through the form, the gate and the table to the engine.
THEOREM StoredInvariant == StudioSpec => []StoredInv
<1>1. StudioInit => StoredInv
  BY StoredStarts DEF StudioInit
<1>2. PageInv /\ StoredInv /\ [StudioNext]_studioVars => StoredInv'
  <2>1. [StudioNext]_studioVars => [PageNext]_pageVars
    BY DEF StudioNext, studioVars
  <2> QED
    BY <2>1, StoredSteps
<1> QED
  BY <1>1, <1>2, PageInvariant, PTL DEF StudioSpec

\* Whatever is typed, and whichever of the form, the page, the gate and the worker rounds or
\* clamps it, the engine runs a row with the parameters its preview showed; they are within the
\* bounds and rules of the template, a short-capable row carries the bracket in force, and the
\* idle page lists what is stored.
THEOREM PageHonestCorrect == StudioSpec => []PageHonest
<1>1. PageInv /\ StoredInv => PageHonest
  BY StoredIsHonest, Idles DEF PageHonest, PageIsFresh
<1> QED
  BY <1>1, PageInvariant, StoredInvariant, PTL

-----------------------------------------------------------------------------
(***************************************************************************)
(* The quiz.  Scores are numbers, so a template is ahead of another or     *)
(* behind it, and the first of the ranking has nobody ahead.               *)
(***************************************************************************)

QuizOptions == 1 .. 3
QuizInv == quizAnswers \in Seq(QuizOptions) /\ Len(quizAnswers) <= 5

\* All weights of an option are numbers.
Weighs(o) == \A k \in DOMAIN o : o[k] \in Int

\* So they are in every option of every question.
LEMMA OptionsWeigh ==
  ASSUME NEW j \in 1 .. 5, NEW a \in 1 .. 3
  PROVE  Weighs(QUIZ!QUIZ[j][a])
<1>1. Weighs(QUIZ!Often[a])
  BY DEF QUIZ!Often, Weighs
<1>2. Weighs(QUIZ!SlipsBack[a])
  BY DEF QUIZ!SlipsBack, Weighs
<1>3. Weighs(QUIZ!Dip[a])
  BY DEF QUIZ!Dip, Weighs
<1>4. Weighs(QUIZ!Sentence[a])
  BY DEF QUIZ!Sentence, Weighs
<1>5. Weighs(QUIZ!HandsOn[a])
  BY DEF QUIZ!HandsOn, Weighs
<1>6. QUIZ!QUIZ[j] \in {QUIZ!Often, QUIZ!SlipsBack, QUIZ!Dip, QUIZ!Sentence, QUIZ!HandsOn}
  <2> HIDE DEF QUIZ!Often, QUIZ!SlipsBack, QUIZ!Dip, QUIZ!Sentence, QUIZ!HandsOn
  <2> QED
    BY DEF QUIZ!QUIZ
<1> QED
  BY <1>1, <1>2, <1>3, <1>4, <1>5, <1>6

\* A score is a number.
LEMMA ScoreIsInt ==
  ASSUME NEW got \in Seq(QuizOptions), Len(got) <= 5, NEW k
  PROVE  QUIZ!quizScore(got, k) \in Int
<1> DEFINE w == [j \in DOMAIN got |-> QUIZ!WeightOf(QUIZ!QUIZ[j][got[j]], k)]
<1> HIDE DEF w
<1>1. \A j \in DOMAIN got : j \in 1 .. 5 /\ got[j] \in QuizOptions
  OBVIOUS
<1>2. \A j \in DOMAIN got : w[j] \in Int
  <2>1. ASSUME NEW o, Weighs(o) PROVE QUIZ!WeightOf(o, k) \in Int
    BY <2>1 DEF Weighs, QUIZ!WeightOf
  <2> QED
    BY <1>1, <2>1, OptionsWeigh DEF w, QuizOptions
<1>3. IsFiniteSet(DOMAIN got)
  <2>1. DOMAIN got = 1 .. Len(got) /\ Len(got) \in Int /\ 1 \in Int
    OBVIOUS
  <2> QED
    BY <2>1, FS_Interval
<1>4. SumOver(w, DOMAIN got) \in Int
  BY <1>2, <1>3, SumInt
<1>5. QUIZ!quizScore(got, k) = SumOver(w, DOMAIN got)
  BY DEF w, QUIZ!quizScore, QUIZ!MapThenSumSet, QUIZ!MapThenFoldSet, SumOver, MapThenSumSet,
    MapThenFoldSet
<1> QED
  BY <1>4, <1>5

\* The places in the tie order, eight of them.
Slots == 1 .. 8
LEMMA Eight == IsFiniteSet(Slots) /\ Cardinality(Slots) = 8 /\ Slots \subseteq Int
<1> DEFINE n == 8
<1>1. 1 \in Int /\ n \in Int /\ 1 <= n /\ n - 1 + 1 = n
  OBVIOUS
<1> HIDE DEF n
<1>2. IsFiniteSet(1 .. n) /\ Cardinality(1 .. n) = n /\ 1 .. n \subseteq Int
  BY <1>1, FS_Interval
<1> QED
  BY <1>2 DEF n, Slots

\* The order of the templates, for given answers.
Leads(got) == {p \in Slots \X Slots : QUIZ!Ahead(got, p[1], p[2])}

\* The tie order lists eight templates the cards offer, each once.
LEMMA TieOrder ==
  /\ DOMAIN QUIZ!TIE_ORDER = Slots
  /\ \A j \in Slots : QUIZ!TIE_ORDER[j] \in ACTIVE_TEMPLATES /\ QUIZ!TIE_ORDER[j] \in QUIZ!QuizKeys
  /\ \A i, j \in Slots : QUIZ!TIE_ORDER[i] = QUIZ!TIE_ORDER[j] => i = j
<1>1. DOMAIN QUIZ!TIE_ORDER = Slots
  BY DEF QUIZ!TIE_ORDER, Slots
<1>2. \A j \in Slots : QUIZ!TIE_ORDER[j] \in ACTIVE_TEMPLATES
  BY DEF QUIZ!TIE_ORDER, ACTIVE_TEMPLATES, Slots
<1>3. \A j \in Slots : QUIZ!TIE_ORDER[j] \in QUIZ!QuizKeys
  <2> HIDE DEF QUIZ!TIE_ORDER
  <2> QED
    BY <1>1 DEF QUIZ!QuizKeys, QUIZ!Range
<1>4. \A i, j \in Slots : QUIZ!TIE_ORDER[i] = QUIZ!TIE_ORDER[j] => i = j
  BY DEF QUIZ!TIE_ORDER, Slots
<1> QED
  BY <1>1, <1>2, <1>3, <1>4

\* The quiz counts as everybody does.
LEMMA QuizCounts == ASSUME NEW S PROVE QUIZ!Cardinality(S) = Cardinality(S)
BY DEF QUIZ!Cardinality, Cardinality

\* It is an order of the eight, and a place is a rank in it.
LEMMA LeadsOrders ==
  ASSUME NEW got \in Seq(QuizOptions), Len(got) <= 5
  PROVE  /\ Orders(Leads(got), Slots)
         /\ \A j \in Slots : QUIZ!Place(got, j) = 1 + RankIn(Leads(got), Slots, j)
<1> DEFINE sc == [j \in Slots |-> QUIZ!quizScore(got, QUIZ!TIE_ORDER[j])]
           R == Leads(got)
<1>1. \A j \in Slots : sc[j] \in Int
  BY ScoreIsInt
<1>2. \A i, j \in Slots :
        <<i, j>> \in R <=> (sc[i] > sc[j] \/ (sc[i] = sc[j] /\ i < j))
  BY DEF Leads, QUIZ!Ahead
<1>3. Orders(R, Slots)
  <2> HIDE DEF sc, R
  <2>1. \A i \in Slots : <<i, i>> \notin R
    BY <1>1, <1>2, Eight
  <2>2. ASSUME NEW i \in Slots, NEW j \in Slots, NEW k \in Slots, <<i, j>> \in R, <<j, k>> \in R
        PROVE  <<i, k>> \in R
    <3>1. sc[i] > sc[j] \/ (sc[i] = sc[j] /\ i < j)
      BY <1>2, <2>2
    <3>2. sc[j] > sc[k] \/ (sc[j] = sc[k] /\ j < k)
      BY <1>2, <2>2
    <3>3. sc[i] > sc[k] \/ (sc[i] = sc[k] /\ i < k)
      BY <1>1, <3>1, <3>2, Eight
    <3> QED
      BY <1>2, <3>3
  <2>3. ASSUME NEW i \in Slots, NEW j \in Slots PROVE i = j \/ <<i, j>> \in R \/ <<j, i>> \in R
    BY <1>1, <1>2, Eight
  <2> QED
    BY <2>1, <2>2, <2>3 DEF Orders
<1>4. ASSUME NEW j \in Slots PROVE QUIZ!Place(got, j) = 1 + RankIn(R, Slots, j)
  <2>1. {k \in Slots : <<k, j>> \in R} = {k \in Slots : QUIZ!Ahead(got, k, j)}
    BY DEF Leads
  <2>2. QUIZ!Place(got, j) = 1 + Cardinality({k \in Slots : QUIZ!Ahead(got, k, j)})
    <3>1. QUIZ!Place(got, j) = 1 + Cardinality({k \in DOMAIN QUIZ!TIE_ORDER : QUIZ!Ahead(got, k, j)})
      BY QuizCounts DEF QUIZ!Place
    <3>2. {k \in DOMAIN QUIZ!TIE_ORDER : QUIZ!Ahead(got, k, j)} = {k \in Slots : QUIZ!Ahead(got, k, j)}
      BY TieOrder
    <3> QED
      BY <3>1, <3>2
  <2> QED
    BY <2>1, <2>2 DEF RankIn
<1> QED
  BY <1>3, <1>4

\* There is a template at each of the first two places.
LEMMA PlacesTaken ==
  ASSUME NEW got \in Seq(QuizOptions), Len(got) <= 5, NEW n \in 1 .. 2
  PROVE  \E j \in Slots : QUIZ!Place(got, j) = n
<1>1. IsFiniteSet(Slots) /\ Cardinality(Slots) = 8
  BY Eight
<1>2. n \in 1 .. Cardinality(Slots)
  BY <1>1
<1>3. PICK j \in Slots : RankIn(Leads(got), Slots, j) = n - 1
  <2>1. Orders(Leads(got), Slots)
    BY LeadsOrders
  <2> QED
    BY <1>1, <1>2, <2>1, RanksOnto
<1> QED
  BY <1>3, LeadsOrders

\* The first has nobody ahead of it.
LEMMA FirstLeads ==
  ASSUME NEW got \in Seq(QuizOptions), Len(got) <= 5, NEW j \in Slots, QUIZ!Place(got, j) = 1,
         NEW k \in Slots, k # j
  PROVE  LET mine == QUIZ!quizScore(got, QUIZ!TIE_ORDER[j])
             its == QUIZ!quizScore(got, QUIZ!TIE_ORDER[k])
         IN its < mine \/ (its = mine /\ j < k)
<1>1. IsFiniteSet({i \in Slots : <<i, j>> \in Leads(got)})
  <2>1. IsFiniteSet(Slots)
    BY Eight
  <2> QED
    BY <2>1, FS_Subset
<1>2. Cardinality({i \in Slots : <<i, j>> \in Leads(got)}) \in Nat
  BY <1>1, FS_CardinalityType
<1>3. Cardinality({i \in Slots : <<i, j>> \in Leads(got)}) = 0
  BY <1>2, LeadsOrders DEF RankIn
<1>4. <<k, j>> \notin Leads(got)
  BY <1>1, <1>3, FS_EmptySet
<1>5. <<j, k>> \in Leads(got)
  BY <1>4, LeadsOrders DEF Orders
<1>6. QUIZ!Ahead(got, j, k)
  BY <1>5 DEF Leads
<1> QED
  BY <1>6, ScoreIsInt DEF QUIZ!Ahead

\* The match and the runner-up, for the answers to all questions.
LEMMA MatchLeads ==
  ASSUME NEW got \in Seq(QuizOptions), Len(got) <= 5
  PROVE  \E i, j \in Slots :
            /\ i # j /\ QUIZ!Place(got, i) = 1
            /\ QUIZ!recommend(got).key = QUIZ!TIE_ORDER[i]
            /\ QUIZ!recommend(got).runnerUp = QUIZ!TIE_ORDER[j]
<1> DEFINE i == CHOOSE x \in DOMAIN QUIZ!TIE_ORDER : QUIZ!Place(got, x) = 1
           j == CHOOSE x \in DOMAIN QUIZ!TIE_ORDER : QUIZ!Place(got, x) = 2
<1>1. i \in Slots /\ QUIZ!Place(got, i) = 1
  <2>1. \E x \in Slots : QUIZ!Place(got, x) = 1
    BY PlacesTaken
  <2> QED
    BY <2>1, TieOrder
<1>2. j \in Slots /\ QUIZ!Place(got, j) = 2
  <2>1. \E x \in Slots : QUIZ!Place(got, x) = 2
    BY PlacesTaken
  <2> QED
    BY <2>1, TieOrder
<1>3. QUIZ!recommend(got).key = QUIZ!TIE_ORDER[i] /\ QUIZ!recommend(got).runnerUp = QUIZ!TIE_ORDER[j]
  BY DEF QUIZ!recommend
<1> HIDE DEF i, j
<1> QED
  BY <1>1, <1>2, <1>3

\* The match shown is the best, in any state of the quiz.
LEMMA MatchIsBestIn == ASSUME QuizInv PROVE QUIZ!MatchIsBest
<1> SUFFICES ASSUME NEW r \in QUIZ!ShownMatch
             PROVE  /\ r.key \in ACTIVE_TEMPLATES /\ r.runnerUp \in QUIZ!QuizKeys \ {r.key}
                    /\ \A k \in Slots :
                         LET mine == QUIZ!quizScore(quizAnswers, r.key)
                             its == QUIZ!quizScore(quizAnswers, QUIZ!TIE_ORDER[k])
                         IN \/ its < mine
                            \/ its = mine /\ r.key \in QUIZ!Range(SubSeq(QUIZ!TIE_ORDER, 1, k))
  BY TieOrder DEF QUIZ!MatchIsBest, QUIZ!ACTIVE_TEMPLATES, ACTIVE_TEMPLATES
<1>1. r = QUIZ!recommend(quizAnswers)
  BY DEF QUIZ!ShownMatch
<1>2. PICK i \in Slots, j \in Slots :
         /\ i # j /\ QUIZ!Place(quizAnswers, i) = 1
         /\ r.key = QUIZ!TIE_ORDER[i] /\ r.runnerUp = QUIZ!TIE_ORDER[j]
  BY <1>1, MatchLeads DEF QuizInv
<1>3. ASSUME NEW k \in Slots, i <= k PROVE r.key \in QUIZ!Range(SubSeq(QUIZ!TIE_ORDER, 1, k))
  <2> DEFINE s == SubSeq(QUIZ!TIE_ORDER, 1, k)
  <2>1. k \in Nat /\ i \in 1 .. k
    BY <1>3 DEF Slots
  <2>2. i \in DOMAIN s /\ s[i] = QUIZ!TIE_ORDER[i]
    BY <2>1
  <2> HIDE DEF s
  <2>3. r.key \in QUIZ!Range(s)
    BY <1>2, <2>2 DEF QUIZ!Range
  <2> QED
    BY <2>3 DEF s
<1>4. ASSUME NEW k \in Slots
      PROVE  LET mine == QUIZ!quizScore(quizAnswers, r.key)
                 its == QUIZ!quizScore(quizAnswers, QUIZ!TIE_ORDER[k])
             IN \/ its < mine
                \/ its = mine /\ r.key \in QUIZ!Range(SubSeq(QUIZ!TIE_ORDER, 1, k))
  <2>1. CASE k = i
    <3>1. QUIZ!TIE_ORDER[k] = r.key /\ i <= k
      BY <1>2, <2>1, Eight
    <3> QED
      BY <1>3, <3>1
  <2>2. CASE k # i
    <3>1. QuizInv /\ QUIZ!Place(quizAnswers, i) = 1
      BY <1>2
    <3>2. LET mine == QUIZ!quizScore(quizAnswers, QUIZ!TIE_ORDER[i])
              its == QUIZ!quizScore(quizAnswers, QUIZ!TIE_ORDER[k])
          IN its < mine \/ (its = mine /\ i < k)
      BY <2>2, <3>1, FirstLeads DEF QuizInv
    <3> QED
      BY <1>2, <1>3, <3>2, Eight
  <2> QED
    BY <2>1, <2>2
<1> QED
  BY <1>2, <1>4, TieOrder

\* Answers are options of the five questions.
LEMMA QuizSteps == ASSUME QuizInv, [QUIZ!QuizNext]_quizAnswers PROVE QuizInv'
<1>1. ASSUME NEW k \in 1 .. 3, QUIZ!pick(k) PROVE QuizInv'
  <2>1. Len(QUIZ!QUIZ) = 5
    BY DEF QUIZ!QUIZ
  <2>2. Len(quizAnswers) < 5
    BY <1>1, <2>1 DEF QUIZ!pick, QUIZ!ShownOptions, QUIZ!quizDone, QuizInv
  <2> QED
    BY <1>1, <2>2 DEF QUIZ!pick, QuizInv, QuizOptions
<1>2. CASE QUIZ!back
  BY <1>2 DEF QUIZ!back, QUIZ!Front, QuizInv
<1>3. CASE QUIZ!reset
  BY <1>3 DEF QUIZ!reset, QuizInv
<1>4. CASE UNCHANGED quizAnswers
  BY <1>4 DEF QuizInv
<1> QED
  BY <1>1, <1>2, <1>3, <1>4 DEF QUIZ!QuizNext

-----------------------------------------------------------------------------
(***************************************************************************)
(* The comparison of markets.  Every result is of the range selected, one  *)
(* for each combination; and what was added, or is about to be, is covered *)
(* by the ticks and the failures, a tick still standing counted as one     *)
(* addition more unless an addition is under way.                          *)
(***************************************************************************)

\* The combinations of a template and a market that can be ranked.
Named == UNION {UNION {{s.template : s \in Scores[c][d]} : d \in Ranges} : c \in Coins2}
Combos == [template : Named, market : Coins2]

\* g is what the simulations give for a market of M over d days.
IsResult(g, d, M) ==
  /\ g.market \in M
  /\ \E s \in Scores[g.market][d] :
       g = [template |-> s.template, market |-> g.market, net |-> s.net, closed |-> s.closed,
            winRate |-> s.winRate, eligible |-> s.closed >= FIND!MIN_EVIDENCE]

\* A comparison under way is of the range selected, and nothing is shown meanwhile.
Comparing ==
  \/ comparing = [on |-> FALSE]
  \/ /\ comparing = [on |-> TRUE, days |-> days, left |-> comparing.left, got |-> comparing.got]
     /\ comparing.left \subseteq Coins2 /\ IsFiniteSet(comparing.got) /\ ranking = <<>>
     /\ \A g \in comparing.got : IsResult(g, days, Coins2 \ comparing.left)

\* The ranking shows each result once, those with enough trades first.
Ranking ==
  /\ DOMAIN ranking = 1 .. Len(ranking) /\ Len(ranking) \in Nat
  /\ \A i \in DOMAIN ranking : IsResult(ranking[i], ranDays, Coins2)
  /\ \A i, j \in DOMAIN ranking : ranking[i] = ranking[j] => i = j
  /\ \A i, j \in DOMAIN ranking : i < j /\ ranking[j].eligible => ranking[i].eligible

\* What the addition under way has yet to insert.
Left == IF adding.on THEN adding.left ELSE <<>>
Occurs(k, s) == Cardinality({i \in DOMAIN s : s[i] = k})
Standing(k) == IF ~adding.on /\ k \in sel THEN 1 ELSE 0
Accounted ==
  \A k \in Combos : Occurs(k, added \o Left) + Standing(k) <= Occurs(k, ticked) + finderFaults

FindTypes ==
  /\ days \in Ranges /\ ranDays \in Ranges /\ failed \in BOOLEAN /\ finderFaults \in Nat
  /\ added \in Seq(Combos) /\ ticked \in Seq(Combos)
  /\ adding \in [on : {FALSE}] \cup [on : {TRUE}, left : Seq(Combos)]
  /\ sel \subseteq FIND!ShownTable

FindInv == FindTypes /\ Comparing /\ Ranking /\ Accounted

\* A list continued by another holds k at least as often, and once more for a new place that is k.
LEMMA OccursGrows ==
  ASSUME NEW T, NEW s \in Seq(T), NEW u \in Seq(T), Len(s) <= Len(u),
         \A i \in 1 .. Len(s) : u[i] = s[i], NEW k
  PROVE  /\ Occurs(k, s) \in Nat /\ Occurs(k, u) \in Nat /\ Occurs(k, s) <= Occurs(k, u)
         /\ \A n \in DOMAIN u : n > Len(s) /\ u[n] = k => Occurs(k, s) + 1 <= Occurs(k, u)
<1> DEFINE S == {i \in DOMAIN s : s[i] = k}
           U == {i \in DOMAIN u : u[i] = k}
<1>0. /\ DOMAIN s = 1 .. Len(s) /\ DOMAIN u = 1 .. Len(u)
      /\ Len(s) \in Int /\ Len(u) \in Int /\ 1 \in Int
  OBVIOUS
<1>1. IsFiniteSet(S) /\ IsFiniteSet(U) /\ S \subseteq U
  <2>1. IsFiniteSet(1 .. Len(u))
    BY <1>0, FS_Interval
  <2>2. S \subseteq U /\ U \subseteq 1 .. Len(u)
    BY <1>0
  <2>3. IsFiniteSet(U)
    BY <2>1, <2>2, FS_Subset
  <2> QED
    BY <2>2, <2>3, FS_Subset
<1>2. ASSUME NEW n \in DOMAIN u, n > Len(s), u[n] = k PROVE n \in U /\ n \notin S
  BY <1>0, <1>2
<1> HIDE DEF S, U
<1>3. Cardinality(S) \in Nat /\ Cardinality(U) \in Nat /\ Cardinality(S) <= Cardinality(U)
  BY <1>1, FS_CardinalityType, FS_Subset
<1>4. ASSUME NEW n \in U, n \notin S PROVE Cardinality(S) + 1 <= Cardinality(U)
  <2>1. IsFiniteSet(S \cup {n}) /\ Cardinality(S \cup {n}) = Cardinality(S) + 1
    BY <1>1, <1>4, FS_AddElement
  <2>2. S \cup {n} \subseteq U
    BY <1>1, <1>4
  <2> QED
    BY <1>1, <2>1, <2>2, FS_Subset
<1> QED
  BY <1>2, <1>3, <1>4 DEF Occurs, S, U

\* It holds k at most once more where at most one of the new places is k.
LEMMA OccursOnce ==
  ASSUME NEW T, NEW s \in Seq(T), NEW u \in Seq(T), Len(s) <= Len(u),
         \A i \in 1 .. Len(s) : u[i] = s[i], NEW k,
         \A n, m \in DOMAIN u : n > Len(s) /\ m > Len(s) /\ u[n] = k /\ u[m] = k => n = m
  PROVE  /\ Occurs(k, u) <= Occurs(k, s) + 1
         /\ (\A n \in DOMAIN u : n > Len(s) => u[n] # k) => Occurs(k, u) <= Occurs(k, s)
<1> DEFINE S == {i \in DOMAIN s : s[i] = k}
           U == {i \in DOMAIN u : u[i] = k}
<1>0. /\ DOMAIN s = 1 .. Len(s) /\ DOMAIN u = 1 .. Len(u)
      /\ Len(s) \in Int /\ Len(u) \in Int /\ 1 \in Int
  OBVIOUS
<1>1. IsFiniteSet(S)
  <2>1. IsFiniteSet(1 .. Len(s))
    BY <1>0, FS_Interval
  <2>2. S \subseteq 1 .. Len(s)
    BY <1>0
  <2> QED
    BY <2>1, <2>2, FS_Subset
<1>2. \A n \in U : n \in S \/ n > Len(s)
  BY <1>0
<1>3. \A n, m \in U : n > Len(s) /\ m > Len(s) => n = m
  OBVIOUS
<1>4. \A n \in U : n \in DOMAIN u /\ u[n] = k
  OBVIOUS
<1> HIDE DEF S, U
<1>5. CASE \A n \in U : ~(n > Len(s))
  <2>1. U \subseteq S
    BY <1>2, <1>5
  <2>2. Cardinality(U) <= Cardinality(S)
    BY <1>1, <2>1, FS_Subset
  <2>3. Cardinality(S) \in Nat /\ Cardinality(U) \in Nat
    BY <1>1, <2>1, FS_Subset, FS_CardinalityType
  <2> QED
    BY <2>2, <2>3 DEF Occurs, S, U
<1>6. ASSUME NEW n \in U, n > Len(s)
      PROVE  /\ Cardinality(U) <= Cardinality(S) + 1
             /\ \E x \in DOMAIN u : x > Len(s) /\ u[x] = k
  <2>1. U \subseteq S \cup {n}
    BY <1>2, <1>3, <1>6
  <2>2. IsFiniteSet(S \cup {n}) /\ Cardinality(S \cup {n}) <= Cardinality(S) + 1
    <3>1. Cardinality(S) \in Nat
      BY <1>1, FS_CardinalityType
    <3>2. Cardinality(S \cup {n}) = IF n \in S THEN Cardinality(S) ELSE Cardinality(S) + 1
      BY <1>1, FS_AddElement
    <3>3. IsFiniteSet(S \cup {n})
      BY <1>1, FS_AddElement
    <3> QED
      BY <3>1, <3>2, <3>3
  <2>3. Cardinality(U) <= Cardinality(S \cup {n})
    BY <2>1, <2>2, FS_Subset
  <2>4. Cardinality(U) \in Nat /\ Cardinality(S) \in Nat /\ Cardinality(S \cup {n}) \in Nat
    BY <1>1, <2>1, <2>2, FS_Subset, FS_CardinalityType
  <2> QED
    BY <1>4, <1>6, <2>2, <2>3, <2>4
<1> QED
  BY <1>5, <1>6 DEF Occurs, S, U

\* The comparison counts, and keeps of a list, as everybody does.
LEMMA FindCounts == ASSUME NEW S PROVE FIND!Cardinality(S) = Cardinality(S)
BY DEF FIND!Cardinality, Cardinality

LEMMA FindKeeps == ASSUME NEW s, NEW X PROVE FIND!Only(s, X) = Only(s, X)
<1>1. \A S, n : FIND!Nth(S, n) = Nth(S, n)
  BY FindCounts DEF FIND!Nth, Nth
<1> QED
  BY <1>1, FindCounts DEF FIND!Only, Only, FIND!ElementsAt, ElementsAt

\* The list of a finite set has its members and no others.
LEMMA ListOfSet ==
  ASSUME NEW S, IsFiniteSet(S)
  PROVE  FIND!SetToSeq(S) \in Seq(S) /\ Range(FIND!SetToSeq(S)) = S
<1> DEFINE n == Cardinality(S)
<1>1. n \in Nat /\ ExistsBijection(1 .. n, S)
  BY FS_CardinalityType
<1>2. PICK f \in [1 .. n -> S] : IsInjective(f)
  <2> HIDE DEF n
  <2> QED
    BY <1>1 DEF ExistsBijection, Bijection, Injection
<1>3. FIND!SetToSeq(S) = CHOOSE g \in [1 .. n -> S] : IsInjective(g)
  BY FindCounts DEF FIND!SetToSeq, FIND!IsInjective, IsInjective
<1> DEFINE l == FIND!SetToSeq(S)
<1> HIDE DEF l
<1>4. l \in [1 .. n -> S] /\ IsInjective(l)
  <2> HIDE DEF n
  <2> QED
    BY <1>2, <1>3 DEF l
<1>5. l \in Injection(1 .. n, S)
  BY <1>4 DEF Injection
<1>6. Cardinality(1 .. n) = Cardinality(S)
  <2>1. 1 \in Int /\ n \in Int
    BY <1>1
  <2> QED
    BY <1>1, <2>1, FS_Interval
<1>7. l \in Surjection(1 .. n, S)
  <2> HIDE DEF n
  <2> QED
    BY <1>5, <1>6, FS_Injection
<1>8. \A x \in S : \E i \in 1 .. n : l[i] = x
  <2> HIDE DEF n
  <2> QED
    BY <1>7 DEF Surjection
<1>9. l \in Seq(S)
  <2> HIDE DEF n
  <2> QED
    BY <1>1, <1>4
<1>10. Range(l) = S
  <2> HIDE DEF n
  <2> QED
    BY <1>4, <1>8 DEF Range
<1> QED
  BY <1>9, <1>10 DEF l

\* What each step promises of the account, with the primes resolved.
LEMMA AccountOf ==
  ASSUME \A k \in Combos :
           Occurs(k, added' \o Left') + (IF ~adding'.on /\ k \in sel' THEN 1 ELSE 0)
             <= Occurs(k, ticked') + finderFaults'
  PROVE  Accounted'
BY DEF Accounted, Standing

\* A list of combinations has k so many times.
LEMMA OccursNat == ASSUME NEW T, NEW s \in Seq(T), NEW k PROVE Occurs(k, s) \in Nat
<1>1. Len(s) <= Len(s)
  OBVIOUS
<1> QED
  BY <1>1, OccursGrows

\* What is still to be inserted is a list.
LEMMA LeftIsList ==
  ASSUME FindTypes
  PROVE  /\ Left \in Seq(Combos) /\ added \o Left \in Seq(Combos)
         /\ adding.on \in BOOLEAN /\ (adding.on => adding.left \in Seq(Combos) /\ Left = adding.left)
         /\ (~adding.on => Left = <<>> /\ added \o Left = added)
<1>1. adding.on \in BOOLEAN /\ (adding.on => adding.left \in Seq(Combos) /\ Left = adding.left)
  BY DEF FindTypes, Left
<1>2. ~adding.on => Left = <<>>
  BY DEF Left
<1>3. added \in Seq(Combos)
  BY DEF FindTypes
<1>4. Left \in Seq(Combos)
  <2>1. <<>> \in Seq(Combos)
    OBVIOUS
  <2> QED
    BY <1>1, <1>2, <2>1
<1>5. ASSUME NEW l \in Seq(Combos) PROVE added \o l \in Seq(Combos)
  BY <1>3
<1>6. added \o <<>> = added
  BY <1>3
<1> QED
  BY <1>1, <1>2, <1>4, <1>5, <1>6

\* The account stands if nothing is added, begun or newly standing.
LEMMA AccountStands ==
  ASSUME FindTypes, Accounted, NEW a \in Seq(Combos), a = added \o Left, a = added' \o Left',
         ticked' = ticked, finderFaults' \in Nat, finderFaults <= finderFaults',
         \A k \in Combos : ~adding'.on /\ k \in sel' => ~adding.on /\ k \in sel
  PROVE  Accounted'
<1>1. ASSUME NEW k \in Combos
      PROVE  Occurs(k, added' \o Left') + (IF ~adding'.on /\ k \in sel' THEN 1 ELSE 0)
               <= Occurs(k, ticked') + finderFaults'
  <2>1. Occurs(k, a) \in Nat /\ Occurs(k, ticked) \in Nat /\ finderFaults \in Nat
    BY OccursNat DEF FindTypes
  <2>2. Occurs(k, a) + Standing(k) <= Occurs(k, ticked) + finderFaults
    BY DEF Accounted
  <2>3. (IF ~adding'.on /\ k \in sel' THEN 1 ELSE 0) <= Standing(k) /\ Standing(k) \in Nat
    BY DEF Standing
  <2> QED
    BY <2>1, <2>2, <2>3
<1> QED
  BY <1>1, AccountOf

\* At first nothing is compared, ticked or added.
LEMMA FindStarts == ASSUME FIND!FInit PROVE FindInv
<1> USE DEF FIND!FInit, FIND!NotRunning
<1>1. FindTypes
  <2>1. days \in Ranges /\ ranDays \in Ranges /\ failed \in BOOLEAN /\ finderFaults \in Nat
    BY FinderAssumption
  <2>2. added \in Seq(Combos) /\ ticked \in Seq(Combos) /\ sel \subseteq FIND!ShownTable
    OBVIOUS
  <2>3. adding \in [on : {FALSE}]
    OBVIOUS
  <2> QED
    BY <2>1, <2>2, <2>3 DEF FindTypes
<1>2. Comparing /\ Ranking
  BY DEF Comparing, Ranking
<1>3. Accounted
  <2>1. Left = <<>> /\ added \o Left = <<>>
    BY DEF Left
  <2>2. \A k : Standing(k) = 0
    BY DEF Standing
  <2>3. ticked = <<>> /\ finderFaults = 0 /\ ticked \in Seq(Combos)
    OBVIOUS
  <2>4. \A k : Occurs(k, <<>>) \in Nat
    BY <2>3, OccursNat
  <2> QED
    BY <2>1, <2>2, <2>3, <2>4 DEF Accounted
<1> QED
  BY <1>1, <1>2, <1>3 DEF FindInv

\* While the addition and the ticks stay as they are, so does the account.
LEMMA AccountStays ==
  ASSUME FindTypes, Accounted, UNCHANGED <<adding, added, ticked>>, sel' \subseteq sel,
         finderFaults' \in Nat, finderFaults <= finderFaults'
  PROVE  Accounted'
<1> DEFINE a == added \o Left
<1>1. a \in Seq(Combos)
  BY LeftIsList
<1>2. added' \o Left' = a
  BY DEF Left
<1> HIDE DEF a
<1>3. \A k \in Combos : ~adding'.on /\ k \in sel' => ~adding.on /\ k \in sel
  OBVIOUS
<1> QED
  BY <1>1, <1>2, <1>3, AccountStands DEF a

\* A step without a failure leaves their number.
LEMMA FaultsStay ==
  ASSUME FindTypes, finderFaults' = finderFaults
  PROVE  finderFaults' \in Nat /\ finderFaults <= finderFaults'
<1>1. finderFaults \in Nat
  BY DEF FindTypes
<1> QED
  BY <1>1

\* The select moves only while nothing is compared.
LEMMA SetDaysKeeps ==
  ASSUME FindInv, NEW d \in Ranges, FIND!setDays(d)
  PROVE  FindInv'
<1> USE DEF FindInv
<1>1. /\ days' = d /\ ~comparing.on
      /\ UNCHANGED <<failed, comparing, ranking, ranDays, sel, adding, added, finderFaults, ticked>>
  BY DEF FIND!setDays, FIND!ShownCompare, FIND!busy
<1>2. FindTypes'
  BY <1>1 DEF FindTypes, FIND!ShownTable
<1>3. Comparing' /\ Ranking'
  BY <1>1 DEF Comparing, Ranking
<1>4. Accounted'
  BY <1>1, FaultsStay, AccountStays
<1> QED
  BY <1>2, <1>3, <1>4

\* A comparison starts with nothing shown and nothing ticked.
LEMMA RunKeeps == ASSUME FindInv, FIND!run PROVE FindInv'
<1> USE DEF FindInv
<1>1. /\ comparing' = [on |-> TRUE, days |-> days, left |-> Coins2, got |-> {}]
      /\ failed' = FALSE /\ ranking' = <<>> /\ sel' = {}
      /\ UNCHANGED <<days, ranDays, adding, added, finderFaults, ticked>>
  BY DEF FIND!run
<1>2. FindTypes'
  BY <1>1 DEF FindTypes
<1>3. Comparing' /\ Ranking'
  BY <1>1, FS_EmptySet DEF Comparing, Ranking
<1>4. Accounted'
  BY <1>1, FaultsStay, AccountStays
<1> QED
  BY <1>2, <1>3, <1>4

\* What a market's answer adds.
Served(m) ==
  {[template |-> s.template, market |-> m, net |-> s.net, closed |-> s.closed,
    winRate |-> s.winRate, eligible |-> s.closed >= FIND!MIN_EVIDENCE]
   : s \in Scores[m][comparing.days]}

\* A market answers: its results are of the range the comparison was started with.
LEMMA CoinAnswersKeeps ==
  ASSUME FindInv, NEW m \in Coins2, FIND!CoinAnswers(m)
  PROVE  FindInv'
<1> USE DEF FindInv
<1>1. PICK served \in BOOLEAN :
         /\ finderFaults' = finderFaults + (IF served THEN 0 ELSE 1)
         /\ comparing' = [comparing EXCEPT !.left = @ \ {m},
                            !.got = @ \cup (IF served THEN Served(m) ELSE {})]
  BY DEF FIND!CoinAnswers, Served
<1>2. /\ comparing.on /\ m \in comparing.left
      /\ UNCHANGED <<days, failed, ranking, ranDays, sel, adding, added, ticked>>
  BY DEF FIND!CoinAnswers, FIND!busy
<1>3. finderFaults' \in Nat /\ finderFaults <= finderFaults'
  BY <1>1 DEF FindTypes
<1>4. FindTypes'
  BY <1>2, <1>3 DEF FindTypes, FIND!ShownTable
<1>5. /\ comparing = [on |-> TRUE, days |-> days, left |-> comparing.left, got |-> comparing.got]
      /\ comparing.left \subseteq Coins2 /\ IsFiniteSet(comparing.got) /\ ranking = <<>>
      /\ \A g \in comparing.got : IsResult(g, days, Coins2 \ comparing.left)
  <2>1. comparing # [on |-> FALSE]
    BY <1>2
  <2> QED
    BY <2>1, Zenon DEF Comparing
<1>15. comparing.days = days
  BY <1>5
<1>6. \A g \in Served(m) : IsResult(g, days, {m})
  BY <1>15 DEF Served, IsResult
<1>7. IsFiniteSet(Served(m))
  <2> DEFINE S == Scores[m][comparing.days]
             f == [s \in S |-> [template |-> s.template, market |-> m, net |-> s.net,
                                closed |-> s.closed, winRate |-> s.winRate,
                                eligible |-> s.closed >= FIND!MIN_EVIDENCE]]
  <2>1. days \in Ranges
    BY DEF FindTypes
  <2>2. IsFiniteSet(S)
    BY <1>15, <2>1, FinderAssumption
  <2>3. Served(m) = {f[s] : s \in S}
    BY DEF Served
  <2> HIDE DEF f, S
  <2>4. f \in Surjection(S, {f[s] : s \in S})
    BY DEF Surjection, f
  <2> QED
    BY <2>2, <2>3, <2>4, FS_Surjection
<1> DEFINE more == IF served THEN Served(m) ELSE {}
<1>8. IsFiniteSet(more) /\ \A g \in more : IsResult(g, days, {m})
  BY <1>6, <1>7, FS_EmptySet
<1>9. comparing' = [on |-> TRUE, days |-> days, left |-> comparing.left \ {m},
                    got |-> comparing.got \cup more]
  <2> DEFINE L == comparing.left
             G == comparing.got
  <2>1. comparing = [on |-> TRUE, days |-> days, left |-> L, got |-> G]
    BY <1>5
  <2>2. comparing' = [comparing EXCEPT !.left = L \ {m}, !.got = G \cup more]
    BY <1>1
  <2> HIDE DEF L, G, more
  <2>3. comparing' = [on |-> TRUE, days |-> days, left |-> L \ {m}, got |-> G \cup more]
    BY <2>1, <2>2
  <2> QED
    BY <2>3 DEF L, G
<1> HIDE DEF more
<1>10. IsFiniteSet(comparing.got \cup more)
  BY <1>5, <1>8, FS_Union
<1>11. \A g \in comparing.got \cup more : IsResult(g, days, Coins2 \ (comparing.left \ {m}))
  BY <1>5, <1>8 DEF IsResult
<1>12. Comparing'
  BY <1>2, <1>5, <1>9, <1>10, <1>11 DEF Comparing
<1>13. Ranking'
  BY <1>2 DEF Ranking
<1>14. Accounted'
  BY <1>2, <1>3, AccountStays
<1> QED
  BY <1>4, <1>12, <1>13, <1>14

\* A request breaks: the comparison is over, with nothing shown.
LEMMA CoinBreaksKeeps == ASSUME FindInv, FIND!CoinBreaks PROVE FindInv'
<1> USE DEF FindInv
<1>1. /\ comparing' = [on |-> FALSE] /\ failed' = TRUE /\ finderFaults' = finderFaults + 1
      /\ UNCHANGED <<days, ranking, ranDays, sel, adding, added, ticked>>
  BY DEF FIND!CoinBreaks, FIND!NotRunning
<1>2. finderFaults' \in Nat /\ finderFaults <= finderFaults'
  BY <1>1 DEF FindTypes
<1>3. FindTypes'
  BY <1>1, <1>2 DEF FindTypes, FIND!ShownTable
<1>4. Comparing' /\ Ranking'
  BY <1>1 DEF Comparing, Ranking
<1>5. Accounted'
  BY <1>1, <1>2, AccountStays
<1> QED
  BY <1>3, <1>4, <1>5

\* A result names a template and a market that can be ranked, and eligibility is decided.
LEMMA ResultNames ==
  ASSUME NEW g, NEW d \in Ranges, IsResult(g, d, Coins2)
  PROVE  FIND!KeyOf(g) \in Combos /\ g.eligible \in BOOLEAN
<1>1. PICK s \in Scores[g.market][d] :
        g = [template |-> s.template, market |-> g.market, net |-> s.net, closed |-> s.closed,
             winRate |-> s.winRate, eligible |-> s.closed >= FIND!MIN_EVIDENCE]
  BY DEF IsResult
<1>2. g.market \in Coins2 /\ g.template = s.template
  BY <1>1 DEF IsResult
<1>3. g.template \in Named
  BY <1>2 DEF Named
<1>4. FIND!KeyOf(g) \in Combos
  BY <1>2, <1>3 DEF FIND!KeyOf, Combos
<1>5. g.eligible = (s.closed >= FIND!MIN_EVIDENCE)
  BY <1>1
<1>6. (s.closed >= FIND!MIN_EVIDENCE) \in BOOLEAN
  OBVIOUS
<1> QED
  BY <1>4, <1>5, <1>6

\* Two results of one combination are the same.
LEMMA ResultsDiffer ==
  ASSUME NEW g, NEW h, NEW d \in Ranges, IsResult(g, d, Coins2), IsResult(h, d, Coins2),
         FIND!KeyOf(g) = FIND!KeyOf(h)
  PROVE  g = h
<1>1. g.market = h.market /\ g.template = h.template /\ g.market \in Coins2
  BY DEF FIND!KeyOf, IsResult
<1>2. PICK s \in Scores[g.market][d] :
        g = [template |-> s.template, market |-> g.market, net |-> s.net, closed |-> s.closed,
             winRate |-> s.winRate, eligible |-> s.closed >= FIND!MIN_EVIDENCE]
  BY DEF IsResult
<1>3. PICK t \in Scores[h.market][d] :
        h = [template |-> t.template, market |-> h.market, net |-> t.net, closed |-> t.closed,
             winRate |-> t.winRate, eligible |-> t.closed >= FIND!MIN_EVIDENCE]
  BY DEF IsResult
<1>4. g.template = s.template /\ h.template = t.template
  BY <1>2, <1>3
<1>5. s = t
  BY <1>1, <1>4, FinderAssumption
<1> QED
  BY <1>1, <1>2, <1>3, <1>5

\* The account stands when what is newly ticked is written down.
LEMMA AccountTicks ==
  ASSUME FindTypes, Accounted, UNCHANGED <<adding, added, finderFaults>>,
         NEW u \in Seq(Combos), ticked' = u, Len(ticked) <= Len(u),
         \A i \in 1 .. Len(ticked) : u[i] = ticked[i],
         \A k \in sel' : k \in sel \/ \E n \in DOMAIN u : n > Len(ticked) /\ u[n] = k
  PROVE  Accounted'
<1>1. ASSUME NEW k \in Combos
      PROVE  Occurs(k, added' \o Left') + (IF ~adding'.on /\ k \in sel' THEN 1 ELSE 0)
               <= Occurs(k, ticked') + finderFaults'
  <2> DEFINE a == added \o Left
  <2>1. added' \o Left' = a /\ a \in Seq(Combos)
    BY LeftIsList DEF Left
  <2>2. Occurs(k, a) + Standing(k) <= Occurs(k, ticked) + finderFaults
    BY DEF Accounted
  <2> HIDE DEF a
  <2>3. ticked \in Seq(Combos) /\ finderFaults \in Nat
    BY DEF FindTypes
  <2>4. /\ Occurs(k, ticked) \in Nat /\ Occurs(k, u) \in Nat /\ Occurs(k, ticked) <= Occurs(k, u)
        /\ \A n \in DOMAIN u : n > Len(ticked) /\ u[n] = k => Occurs(k, ticked) + 1 <= Occurs(k, u)
    BY <2>3, OccursGrows
  <2>5. Occurs(k, a) \in Nat
    BY <2>1, OccursNat
  <2>6. CASE k \in sel' /\ k \notin sel
    <3>1. Occurs(k, ticked) + 1 <= Occurs(k, u)
      BY <2>4, <2>6
    <3>2. Standing(k) = 0
      BY <2>6 DEF Standing
    <3> QED
      BY <2>1, <2>2, <2>3, <2>4, <2>5, <3>1, <3>2
  <2>7. CASE ~(k \in sel' /\ k \notin sel)
    <3>1. (IF ~adding'.on /\ k \in sel' THEN 1 ELSE 0) <= Standing(k) /\ Standing(k) \in Nat
      BY <2>7 DEF Standing
    <3> QED
      BY <2>1, <2>2, <2>3, <2>4, <2>5, <3>1
  <2> QED
    BY <2>6, <2>7
<1> QED
  BY <1>1, AccountOf

\* A list continued by another.
LEMMA Continued ==
  ASSUME NEW T, NEW s \in Seq(T), NEW t \in Seq(T)
  PROVE  /\ s \o t \in Seq(T) /\ Len(s) <= Len(s \o t)
         /\ \A i \in 1 .. Len(s) : (s \o t)[i] = s[i]
         /\ \A k \in Range(t) : \E n \in DOMAIN (s \o t) : n > Len(s) /\ (s \o t)[n] = k
         /\ \A n \in DOMAIN (s \o t) : n > Len(s) => n - Len(s) \in DOMAIN t /\ (s \o t)[n] = t[n - Len(s)]
<1> DEFINE u == s \o t
<1>1. /\ u \in Seq(T) /\ Len(u) = Len(s) + Len(t) /\ Len(s) \in Nat /\ Len(t) \in Nat
      /\ DOMAIN u = 1 .. Len(u) /\ DOMAIN t = 1 .. Len(t)
  OBVIOUS
<1>2. \A i \in 1 .. Len(s) : u[i] = s[i]
  OBVIOUS
<1>3. \A j \in 1 .. Len(t) : u[Len(s) + j] = t[j]
  OBVIOUS
<1> HIDE DEF u
<1>4. ASSUME NEW k \in Range(t) PROVE \E n \in DOMAIN u : n > Len(s) /\ u[n] = k
  <2>1. PICK j \in 1 .. Len(t) : t[j] = k
    BY <1>1 DEF Range
  <2>2. Len(s) + j \in DOMAIN u /\ Len(s) + j > Len(s)
    BY <1>1
  <2> QED
    BY <1>3, <2>1, <2>2
<1>5. ASSUME NEW n \in DOMAIN u, n > Len(s) PROVE n - Len(s) \in DOMAIN t /\ u[n] = t[n - Len(s)]
  <2>1. n - Len(s) \in 1 .. Len(t) /\ Len(s) + (n - Len(s)) = n
    BY <1>1, <1>5
  <2> QED
    BY <1>1, <1>3, <2>1
<1>6. Len(s) <= Len(u)
  BY <1>1
<1> QED
  BY <1>1, <1>2, <1>4, <1>5, <1>6 DEF u

\* The keys of the ranking: a list of combinations, each once.
RankedKeys == [i \in DOMAIN ranking |-> FIND!KeyOf(ranking[i])]
LEMMA KeysRanked ==
  ASSUME FindTypes, Ranking
  PROVE  /\ RankedKeys \in Seq(Combos) /\ IsInjective(RankedKeys)
         /\ FIND!ShownTable \subseteq Combos
<1>1. ranDays \in Ranges
  BY DEF FindTypes
<1>2. \A i \in DOMAIN ranking : FIND!KeyOf(ranking[i]) \in Combos
  BY <1>1, ResultNames DEF Ranking
<1>3. DOMAIN ranking = 1 .. Len(ranking) /\ Len(ranking) \in Nat
  BY DEF Ranking
<1>4. RankedKeys \in Seq(Combos)
  <2> DEFINE n == Len(ranking)
  <2>1. RankedKeys \in [1 .. n -> Combos] /\ n \in Nat
    BY <1>2, <1>3 DEF RankedKeys
  <2> HIDE DEF n
  <2> QED
    BY <2>1
<1>5. ASSUME NEW i \in DOMAIN ranking, NEW j \in DOMAIN ranking,
             FIND!KeyOf(ranking[i]) = FIND!KeyOf(ranking[j])
      PROVE  i = j
  <2>1. ranking[i] = ranking[j]
    BY <1>1, <1>5, ResultsDiffer DEF Ranking
  <2> QED
    BY <2>1 DEF Ranking
<1>6. IsInjective(RankedKeys)
  BY <1>5 DEF IsInjective, RankedKeys
<1>7. FIND!ShownTable \subseteq Combos
  BY <1>2 DEF FIND!ShownTable
<1> QED
  BY <1>4, <1>6, <1>7

\* A list of the results in the order of the ranking.
LEMMA SortedResults ==
  ASSUME NEW d \in Ranges, NEW G, IsFiniteSet(G), \A g \in G : IsResult(g, d, Coins2),
         NEW r \in FIND!SetToSeqs(G), \A i, j \in DOMAIN r : i < j => FIND!Ranks(r[i], r[j])
  PROVE  /\ DOMAIN r = 1 .. Len(r) /\ Len(r) \in Nat
         /\ \A i \in DOMAIN r : IsResult(r[i], d, Coins2)
         /\ \A i, j \in DOMAIN r : r[i] = r[j] => i = j
         /\ \A i, j \in DOMAIN r : i < j /\ r[j].eligible => r[i].eligible
<1> DEFINE n == Cardinality(G)
<1>1. n \in Nat
  BY FS_CardinalityType
<1>2. r \in [1 .. n -> G] /\ \A i, j \in 1 .. n : i # j => r[i] # r[j]
  BY FindCounts DEF FIND!SetToSeqs
<1> HIDE DEF n
<1>3. DOMAIN r = 1 .. Len(r) /\ Len(r) \in Nat
  <2>1. r \in Seq(G)
    BY <1>1, <1>2
  <2> QED
    BY <2>1
<1>4. \A i \in DOMAIN r : IsResult(r[i], d, Coins2)
  BY <1>2
<1>5. \A i, j \in DOMAIN r : r[i] = r[j] => i = j
  BY <1>2
<1>6. ASSUME NEW i \in DOMAIN r, NEW j \in DOMAIN r, i < j, r[j].eligible PROVE r[i].eligible
  <2>1. FIND!Ranks(r[i], r[j])
    BY <1>6
  <2>2. r[i].eligible \in BOOLEAN /\ r[j].eligible \in BOOLEAN
    BY <1>4, ResultNames
  <2> QED
    BY <1>6, <2>1, <2>2 DEF FIND!Ranks
<1> QED
  BY <1>3, <1>4, <1>5, <1>6

\* The key of the best result, if one has enough trades.
LEMMA BestOne ==
  ASSUME NEW d \in Ranges, NEW r, DOMAIN r = 1 .. Len(r), Len(r) \in Nat,
         \A i \in DOMAIN r : IsResult(r[i], d, Coins2),
         NEW B, B = {FIND!KeyOf(r[i]) : i \in {k \in DOMAIN r :
                       r[k].eligible /\ \A j \in 1 .. (k - 1) : ~r[j].eligible}}
  PROVE  IsFiniteSet(B) /\ B \subseteq Combos /\ B \subseteq {FIND!KeyOf(r[i]) : i \in DOMAIN r}
<1> DEFINE I == {k \in DOMAIN r : r[k].eligible /\ \A j \in 1 .. (k - 1) : ~r[j].eligible}
<1>1. I \subseteq 1 .. Len(r)
  OBVIOUS
<1>2. IsFiniteSet(I)
  <2>1. 1 \in Int /\ Len(r) \in Int
    OBVIOUS
  <2> HIDE DEF I
  <2> QED
    BY <1>1, <2>1, FS_Interval, FS_Subset
<1> DEFINE f == [i \in I |-> FIND!KeyOf(r[i])]
<1>3. B = {f[i] : i \in I}
  OBVIOUS
<1>4. I \subseteq DOMAIN r
  OBVIOUS
<1> HIDE DEF I
<1>5. \A i \in I : f[i] = FIND!KeyOf(r[i])
  OBVIOUS
<1>6. f \in Surjection(I, {f[i] : i \in I})
  BY DEF Surjection
<1> HIDE DEF f
<1>7. IsFiniteSet(B)
  BY <1>2, <1>3, <1>6, FS_Surjection
<1>8. \A i \in I : FIND!KeyOf(r[i]) \in Combos
  BY <1>4, ResultNames
<1>9. B \subseteq Combos
  BY <1>3, <1>5, <1>8
<1>10. B \subseteq {FIND!KeyOf(r[i]) : i \in DOMAIN r}
  BY <1>3, <1>4, <1>5
<1> QED
  BY <1>7, <1>9, <1>10

\* All have answered and there are results: they are ranked, and the best is ticked.
LEMMA RankedKeeps == ASSUME FindInv, FIND!Ranked PROVE FindInv'
<1> USE DEF FindInv
<1>1. /\ comparing.on /\ comparing.left = {} /\ comparing' = [on |-> FALSE]
      /\ UNCHANGED <<days, adding, added, finderFaults>>
  BY DEF FIND!Ranked, FIND!busy, FIND!NotRunning
<1>2. Comparing'
  BY <1>1 DEF Comparing
<1>3. CASE comparing.got = {}
  <2>1. failed' = TRUE /\ UNCHANGED <<ranking, ranDays, sel, ticked>>
    BY <1>3 DEF FIND!Ranked
  <2>2. FindTypes'
    BY <1>1, <2>1 DEF FindTypes, FIND!ShownTable
  <2>3. Ranking'
    BY <2>1 DEF Ranking
  <2>4. Accounted'
    BY <1>1, <2>1, FaultsStay, AccountStays
  <2> QED
    BY <1>2, <2>2, <2>3, <2>4
<1>4. CASE comparing.got # {}
  <2>1. /\ IsFiniteSet(comparing.got) /\ comparing.days = days /\ days \in Ranges
        /\ \A g \in comparing.got : IsResult(g, days, Coins2)
    <3>1. comparing # [on |-> FALSE]
      BY <1>1
    <3>2. /\ comparing = [on |-> TRUE, days |-> days, left |-> comparing.left, got |-> comparing.got]
          /\ IsFiniteSet(comparing.got)
          /\ \A g \in comparing.got : IsResult(g, days, Coins2 \ comparing.left)
      BY <3>1, Zenon DEF Comparing
    <3>3. comparing.days = days
      BY <3>2
    <3>4. Coins2 \ comparing.left = Coins2
      BY <1>1
    <3> QED
      BY <3>2, <3>3, <3>4 DEF FindTypes
  <2>2. PICK r \in FIND!SetToSeqs(comparing.got) :
          /\ \A i, j \in DOMAIN r : i < j => FIND!Ranks(r[i], r[j])
          /\ ranking' = r
    BY <1>4 DEF FIND!Ranked
  <2>3. /\ sel' = {FIND!KeyOf(ranking'[i]) : i \in {k \in DOMAIN ranking' :
                     ranking'[k].eligible /\ \A j \in 1 .. (k - 1) : ~ranking'[j].eligible}}
        /\ ranDays' = days /\ ticked' = ticked \o FIND!SetToSeq(sel') /\ failed' = failed
    BY <1>4, <2>1 DEF FIND!Ranked
  <2>4. /\ DOMAIN r = 1 .. Len(r) /\ Len(r) \in Nat
        /\ \A i \in DOMAIN r : IsResult(r[i], days, Coins2)
        /\ \A i, j \in DOMAIN r : r[i] = r[j] => i = j
        /\ \A i, j \in DOMAIN r : i < j /\ r[j].eligible => r[i].eligible
    BY <2>1, <2>2, SortedResults
  <2>5. PICK B : B = sel'
    OBVIOUS
  <2>6. B = {FIND!KeyOf(r[i]) : i \in {k \in DOMAIN r :
               r[k].eligible /\ \A j \in 1 .. (k - 1) : ~r[j].eligible}}
    BY <2>2, <2>3, <2>5
  <2>7. IsFiniteSet(B) /\ B \subseteq Combos /\ B \subseteq {FIND!KeyOf(r[i]) : i \in DOMAIN r}
    BY <2>1, <2>4, <2>6, BestOne
  <2>8. FIND!SetToSeq(B) \in Seq(B) /\ Range(FIND!SetToSeq(B)) = B
    BY <2>7, ListOfSet
  <2> DEFINE t == FIND!SetToSeq(B)
             u == ticked \o t
  <2>9. t \in Seq(Combos) /\ ticked \in Seq(Combos)
    BY <2>7, <2>8 DEF FindTypes
  <2>10. ticked' = u
    BY <2>3, <2>5
  <2> HIDE DEF t
  <2>11. /\ u \in Seq(Combos) /\ Len(ticked) <= Len(u)
         /\ \A i \in 1 .. Len(ticked) : u[i] = ticked[i]
         /\ \A k \in Range(t) : \E n \in DOMAIN u : n > Len(ticked) /\ u[n] = k
    BY <2>9, Continued
  <2>12. Range(t) = sel'
    BY <2>5, <2>8 DEF t
  <2> HIDE DEF u
  <2>13. Accounted'
    BY <1>1, <2>10, <2>11, <2>12, AccountTicks
  <2>14. Ranking'
    BY <2>2, <2>3, <2>4 DEF Ranking
  <2>15. sel' \subseteq FIND!ShownTable'
    <3>1. \A k \in B : r # <<>> /\ k \in {FIND!KeyOf(r[i]) : i \in DOMAIN r}
      BY <2>7
    <3> QED
      BY <2>2, <2>5, <3>1 DEF FIND!ShownTable
  <2>16. FindTypes'
    BY <1>1, <2>1, <2>3, <2>10, <2>11, <2>15 DEF FindTypes
  <2> QED
    BY <1>2, <2>13, <2>14, <2>16
<1> QED
  BY <1>3, <1>4

\* A tick of a row: one entry of what was ticked, unless it is taken back.
LEMMA ToggleKeeps ==
  ASSUME FindInv, NEW k \in FIND!ShownTable, FIND!toggle(k)
  PROVE  FindInv'
<1> USE DEF FindInv
<1>1. /\ sel' = IF k \in sel THEN sel \ {k} ELSE sel \cup {k}
      /\ ticked' = IF k \in sel THEN ticked ELSE Append(ticked, k)
      /\ UNCHANGED <<days, failed, comparing, ranking, ranDays, adding, added, finderFaults>>
  BY DEF FIND!toggle
<1>2. Comparing' /\ Ranking'
  BY <1>1 DEF Comparing, Ranking
<1>3. k \in Combos /\ ticked \in Seq(Combos)
  BY KeysRanked DEF FindTypes
<1>4. ticked' \in Seq(Combos)
  BY <1>1, <1>3
<1>5. FindTypes'
  BY <1>1, <1>4 DEF FindTypes, FIND!ShownTable
<1>6. CASE k \in sel
  <2>1. sel' \subseteq sel /\ ticked' = ticked
    BY <1>1, <1>6
  <2> QED
    BY <1>1, <1>2, <1>5, <2>1, FaultsStay, AccountStays
<1>7. CASE k \notin sel
  <2> DEFINE u == Append(ticked, k)
  <2>1. /\ u \in Seq(Combos) /\ Len(ticked) <= Len(u)
        /\ \A i \in 1 .. Len(ticked) : u[i] = ticked[i]
        /\ Len(u) \in DOMAIN u /\ Len(u) > Len(ticked) /\ u[Len(u)] = k
    BY <1>3
  <2>2. ticked' = u /\ \A x \in sel' : x \in sel \/ x = k
    BY <1>1, <1>7
  <2> HIDE DEF u
  <2>3. Accounted'
    BY <1>1, <2>1, <2>2, AccountTicks
  <2> QED
    BY <1>2, <1>5, <2>3
<1> QED
  BY <1>6, <1>7

\* An addition begins with what is ticked, each combination once.
LEMMA AddSelectedKeeps == ASSUME FindInv, FIND!addSelected PROVE FindInv'
<1> USE DEF FindInv
<1> DEFINE l == Only(RankedKeys, sel)
<1>1. /\ ~adding.on /\ adding' = [on |-> TRUE, left |-> l]
      /\ UNCHANGED <<days, failed, comparing, ranking, ranDays, sel, added, finderFaults, ticked>>
  <2>1. ~adding.on
    BY DEF FIND!addSelected, FIND!ShownAdd
  <2>2. adding' = [on |-> TRUE, left |-> FIND!Only(RankedKeys, sel)]
    BY DEF FIND!addSelected, RankedKeys
  <2> QED
    BY <2>1, <2>2, FindKeeps DEF FIND!addSelected
<1>2. l \in Seq(Combos) /\ IsInjective(l) /\ Range(l) \subseteq sel
  <2>1. RankedKeys \in Seq(Combos) /\ IsInjective(RankedKeys)
    BY KeysRanked
  <2> QED
    BY <2>1, OnlyKeeps, OnlyDiffers
<1> HIDE DEF l
<1>3. FindTypes'
  <2>1. adding' \in [on : {TRUE}, left : Seq(Combos)]
    BY <1>1, <1>2
  <2> QED
    BY <1>1, <2>1 DEF FindTypes, FIND!ShownTable
<1>4. Comparing' /\ Ranking'
  BY <1>1 DEF Comparing, Ranking
<1>5. ASSUME NEW k \in Combos
      PROVE  Occurs(k, added' \o Left') + (IF ~adding'.on /\ k \in sel' THEN 1 ELSE 0)
               <= Occurs(k, ticked') + finderFaults'
  <2> DEFINE u == added \o l
  <2>1. added' \o Left' = u /\ adding'.on
    BY <1>1 DEF Left
  <2>2. added \in Seq(Combos) /\ ticked \in Seq(Combos) /\ finderFaults \in Nat
    BY DEF FindTypes
  <2>3. added \o Left = added
    BY <1>1, LeftIsList
  <2>4. Occurs(k, added) + Standing(k) <= Occurs(k, ticked) + finderFaults
    BY <2>3 DEF Accounted
  <2>5. /\ u \in Seq(Combos) /\ Len(added) <= Len(u)
        /\ \A i \in 1 .. Len(added) : u[i] = added[i]
        /\ \A n \in DOMAIN u : n > Len(added) =>
             n - Len(added) \in DOMAIN l /\ u[n] = l[n - Len(added)]
    BY <1>2, <2>2, Continued
  <2> HIDE DEF u
  <2>6. \A n, m \in DOMAIN u :
          n > Len(added) /\ m > Len(added) /\ u[n] = k /\ u[m] = k => n = m
    <3>1. SUFFICES ASSUME NEW n \in DOMAIN u, NEW m \in DOMAIN u, n > Len(added), m > Len(added),
                          u[n] = k, u[m] = k
                   PROVE  n = m
      OBVIOUS
    <3>2. n - Len(added) = m - Len(added)
      BY <1>2, <2>5, <3>1 DEF IsInjective
    <3>3. n \in Int /\ m \in Int /\ Len(added) \in Int
      BY <2>2, <2>5
    <3> QED
      BY <3>2, <3>3
  <2>7. /\ Occurs(k, u) <= Occurs(k, added) + 1
        /\ (\A n \in DOMAIN u : n > Len(added) => u[n] # k) => Occurs(k, u) <= Occurs(k, added)
    BY <2>2, <2>5, <2>6, OccursOnce
  <2>8. Occurs(k, u) \in Nat /\ Occurs(k, added) \in Nat /\ Occurs(k, ticked) \in Nat
    BY <2>2, <2>5, OccursNat
  <2>9. CASE k \in sel
    <3>1. Standing(k) = 1
      BY <1>1, <2>9 DEF Standing
    <3> QED
      BY <1>1, <2>1, <2>2, <2>4, <2>7, <2>8, <3>1
  <2>10. CASE k \notin sel
    <3>1. \A n \in DOMAIN u : n > Len(added) => u[n] # k
      BY <1>2, <2>5, <2>10 DEF Range
    <3>2. Standing(k) = 0
      BY <2>10 DEF Standing
    <3> QED
      BY <1>1, <2>1, <2>2, <2>4, <2>7, <2>8, <3>1, <3>2
  <2> QED
    BY <2>9, <2>10
<1> QED
  BY <1>3, <1>4, <1>5, AccountOf

\* Moving the head of one list to the end of another leaves the two as one list.
LEMMA HeadMoves ==
  ASSUME NEW T, NEW s \in Seq(T), NEW l \in Seq(T), l # <<>>
  PROVE  /\ Append(s, Head(l)) \in Seq(T) /\ Tail(l) \in Seq(T)
         /\ Append(s, Head(l)) \o Tail(l) = s \o l
<1>1. Head(l) \in T /\ Tail(l) \in Seq(T) /\ Len(Tail(l)) = Len(l) - 1 /\ Len(l) >= 1
  OBVIOUS
<1> DEFINE a == Append(s, Head(l))
           u == a \o Tail(l)
           v == s \o l
<1>2. a \in Seq(T) /\ Len(a) = Len(s) + 1
  BY <1>1
<1>3. u \in Seq(T) /\ v \in Seq(T) /\ Len(u) = Len(v) /\ Len(v) \in Nat
  BY <1>1, <1>2
<1>4. ASSUME NEW i \in 1 .. Len(v) PROVE u[i] = v[i]
  <2>1. CASE i <= Len(s)
    BY <1>1, <1>2, <2>1
  <2>2. CASE i = Len(s) + 1
    BY <1>1, <1>2, <2>2
  <2>3. CASE i > Len(s) + 1
    BY <1>1, <1>2, <2>3
  <2> QED
    BY <2>1, <2>2, <2>3
<1> HIDE DEF u, v
<1>5. u = v
  BY <1>3, <1>4
<1> QED
  BY <1>1, <1>2, <1>5 DEF u, v

\* An insertion moves a combination from what is left to what is added.
LEMMA InsertsKeeps == ASSUME FindInv, FIND!Inserts PROVE FindInv'
<1> USE DEF FindInv
<1> DEFINE l == adding.left
<1>1. /\ adding.on /\ l # <<>> /\ added' = Append(added, Head(l))
      /\ adding' = [adding EXCEPT !.left = Tail(l)]
      /\ UNCHANGED <<days, failed, comparing, ranking, ranDays, sel, finderFaults, ticked>>
  BY DEF FIND!Inserts
<1>2. l \in Seq(Combos) /\ added \in Seq(Combos) /\ Left = l
  BY <1>1, LeftIsList DEF FindTypes
<1>3. adding' \in [on : {TRUE}, left : Seq(Combos)] /\ adding'.left = Tail(l)
  <2>1. adding \in [on : {TRUE}, left : Seq(Combos)]
    BY <1>1 DEF FindTypes
  <2>2. Tail(l) \in Seq(Combos)
    BY <1>1, <1>2
  <2> HIDE DEF l
  <2> QED
    BY <1>1, <2>1, <2>2
<1>4. added' \o Left' = added \o Left
  <2>1. Left' = Tail(l)
    BY <1>3 DEF Left
  <2>2. Append(added, Head(l)) \o Tail(l) = added \o l
    BY <1>1, <1>2, HeadMoves
  <2> QED
    BY <1>1, <1>2, <2>1, <2>2
<1>5. added' \in Seq(Combos)
  BY <1>1, <1>2, HeadMoves
<1>6. FindTypes'
  BY <1>1, <1>3, <1>5 DEF FindTypes, FIND!ShownTable
<1>7. Comparing' /\ Ranking'
  BY <1>1 DEF Comparing, Ranking
<1>8. Accounted'
  <2> DEFINE a == added \o Left
  <2>1. a \in Seq(Combos) /\ a = added' \o Left'
    BY <1>4, LeftIsList
  <2> HIDE DEF a, l
  <2>2. ticked' = ticked /\ finderFaults' \in Nat /\ finderFaults <= finderFaults'
    BY <1>1, FaultsStay
  <2>3. adding'.on
    BY <1>3
  <2> QED
    BY <2>1, <2>2, <2>3, AccountStands DEF a
<1> QED
  BY <1>6, <1>7, <1>8

\* An insertion fails: what was left is not added, and what is ticked stands again.
LEMMA InsertThrowsKeeps == ASSUME FindInv, FIND!InsertThrows PROVE FindInv'
<1> USE DEF FindInv
<1>1. /\ adding.on /\ adding' = [on |-> FALSE] /\ finderFaults' = finderFaults + 1
      /\ UNCHANGED <<days, failed, comparing, ranking, ranDays, sel, added, ticked>>
  BY DEF FIND!InsertThrows, FIND!NotRunning
<1>2. FindTypes'
  BY <1>1 DEF FindTypes, FIND!ShownTable
<1>3. Comparing' /\ Ranking'
  BY <1>1 DEF Comparing, Ranking
<1>4. ASSUME NEW k \in Combos
      PROVE  Occurs(k, added' \o Left') + (IF ~adding'.on /\ k \in sel' THEN 1 ELSE 0)
               <= Occurs(k, ticked') + finderFaults'
  <2>1. added \in Seq(Combos) /\ ticked \in Seq(Combos) /\ finderFaults \in Nat /\ Left \in Seq(Combos)
    BY LeftIsList DEF FindTypes
  <2>2. added' \o Left' = added
    <3>1. Left' = <<>>
      BY <1>1 DEF Left
    <3> QED
      BY <1>1, <2>1, <3>1
  <2> DEFINE a == added \o Left
  <2>3. Occurs(k, a) + Standing(k) <= Occurs(k, ticked) + finderFaults
    BY DEF Accounted
  <2>4. /\ a \in Seq(Combos) /\ Len(added) <= Len(a)
        /\ \A i \in 1 .. Len(added) : a[i] = added[i]
    BY <2>1, Continued
  <2> HIDE DEF a
  <2>5. Occurs(k, added) \in Nat /\ Occurs(k, a) \in Nat /\ Occurs(k, added) <= Occurs(k, a)
    BY <2>1, <2>4, OccursGrows
  <2>6. Occurs(k, ticked) \in Nat /\ Standing(k) \in {0, 1}
    BY <2>1, OccursNat DEF Standing
  <2> QED
    BY <1>1, <2>1, <2>2, <2>3, <2>5, <2>6
<1> QED
  BY <1>2, <1>3, <1>4, AccountOf

\* An addition ends with nothing ticked.
LEMMA AddEndsKeeps == ASSUME FindInv, FIND!AddEnds PROVE FindInv'
<1> USE DEF FindInv
<1>1. /\ adding.on /\ adding.left = <<>> /\ adding' = [on |-> FALSE] /\ sel' = {}
      /\ UNCHANGED <<days, failed, comparing, ranking, ranDays, added, finderFaults, ticked>>
  BY DEF FIND!AddEnds, FIND!NotRunning
<1>2. FindTypes'
  BY <1>1 DEF FindTypes, FIND!ShownTable
<1>3. Comparing' /\ Ranking'
  BY <1>1 DEF Comparing, Ranking
<1>4. added \o Left = added' \o Left'
  BY <1>1 DEF Left
<1>5. Accounted'
  <2> DEFINE a == added \o Left
  <2>1. a \in Seq(Combos) /\ a = added' \o Left'
    BY <1>4, LeftIsList
  <2> HIDE DEF a
  <2>2. ticked' = ticked /\ finderFaults' \in Nat /\ finderFaults <= finderFaults'
    BY <1>1, FaultsStay
  <2> QED
    BY <1>1, <2>1, <2>2, AccountStands DEF a
<1> QED
  BY <1>2, <1>3, <1>5

\* No step of the comparison leaves the invariant.
LEMMA FindSteps == ASSUME FindInv, [FIND!FNext]_findVars PROVE FindInv'
<1>1. CASE UNCHANGED findVars
  <2>1. /\ days' = days /\ failed' = failed /\ comparing' = comparing /\ ranking' = ranking
        /\ ranDays' = ranDays /\ sel' = sel /\ adding' = adding /\ added' = added
        /\ finderFaults' = finderFaults /\ ticked' = ticked
    BY <1>1 DEF findVars
  <2>3. FindTypes'
    BY <2>1 DEF FindInv, FindTypes, FIND!ShownTable
  <2>4. Comparing'
    BY <2>1 DEF FindInv, Comparing
  <2>5. Ranking'
    BY <2>1 DEF FindInv, Ranking
  <2>2. Accounted'
    BY <1>1, FaultsStay, AccountStays DEF findVars, FindInv
  <2> QED
    BY <2>2, <2>3, <2>4, <2>5 DEF FindInv
<1>2. CASE FIND!FNext
  BY <1>2, RunKeeps, CoinBreaksKeeps, RankedKeeps, AddSelectedKeeps, InsertsKeeps,
     InsertThrowsKeeps, AddEndsKeeps, SetDaysKeeps, CoinAnswersKeeps, ToggleKeeps
     DEF FIND!FNext
<1> QED
  BY <1>1, <1>2

\* What the comparison promises, in any state of it.
LEMMA FindHonest ==
  ASSUME FindInv
  PROVE  FIND!FTypeOK /\ FIND!RankingIsOfRange /\ FIND!AddedAsTicked
<1> USE DEF FindInv
<1>1. FIND!FTypeOK
  <2>1. comparing.on => comparing.days = days /\ ranking = <<>>
    <3>1. ASSUME comparing.on PROVE comparing # [on |-> FALSE]
      BY <3>1
    <3> QED
      BY <3>1 DEF Comparing
  <2> QED
    BY <2>1 DEF FindTypes, FIND!FTypeOK, FIND!busy
<1>2. FIND!RankingIsOfRange
  <2>1. ASSUME NEW i \in DOMAIN ranking
        PROVE  \E s \in Scores[ranking[i].market][ranDays] :
                 s.template = ranking[i].template /\ s.net = ranking[i].net
    <3>1. IsResult(ranking[i], ranDays, Coins2)
      BY DEF Ranking
    <3> QED
      BY <3>1 DEF IsResult
  <2> QED
    BY <2>1 DEF Ranking, FindTypes, FIND!RankingIsOfRange
<1>3. FIND!AddedAsTicked
  <2>1. SUFFICES ASSUME NEW k \in FIND!Range(added)
                 PROVE  Occurs(k, added) <= Occurs(k, ticked) + finderFaults
    BY FindCounts DEF FIND!AddedAsTicked, FIND!Times1, Occurs
  <2>2. added \in Seq(Combos) /\ ticked \in Seq(Combos) /\ finderFaults \in Nat /\ Left \in Seq(Combos)
    BY LeftIsList DEF FindTypes
  <2>3. k \in Combos
    BY <2>2 DEF FIND!Range
  <2> DEFINE a == added \o Left
  <2>4. Occurs(k, a) + Standing(k) <= Occurs(k, ticked) + finderFaults
    BY <2>3 DEF Accounted
  <2>5. /\ a \in Seq(Combos) /\ Len(added) <= Len(a)
        /\ \A i \in 1 .. Len(added) : a[i] = added[i]
    BY <2>2, Continued
  <2> HIDE DEF a
  <2>6. Occurs(k, added) \in Nat /\ Occurs(k, a) \in Nat /\ Occurs(k, added) <= Occurs(k, a)
    BY <2>2, <2>5, OccursGrows
  <2>7. Occurs(k, ticked) \in Nat /\ Standing(k) \in {0, 1}
    BY <2>2, OccursNat DEF Standing
  <2> QED
    BY <2>2, <2>4, <2>6, <2>7
<1> QED
  BY <1>1, <1>2, <1>3

-----------------------------------------------------------------------------
(***************************************************************************)
(* The automatic pick.  A plan names strategies of the catalog to add and  *)
(* rows of the page to keep, enable or remove; while it is applied every   *)
(* strategy recommended is still to be added or has a row that stays.      *)
(***************************************************************************)

Pairings == [template : DOMAIN TEMPLATE_CONFIG \cup {"custom"}, market : Markets]
Listable == [template : ACTIVE_TEMPLATES, market : Markets]
IdsDiffer(list) == \A i, j \in DOMAIN list : list[i].id = list[j].id => i = j
IdsOf(list) == {r.id : r \in Range(list)}

\* Every row on the page is stored as it is shown.
RowsOnPage ==
  /\ userRows \in Seq(StrategyRow) /\ IdsDiffer(userRows)
  /\ pageRows \in Seq(StrategyRow) /\ IdsDiffer(pageRows)
  /\ Range(pageRows) \subseteq Range(userRows)

PanelOK == panel \in [open : BOOLEAN, answers : Seq(0 .. 2)] /\ Len(panel.answers) <= 3

\* A strategy recommended is still to be added, or a row of it is or will be on and stays.
InPlace(k) ==
  \/ k \in Range(applying.add)
  \/ \E r \in Range(userRows) :
       /\ Key(r) = k /\ (r.enabled \/ r.id \in Range(applying.enable))
       /\ r.id \notin Range(applying.remove)

\* What an application has yet to do concerns rows that exist.
Aims ==
  /\ Range(applying.add) \subseteq outcome.recs
  /\ applying.add # <<>> =>
       Range(applying.enable) \cup Range(applying.remove) \subseteq IdsOf(userRows)
  /\ \A r \in Range(userRows) : r.id \in Range(applying.enable) => Key(r) \in outcome.recs

\* Nothing is removed before everything recommended is there and on.
Orderly ==
  \/ \A r \in Range(outcome.was) : r.id \in IdsOf(userRows)
  \/ applying.add = <<>> /\ applying.enable = <<>>

\* A replacement has marked what does not stay; an addition leaves all rows but those it enables.
Replaces ==
  outcome.replace /\ outcome.clean =>
    \A r \in Range(userRows) : Key(r) \in outcome.recs \/ r.id \in Range(applying.remove)
Adds ==
  ~outcome.replace =>
    /\ applying.remove = <<>>
    /\ \A r \in Range(outcome.was) : Key(r) \notin outcome.recs => r \in Range(userRows)

UnderWay ==
  /\ applying \in [on : {TRUE}, add : Seq(Listable), enable : Seq(PickIds), remove : Seq(PickIds)]
  /\ outcome \in [ended : {"not yet"}, was : Seq(StrategyRow), recs : SUBSET Pairings,
                  replace : BOOLEAN, clean : BOOLEAN]
  /\ \A k \in outcome.recs : InPlace(k)
  /\ Aims /\ Orderly /\ Replaces /\ Adds

\* An application is under way, or is over and has kept its promises.
PickInv ==
  /\ RowsOnPage /\ PanelOK
  /\ \/ UnderWay
     \/ applying = Idle /\ outcome.ended \in {"never", "done", "failed"}
        /\ AppliedAsRecommended /\ NeverLeftWithout

\* What a candidate is: one of the catalog not on the page, or one with a row of it.
IsCandidate(c, list) ==
  /\ c = [key |-> c.key, existing |-> c.existing, pnl |-> c.pnl, hasData |-> c.hasData]
  /\ c.key \in Pairings /\ c.pnl \in Int /\ c.hasData \in BOOLEAN
  /\ \/ c.existing = {} /\ c.key \in Listable
     \/ \E r \in Range(list) : c.existing = {r} /\ Key(r) = c.key
Candidates(list) == {c \in [key : Pairings, existing : SUBSET Range(list), pnl : Int,
                            hasData : BOOLEAN] : IsCandidate(c, list)}

\* Backtested returns are numbers.
LEMMA NetIsInt == \A t \in DOMAIN backtestNet : backtestNet[t] \in Int
BY DEF backtestNet

\* Candidates are compared by profit: nobody is before itself, and who is before one is before
\* or behind any third.
LEMMA BeforeCompares ==
  ASSUME NEW list, NEW a \in Candidates(list), NEW b \in Candidates(list), NEW c \in Candidates(list)
  PROVE  /\ ~Before(a, a)
         /\ Before(a, b) => ~Before(b, a)
         /\ Before(a, b) => Before(a, c) \/ Before(c, b)
<1> DEFINE n(x) == backtestNet[x.key.template]
<1>1. /\ a.pnl \in Int /\ b.pnl \in Int /\ c.pnl \in Int
      /\ a.hasData \in BOOLEAN /\ b.hasData \in BOOLEAN /\ c.hasData \in BOOLEAN
  BY DEF Candidates, IsCandidate
<1>2. /\ HasBacktest(a) => n(a) \in Int
      /\ HasBacktest(b) => n(b) \in Int
      /\ HasBacktest(c) => n(c) \in Int
  BY NetIsInt DEF HasBacktest
<1>3. \A x, y : Before(x, y) <=> (IF x.hasData # y.hasData THEN x.hasData
                                  ELSE IF x.hasData THEN x.pnl > y.pnl
                                  ELSE HasBacktest(x) /\ (HasBacktest(y) => n(x) > n(y)))
  BY DEF Before
<1> HIDE DEF n
<1> QED
  BY <1>1, <1>2, <1>3

\* The order of the profit ranking, on the places in the list.
Profits(cs) ==
  {p \in (DOMAIN cs) \X (DOMAIN cs) :
     IF p[1] < p[2] THEN ~Before(cs[p[2]], cs[p[1]]) ELSE Before(cs[p[1]], cs[p[2]])}

LEMMA ProfitsOrder ==
  ASSUME NEW list, NEW cs \in Seq(Candidates(list))
  PROVE  /\ Orders(Profits(cs), DOMAIN cs)
         /\ \A i \in DOMAIN cs : rankOf(cs, i) = RankIn(Profits(cs), DOMAIN cs, i)
<1> DEFINE R == Profits(cs)
           D == DOMAIN cs
<1>1. \A i \in D : i \in Int /\ cs[i] \in Candidates(list)
  OBVIOUS
<1>2. \A i, j \in D : <<i, j>> \in R <=>
        (IF i < j THEN ~Before(cs[j], cs[i]) ELSE Before(cs[i], cs[j]))
  BY DEF Profits
<1>3. \A i, j, k \in D :
        /\ ~Before(cs[i], cs[i])
        /\ Before(cs[i], cs[j]) => ~Before(cs[j], cs[i])
        /\ Before(cs[i], cs[j]) => Before(cs[i], cs[k]) \/ Before(cs[k], cs[j])
  BY <1>1, BeforeCompares
<1>4. Orders(R, D)
  <2> HIDE DEF R, D
  <2>1. \A i \in D : <<i, i>> \notin R
    BY <1>1, <1>2, <1>3
  <2>2. ASSUME NEW i \in D, NEW j \in D, NEW k \in D, <<i, j>> \in R, <<j, k>> \in R
        PROVE  <<i, k>> \in R
    <3>1. IF i < j THEN ~Before(cs[j], cs[i]) ELSE Before(cs[i], cs[j])
      BY <1>2, <2>2
    <3>2. IF j < k THEN ~Before(cs[k], cs[j]) ELSE Before(cs[j], cs[k])
      BY <1>2, <2>2
    <3>3. IF i < k THEN ~Before(cs[k], cs[i]) ELSE Before(cs[i], cs[k])
      BY <1>1, <1>3, <3>1, <3>2
    <3> QED
      BY <1>2, <3>3
  <2>3. ASSUME NEW i \in D, NEW j \in D PROVE i = j \/ <<i, j>> \in R \/ <<j, i>> \in R
    BY <1>1, <1>2, <1>3
  <2> QED
    BY <2>1, <2>2, <2>3 DEF Orders
<1>5. ASSUME NEW i \in D PROVE rankOf(cs, i) = RankIn(R, D, i)
  <2>1. {j \in D : IF j < i THEN ~Before(cs[i], cs[j]) ELSE Before(cs[j], cs[i])}
          = {j \in D : <<j, i>> \in R}
    BY <1>2
  <2> QED
    BY <2>1 DEF rankOf, RankIn
<1> QED
  BY <1>4, <1>5

-----------------------------------------------------------------------------
(* The plan.                                                               *)

\* A function on the first numbers is a list.
LEMMA FunctionIsList == ASSUME NEW n \in Nat, NEW L, NEW s \in [1 .. n -> L] PROVE s \in Seq(L)
OBVIOUS

\* The catalog, on its own markets of the linked exchange.
LEMMA CatalogListable ==
  /\ DOMAIN Catalog = Slots
  /\ \A i \in Slots : CatalogKey(Catalog[i]) \in Listable
<1>1. DOMAIN Catalog = Slots
  BY DEF Catalog, Slots
<1>2. \A i \in Slots : Catalog[i] \in ACTIVE_TEMPLATES
  BY DEF Catalog, Slots, ACTIVE_TEMPLATES
<1>3. ASSUME NEW t \in ACTIVE_TEMPLATES PROVE TEMPLATE_CONFIG[t].market \in Markets
  <2>1. t \in DOMAIN TEMPLATE_CONFIG
    BY DEF ACTIVE_TEMPLATES, TEMPLATE_CONFIG
  <2>2. TEMPLATE_CONFIG[t].market.coin \in Coins
    BY <2>1 DEF Coins
  <2>3. \E coin, e, params, specs : TEMPLATE_CONFIG[t] = Config(coin, e, params, specs)
    BY DEF ACTIVE_TEMPLATES, TEMPLATE_CONFIG, tsmom_config, supertrend_config, macd_trend_config,
      bb_breakout_config, donchian_trend_config, trend_regime_config, momentum_config,
      vol_expansion_config
  <2> QED
    BY <2>2, <2>3 DEF Config, Markets
<1>4. ASSUME NEW m \in Markets PROVE marketFor(PickExchange, m) \in Markets
  BY DEF marketFor, Markets
<1> QED
  BY <1>1, <1>2, <1>3, <1>4 DEF CatalogKey, Listable

\* What the catalog lists can be compared with a row.
LEMMA ListableIsPairing == Listable \subseteq Pairings
<1>1. ACTIVE_TEMPLATES \subseteq DOMAIN TEMPLATE_CONFIG
  BY DEF ACTIVE_TEMPLATES, TEMPLATE_CONFIG
<1> QED
  BY <1>1 DEF Listable, Pairings

\* The key of a row.
LEMMA KeyIs == ASSUME NEW r \in StrategyRow PROVE Key(r) \in Pairings
BY DEF Key, StrategyRow, Pairings

\* The keys of the user's rows.
LEMMA OwnAreKeys ==
  ASSUME NEW list \in Seq(StrategyRow)
  PROVE  OwnKeys(list) \in Seq({Key(r) : r \in Range(list)})
<1> DEFINE firsts == {i \in DOMAIN list : /\ list[i].template \notin NeverPicked
                                          /\ \A j \in 1..(i - 1) : Key(list[j]) # Key(list[i])}
           places == [i \in DOMAIN list |-> i]
           kept == Only(places, firsts)
           K1 == {Key(r) : r \in Range(list)}
<1>1. places \in Seq(DOMAIN list)
  <2>1. DOMAIN list = 1 .. Len(list) /\ Len(list) \in Nat
    OBVIOUS
  <2> QED
    BY <2>1
<1>2. kept \in Seq(DOMAIN list)
  <2> HIDE DEF places, firsts
  <2> QED
    BY <1>1, OnlyKeeps
<1>3. OwnKeys(list) = [n \in DOMAIN kept |-> Key(list[kept[n]])]
  BY DEF OwnKeys
<1>4. \A i \in DOMAIN list : Key(list[i]) \in K1
  BY DEF Range
<1> HIDE DEF kept, K1
<1>5. \A n \in DOMAIN kept : Key(list[kept[n]]) \in K1
  BY <1>2, <1>4
<1>6. [n \in DOMAIN kept |-> Key(list[kept[n]])] \in Seq(K1)
  <2>1. DOMAIN kept = 1 .. Len(kept) /\ Len(kept) \in Nat
    BY <1>2
  <2> QED
    BY <1>5, <2>1
<1> QED
  BY <1>3, <1>6 DEF K1

\* The last row with a key has it.
LEMMA LastHasKey ==
  ASSUME NEW list \in Seq(StrategyRow), NEW r \in Range(list)
  PROVE  LastOf(list, Key(r)) \in Range(list) /\ Key(LastOf(list, Key(r))) = Key(r)
<1> DEFINE P == {i \in DOMAIN list : Key(list[i]) = Key(r)}
<1>1. P # {}
  BY DEF Range
<1>2. IsFiniteSet(P) /\ P \subseteq Int
  <2>1. DOMAIN list = 1 .. Len(list) /\ Len(list) \in Int /\ 1 \in Int
    OBVIOUS
  <2>2. IsFiniteSet(DOMAIN list)
    BY <2>1, FS_Interval
  <2> QED
    BY <2>2, FS_Subset
<1> HIDE DEF P
<1>3. \E m \in P : \A x \in P : m >= x
  BY <1>1, <1>2, LargestInt
<1>4. Max(P) \in P
  BY <1>3 DEF Max
<1>5. LastOf(list, Key(r)) = list[Max(P)]
  BY DEF LastOf, P
<1> QED
  BY <1>4, <1>5 DEF P, Range

\* The user's rows and the rest of the catalog are candidates.
LEMMA CandidatesAre ==
  ASSUME NEW list \in Seq(StrategyRow)
  PROVE  candidates(list) \in Seq(Candidates(list))
<1> DEFINE C == Candidates(list)
           own == OwnKeys(list)
           shown == [i \in DOMAIN Catalog |-> CatalogKey(Catalog[i])]
           rest == Only(shown, Range(shown) \ Range(own))
           a == [i \in DOMAIN own |-> Own(list, own[i])]
           b == [i \in DOMAIN rest |-> [key |-> rest[i], existing |-> {}, pnl |-> 0, hasData |-> FALSE]]
<1>1. own \in Seq({Key(r) : r \in Range(list)})
  BY OwnAreKeys
<1>2. ASSUME NEW r \in Range(list) PROVE Own(list, Key(r)) \in C
  <2> DEFINE s == LastOf(list, Key(r))
             p == liveOf(s).pnl
             d == liveOf(s).closed >= MIN_CLOSED
  <2>1. s \in Range(list) /\ Key(s) = Key(r)
    BY LastHasKey
  <2>2. p \in Int
    BY PickAssumption DEF liveOf
  <2>3. d \in BOOLEAN
    OBVIOUS
  <2>4. r \in StrategyRow
    BY DEF Range
  <2>5. Key(r) \in Pairings
    BY <2>4, KeyIs
  <2>6. Own(list, Key(r)) = [key |-> Key(r), existing |-> {s}, pnl |-> p, hasData |-> d]
    BY DEF Own
  <2> HIDE DEF s, p, d
  <2>7. [key |-> Key(r), existing |-> {s}, pnl |-> p, hasData |-> d] \in C
    BY <2>1, <2>2, <2>3, <2>5 DEF Candidates, IsCandidate
  <2> QED
    BY <2>6, <2>7
<1>3. a \in Seq(C)
  <2> HIDE DEF own, C
  <2>1. \A i \in DOMAIN own : \E r \in Range(list) : own[i] = Key(r)
    BY <1>1
  <2>2. \A i \in DOMAIN own : Own(list, own[i]) \in C
    BY <1>2, <2>1
  <2>3. DOMAIN own = 1 .. Len(own) /\ Len(own) \in Nat
    BY <1>1
  <2> QED
    BY <2>2, <2>3
<1>4. rest \in Seq(Listable)
  <2>1. shown \in Seq(Listable)
    <3>1. shown \in [1 .. 8 -> Listable]
      <4>1. DOMAIN Catalog = 1 .. 8 /\ \A i \in 1 .. 8 : CatalogKey(Catalog[i]) \in Listable
        BY CatalogListable DEF Slots
      <4> QED
        BY <4>1
    <3> HIDE DEF shown
    <3> QED
      BY <3>1, FunctionIsList
  <2> HIDE DEF shown
  <2> QED
    BY <2>1, OnlyKeeps
<1>5. ASSUME NEW k \in Listable
      PROVE  [key |-> k, existing |-> {}, pnl |-> 0, hasData |-> FALSE] \in C
  <2>1. k \in Pairings
    BY ListableIsPairing
  <2> DEFINE c == [key |-> k, existing |-> {}, pnl |-> 0, hasData |-> FALSE]
  <2>2. c.key = k /\ c.existing = {} /\ c.pnl = 0 /\ c.hasData = FALSE
    OBVIOUS
  <2>3. c = [key |-> c.key, existing |-> c.existing, pnl |-> c.pnl, hasData |-> c.hasData]
    OBVIOUS
  <2>4. {} \in SUBSET Range(list) /\ 0 \in Int /\ FALSE \in BOOLEAN
    OBVIOUS
  <2>5. c \in [key : Pairings, existing : SUBSET Range(list), pnl : Int, hasData : BOOLEAN]
    BY <2>1, <2>4
  <2> HIDE DEF c
  <2>6. c \in C
    BY <2>1, <2>2, <2>3, <2>5 DEF Candidates, IsCandidate
  <2> QED
    BY <2>6 DEF c
<1>6. b \in Seq(C)
  <2> HIDE DEF rest, C
  <2>1. DOMAIN rest = 1 .. Len(rest) /\ Len(rest) \in Nat
    BY <1>4
  <2> QED
    BY <1>4, <1>5, <2>1
<1>7. candidates(list) = a \o b
  BY DEF candidates
<1> HIDE DEF a, b, C
<1> QED
  BY <1>3, <1>6, <1>7 DEF C

\* Scores are numbers, and no two candidates have the same place in the profit ranking.
Scored(sc) ==
  /\ IsFiniteSet(DOMAIN sc)
  /\ \A i \in DOMAIN sc : sc[i].points \in Int /\ sc[i].rank \in Nat
  /\ \A i, j \in DOMAIN sc : sc[i].rank = sc[j].rank => i = j

\* The answers to the three questions.
Answers == {a \in Seq(0 .. 2) : Len(a) = 3}
LEMMA AnswersAre ==
  ASSUME NEW a \in Answers
  PROVE  a[1] \in 0 .. 2 /\ a[2] \in 0 .. 2 /\ a[3] \in 0 .. 2
BY DEF Answers

\* Points are a number.
LEMMA PointsInt ==
  ASSUME NEW list, NEW cs \in Seq(Candidates(list)), NEW i \in DOMAIN cs, NEW a \in Answers,
         rankOf(cs, i) \in Nat
  PROVE  points(cs, i, a) \in Int
<1> DEFINE size == Len(cs)
           t == cs[i].key.template
           leaning(likes, dislikes) ==
             IF t \in likes THEN 2 * size ELSE IF t \in dislikes THEN -size ELSE 0
           p1 == 4 * (size - rankOf(cs, i)) * (IF a[2] = 0 THEN 2 ELSE 1)
           p2 == IF a[1] = 0 THEN leaning(SLOW, ACTIVE) ELSE 0
           p3 == IF a[1] = 1 THEN leaning(ACTIVE, SLOW) ELSE 0
           p4 == IF a[2] = 1 THEN (IF t \in STEADY THEN 3 * size ELSE -size) ELSE 0
           p5 == IF a[2] = 2 /\ t \in STEADY THEN size ELSE 0
<1>1. size \in Nat
  OBVIOUS
<1>2. points(cs, i, a) = p1 + p2 + p3 + p4 + p5
  BY DEF points
<1> HIDE DEF size, t
<1>3. p1 \in Int
  <2> DEFINE d == size - rankOf(cs, i)
  <2>1. d \in Int
    BY <1>1
  <2> HIDE DEF d
  <2>2. 4 * d * 2 \in Int /\ 4 * d * 1 \in Int
    BY <2>1
  <2>3. CASE a[2] = 0
    <3>1. p1 = 4 * d * 2
      BY <2>3 DEF d
    <3> QED
      BY <2>2, <3>1
  <2>4. CASE a[2] # 0
    <3>1. p1 = 4 * d * 1
      BY <2>4 DEF d
    <3> QED
      BY <2>2, <3>1
  <2> QED
    BY <2>3, <2>4
<1>4. p2 \in Int /\ p3 \in Int /\ p4 \in Int /\ p5 \in Int
  BY <1>1
<1> HIDE DEF p1, p2, p3, p4, p5
<1> QED
  BY <1>2, <1>3, <1>4

\* The scores of candidates are such.
LEMMA ScoresAre ==
  ASSUME NEW list, NEW cs \in Seq(Candidates(list)), NEW a \in Answers
  PROVE  DOMAIN scoresOf(cs, a) = DOMAIN cs /\ Scored(scoresOf(cs, a))
<1> DEFINE sc == scoresOf(cs, a)
           D == DOMAIN cs
           R == Profits(cs)
<1>1. /\ DOMAIN sc = D
      /\ \A i \in D : sc[i].rank = rankOf(cs, i) /\ sc[i].points = points(cs, i, a)
  BY DEF scoresOf
<1>2. IsFiniteSet(D)
  <2>1. D = 1 .. Len(cs) /\ Len(cs) \in Int /\ 1 \in Int
    OBVIOUS
  <2> QED
    BY <2>1, FS_Interval
<1>3. Orders(R, D) /\ \A i \in D : rankOf(cs, i) = RankIn(R, D, i)
  BY ProfitsOrder
<1>4. \A i \in D : rankOf(cs, i) \in Nat
  <2>1. ASSUME NEW i \in D PROVE RankIn(R, D, i) \in Nat
    <3> HIDE DEF R, D
    <3>1. Cardinality(D) \in Nat /\ RankIn(R, D, i) \in 0 .. Cardinality(D) - 1
      BY <1>2, <1>3, RankIsSmall
    <3> QED
      BY <3>1
  <2> QED
    BY <1>3, <2>1
<1>5. \A i \in D : points(cs, i, a) \in Int
  BY <1>4, PointsInt
<1>6. \A i, j \in D : rankOf(cs, i) = rankOf(cs, j) => i = j
  <2>1. ASSUME NEW i \in D, NEW j \in D, RankIn(R, D, i) = RankIn(R, D, j) PROVE i = j
    <3> HIDE DEF R, D
    <3> QED
      BY <1>2, <1>3, <2>1, RanksDiffer
  <2> QED
    BY <1>3, <2>1
<1> HIDE DEF sc, D
<1> QED
  BY <1>1, <1>2, <1>4, <1>5, <1>6 DEF Scored, sc, D

\* A coin's place in the profit ranking is one of its candidates'.
LEMMA CoinRankIs ==
  ASSUME NEW sc, Scored(sc), NEW i \in DOMAIN sc
  PROVE  \E j \in DOMAIN sc : sc[j].market = sc[i].market /\ coinRank(sc, i) = sc[j].rank
<1> DEFINE T == {sc[j].rank : j \in {k \in DOMAIN sc : sc[k].market = sc[i].market}}
<1>1. T # {} /\ T \subseteq Nat
  BY DEF Scored
<1>2. coinRank(sc, i) = Min(T)
  BY DEF coinRank
<1>3. Min(T) \in T
  <2> HIDE DEF T
  <2>1. \E n \in T : \A m \in T : n <= m
    BY <1>1, MinimalNat
  <2> QED
    BY <2>1 DEF Min
<1>4. coinRank(sc, i) \in T
  <2> HIDE DEF T
  <2> QED
    BY <1>2, <1>3
<1> QED
  BY <1>4

\* A coin has one winner, and no two winners' coins have the same place.
LEMMA WinnersDiffer ==
  ASSUME NEW sc, Scored(sc), NEW i \in winners(sc), NEW j \in winners(sc)
  PROVE  /\ coinRank(sc, i) \in Nat /\ coinRank(sc, j) \in Nat
         /\ coinRank(sc, i) = coinRank(sc, j) => i = j
<1>1. i \in DOMAIN sc /\ j \in DOMAIN sc
  BY DEF winners
<1>2. PICK a \in DOMAIN sc : sc[a].market = sc[i].market /\ coinRank(sc, i) = sc[a].rank
  BY <1>1, CoinRankIs
<1>3. PICK b \in DOMAIN sc : sc[b].market = sc[j].market /\ coinRank(sc, j) = sc[b].rank
  BY <1>1, CoinRankIs
<1>4. ASSUME coinRank(sc, i) = coinRank(sc, j), i # j PROVE FALSE
  <2>1. a = b
    BY <1>2, <1>3, <1>4 DEF Scored
  <2>2. sc[i].market = sc[j].market
    BY <1>2, <1>3, <2>1
  <2>3. Better(sc[i], sc[j], sc[i].rank, sc[j].rank)
    BY <1>1, <1>4, <2>2 DEF winners
  <2>4. Better(sc[j], sc[i], sc[j].rank, sc[i].rank)
    BY <1>1, <1>4, <2>2 DEF winners
  <2> QED
    BY <1>1, <2>3, <2>4 DEF Better, Scored
<1> QED
  BY <1>2, <1>3, <1>4 DEF Scored

\* The order of the winners.
Wins(sc) ==
  {p \in winners(sc) \X winners(sc) :
     Better(sc[p[1]], sc[p[2]], coinRank(sc, p[1]), coinRank(sc, p[2]))}

LEMMA WinsOrder ==
  ASSUME NEW sc, Scored(sc)
  PROVE  /\ IsFiniteSet(winners(sc)) /\ Orders(Wins(sc), winners(sc))
         /\ \A i \in winners(sc) :
              Cardinality(ahead(sc, winners(sc), i)) = RankIn(Wins(sc), winners(sc), i)
<1> DEFINE W == winners(sc)
           R == Wins(sc)
           n(i) == coinRank(sc, i)
           q(i) == sc[i].points
<1>1. \A i \in W : q(i) \in Int /\ n(i) \in Nat
  BY WinnersDiffer DEF winners, Scored
<1>2. \A i, j \in W : n(i) = n(j) => i = j
  BY WinnersDiffer
<1>3. \A i, j \in W : <<i, j>> \in R <=> (q(i) > q(j) \/ (q(i) = q(j) /\ n(i) < n(j)))
  BY DEF Wins, Better
<1>4. IsFiniteSet(W)
  <2>1. W \subseteq DOMAIN sc
    BY DEF winners
  <2> QED
    BY <2>1, FS_Subset DEF Scored
<1>5. ASSUME NEW i \in W PROVE Cardinality(ahead(sc, W, i)) = RankIn(R, W, i)
  <2>1. ahead(sc, W, i) = {j \in W : <<j, i>> \in R}
    BY DEF ahead, Wins
  <2> QED
    BY <2>1 DEF RankIn
<1>6. Orders(R, W)
  <2> HIDE DEF R, W, n, q
  <2>1. \A i \in W : <<i, i>> \notin R
    BY <1>1, <1>3
  <2>2. ASSUME NEW i \in W, NEW j \in W, NEW k \in W, <<i, j>> \in R, <<j, k>> \in R
        PROVE  <<i, k>> \in R
    <3>1. q(i) > q(j) \/ (q(i) = q(j) /\ n(i) < n(j))
      BY <1>3, <2>2
    <3>2. q(j) > q(k) \/ (q(j) = q(k) /\ n(j) < n(k))
      BY <1>3, <2>2
    <3>3. q(i) > q(k) \/ (q(i) = q(k) /\ n(i) < n(k))
      BY <1>1, <3>1, <3>2
    <3> QED
      BY <1>3, <3>3
  <2>3. ASSUME NEW i \in W, NEW j \in W PROVE i = j \/ <<i, j>> \in R \/ <<j, i>> \in R
    BY <1>1, <1>2, <1>3
  <2> QED
    BY <2>1, <2>2, <2>3 DEF Orders
<1> QED
  BY <1>4, <1>5, <1>6

\* What is recommended are candidates: every place up to the last has its winner.
LEMMA RecommendedAre ==
  ASSUME NEW C, NEW cs \in Seq(C), NEW sc, DOMAIN sc = DOMAIN cs, Scored(sc), NEW coins \in Nat
  PROVE  recommended(cs, sc, coins) \in Seq(C)
<1> DEFINE W == winners(sc)
           m == Min({coins, Cardinality(W)})
           at(n) == CHOOSE i \in W : Cardinality(ahead(sc, W, i)) = n - 1
<1>1. IsFiniteSet(W) /\ Orders(Wins(sc), W) /\ W \subseteq DOMAIN cs
  BY WinsOrder DEF winners
<1>2. Cardinality(W) \in Nat
  BY <1>1, FS_CardinalityType
<1>3. m \in Nat /\ m <= Cardinality(W)
  <2> DEFINE c == Cardinality(W)
  <2>1. c \in Nat
    BY <1>2
  <2> HIDE DEF c
  <2>2. \E x \in {coins, c} : \A y \in {coins, c} : x <= y
    BY <2>1
  <2>3. Min({coins, c}) \in {coins, c} /\ Min({coins, c}) <= c
    BY <2>2 DEF Min
  <2> QED
    BY <2>1, <2>3 DEF c
<1>4. ASSUME NEW n \in 1 .. m PROVE at(n) \in DOMAIN cs
  <2>1. n \in 1 .. Cardinality(W)
    BY <1>2, <1>3
  <2>2. \E i \in W : RankIn(Wins(sc), W, i) = n - 1
    <3> HIDE DEF W
    <3> QED
      BY <1>1, <2>1, RanksOnto
  <2>3. \E i \in W : Cardinality(ahead(sc, W, i)) = n - 1
    BY <2>2, WinsOrder
  <2>4. at(n) \in W
    <3> HIDE DEF W
    <3> QED
      BY <2>3
  <2> QED
    BY <1>1, <2>4
<1>5. recommended(cs, sc, coins) = [n \in 1 .. m |-> cs[at(n)]]
  BY DEF recommended, bestOf
<1> HIDE DEF m, at
<1>6. [n \in 1 .. m |-> cs[at(n)]] \in [1 .. m -> C]
  <2>1. \A n \in 1 .. m : cs[at(n)] \in C
    BY <1>4
  <2> QED
    BY <2>1
<1> QED
  BY <1>3, <1>5, <1>6, FunctionIsList

\* So are those of the plan.
LEMMA PlanRecommends ==
  ASSUME NEW list \in Seq(StrategyRow), NEW a \in Answers
  PROVE  \E recs \in Seq(Candidates(list)) : buildPlan(list, a) = planOf(list, recs)
<1> DEFINE cs == candidates(list)
           sc == scoresOf(cs, a)
           coins == COIN_CAPS[a[3] + 1]
           recs == recommended(cs, sc, coins)
<1>1. cs \in Seq(Candidates(list))
  BY CandidatesAre
<1>2. DOMAIN sc = DOMAIN cs /\ Scored(sc)
  <2> HIDE DEF cs
  <2> QED
    BY <1>1, ScoresAre
<1>3. coins \in Nat
  BY AnswersAre DEF COIN_CAPS
<1>4. recs \in Seq(Candidates(list))
  <2> HIDE DEF cs, sc, coins
  <2> QED
    BY <1>1, <1>2, <1>3, RecommendedAre
<1>5. buildPlan(list, a) = planOf(list, recs)
  BY DEF buildPlan, planFrom
<1> HIDE DEF recs
<1> QED
  BY <1>4, <1>5

\* The ids of the rows a replacement removes.
Removed(p) == [n \in DOMAIN p.remove |-> p.remove[n].id]

\* Rows with the same id are one.
LEMMA SameRow ==
  ASSUME NEW list, IdsDiffer(list), NEW r \in Range(list), NEW s \in Range(list), r.id = s.id
  PROVE  r = s
BY DEF IdsDiffer, Range

\* What a plan adds, enables and removes.
LEMMA PlanParts ==
  ASSUME NEW list \in Seq(StrategyRow), IdsDiffer(list), NEW recs \in Seq(Candidates(list)),
         NEW p, p = planOf(list, recs)
  PROVE  LET K1 == Range(keysOf(p.recs))
         IN /\ K1 \subseteq Pairings /\ toAdd(p) \in Seq(Listable) /\ Range(toAdd(p)) \subseteq K1
            /\ toEnable(p) \in Seq(PickIds)
            /\ \A x \in Range(toEnable(p)) : \E r \in Range(list) : r.id = x /\ Key(r) \in K1
            /\ Removed(p) \in Seq(PickIds) /\ Range(Removed(p)) \subseteq IdsOf(list)
            /\ \A r \in Range(list) : Key(r) \in K1 \/ r.id \in Range(Removed(p))
            /\ \A k \in K1 :
                 \/ k \in Range(toAdd(p))
                 \/ \E r \in Range(list) :
                      /\ Key(r) = k /\ (r.enabled \/ r.id \in Range(toEnable(p)))
                      /\ r.id \notin Range(Removed(p))
<1> DEFINE C == Candidates(list)
           K1 == Range(keysOf(recs))
           new == {c \in Range(recs) : c.existing = {}}
           dim == {c \in Range(recs) : \E r \in c.existing : ~r.enabled}
           fresh == Only(recs, new)
           off == Only(recs, dim)
           keep == UNION {{r.id : r \in c.existing} : c \in Range(recs)}
           gone == {r \in Range(list) : r.id \notin keep}
           out == Only(list, gone)
<1>1. p.recs = recs /\ p.remove = out
  BY DEF planOf
<1>2. fresh \in Seq(C) /\ Range(fresh) = new
  <2>1. recs \in Seq(C) /\ Range(recs) \cap new = new
    OBVIOUS
  <2> HIDE DEF new, C
  <2> QED
    BY <2>1, OnlyKeeps
<1>3. off \in Seq(C) /\ Range(off) = dim
  <2>1. recs \in Seq(C) /\ Range(recs) \cap dim = dim
    OBVIOUS
  <2> HIDE DEF dim, C
  <2> QED
    BY <2>1, OnlyKeeps
<1>4. out \in Seq(StrategyRow) /\ Range(out) = gone
  <2>1. list \in Seq(StrategyRow) /\ Range(list) \cap gone = gone
    OBVIOUS
  <2> HIDE DEF gone
  <2> QED
    BY <2>1, OnlyKeeps
<1>5. toAdd(p) = [n \in DOMAIN fresh |-> fresh[n].key]
  BY <1>1 DEF toAdd, keysOf
<1>6. toEnable(p) = [n \in DOMAIN off |-> (CHOOSE r \in off[n].existing : TRUE).id]
  BY <1>1 DEF toEnable
<1>7. Removed(p) = [n \in DOMAIN out |-> out[n].id]
  BY <1>1 DEF Removed
<1>8. \A c \in Range(recs) :
        /\ c.key \in Pairings /\ c.key \in K1
        /\ \/ c.existing = {} /\ c.key \in Listable
           \/ \E r \in Range(list) : c.existing = {r} /\ Key(r) = c.key
  <2>1. \A n \in DOMAIN recs : recs[n] \in C
    OBVIOUS
  <2>2. \A n \in DOMAIN recs : recs[n].key \in K1
    BY DEF keysOf, Range
  <2> HIDE DEF K1
  <2> QED
    BY <2>1, <2>2 DEF Candidates, IsCandidate, Range
<1>9. \A k \in K1 : \E c \in Range(recs) : c.key = k
  BY DEF keysOf, Range
<1>10. \A r \in Range(list) : r \in StrategyRow /\ r.id \in PickIds
  <2>1. \A r \in Range(list) : r \in StrategyRow
    BY DEF Range
  <2> QED
    BY <2>1 DEF StrategyRow
<1>11. Range(keysOf(p.recs)) = K1
  BY <1>1
<1> HIDE DEF fresh, off, out, K1, C
<1>12. /\ toAdd(p) \in Seq(Listable)
       /\ \A x \in Range(toAdd(p)) : \E c \in new : c.key = x
       /\ \A c \in new : c.key \in Range(toAdd(p))
  <2>1. \A n \in DOMAIN fresh : fresh[n] \in new
    BY <1>2 DEF Range
  <2>2. \A c \in new : \E n \in DOMAIN fresh : fresh[n] = c
    BY <1>2 DEF Range
  <2>3. \A c \in new : c.key \in Listable
    BY <1>8
  <2>4. DOMAIN fresh = 1 .. Len(fresh) /\ Len(fresh) \in Nat
    BY <1>2
  <2> HIDE DEF new
  <2>5. toAdd(p) \in [1 .. Len(fresh) -> Listable]
    BY <1>5, <2>1, <2>3, <2>4
  <2>6. toAdd(p) \in Seq(Listable)
    BY <2>4, <2>5, FunctionIsList
  <2> QED
    BY <1>5, <2>1, <2>2, <2>6 DEF Range
<1>13. \A c \in dim : \E r \in Range(list) : /\ c.existing = {r} /\ ~r.enabled
                                              /\ Key(r) = c.key /\ (CHOOSE x \in c.existing : TRUE) = r
  <2>1. ASSUME NEW c \in dim
        PROVE  \E r \in Range(list) : /\ c.existing = {r} /\ ~r.enabled
                                      /\ Key(r) = c.key /\ (CHOOSE x \in c.existing : TRUE) = r
    <3>1. PICK r \in Range(list) : c.existing = {r} /\ Key(r) = c.key
      BY <1>8
    <3>2. ~r.enabled
      BY <3>1
    <3>3. (CHOOSE x \in {r} : TRUE) = r
      OBVIOUS
    <3> QED
      BY <3>1, <3>2, <3>3
  <2> QED
    BY <2>1
<1>14. /\ toEnable(p) \in Seq(PickIds)
       /\ \A x \in Range(toEnable(p)) : \E r \in Range(list) : r.id = x /\ Key(r) \in K1
       /\ \A c \in dim : \A r \in c.existing : r.id \in Range(toEnable(p))
  <2>1. \A n \in DOMAIN off : off[n] \in dim
    BY <1>3 DEF Range
  <2>2. \A c \in dim : \E n \in DOMAIN off : off[n] = c
    BY <1>3 DEF Range
  <2>3. \A c \in dim : c.key \in K1
    BY <1>8
  <2>4. DOMAIN off = 1 .. Len(off) /\ Len(off) \in Nat
    BY <1>3
  <2> HIDE DEF dim
  <2>5. \A n \in DOMAIN off : toEnable(p)[n] = (CHOOSE x \in off[n].existing : TRUE).id
    BY <1>6
  <2>6. \A n \in DOMAIN off : \E r \in Range(list) :
          off[n].existing = {r} /\ toEnable(p)[n] = r.id /\ Key(r) \in K1
    BY <1>13, <2>1, <2>3, <2>5
  <2>7. DOMAIN toEnable(p) = DOMAIN off
    BY <1>6
  <2>8. toEnable(p) \in [1 .. Len(off) -> PickIds]
    BY <1>6, <1>10, <2>4, <2>6, <2>7
  <2>9. toEnable(p) \in Seq(PickIds)
    BY <2>4, <2>8, FunctionIsList
  <2>10. \A x \in Range(toEnable(p)) : \E r \in Range(list) : r.id = x /\ Key(r) \in K1
    BY <2>6, <2>7 DEF Range
  <2>11. \A c \in dim : \A r \in c.existing : r.id \in Range(toEnable(p))
    BY <2>2, <2>6, <2>7 DEF Range
  <2> QED
    BY <2>9, <2>10, <2>11
<1>15. /\ Removed(p) \in Seq(PickIds)
       /\ \A x \in Range(Removed(p)) : \E r \in gone : r.id = x
       /\ \A r \in gone : r.id \in Range(Removed(p))
  <2>1. \A n \in DOMAIN out : out[n] \in gone
    BY <1>4 DEF Range
  <2>2. \A r \in gone : \E n \in DOMAIN out : out[n] = r
    BY <1>4 DEF Range
  <2>3. \A r \in gone : r.id \in PickIds
    BY <1>10
  <2>4. DOMAIN out = 1 .. Len(out) /\ Len(out) \in Nat
    BY <1>4
  <2> HIDE DEF gone
  <2>5. Removed(p) \in [1 .. Len(out) -> PickIds]
    BY <1>7, <2>1, <2>3, <2>4
  <2>6. Removed(p) \in Seq(PickIds)
    BY <2>4, <2>5, FunctionIsList
  <2> QED
    BY <1>7, <2>1, <2>2, <2>6 DEF Range
<1>16. Range(Removed(p)) \subseteq IdsOf(list)
  BY <1>15 DEF IdsOf
<1>17. \A r \in Range(list) : Key(r) \in K1 \/ r.id \in Range(Removed(p))
  <2>1. ASSUME NEW r \in Range(list), r.id \notin Range(Removed(p)) PROVE Key(r) \in K1
    <3>1. r.id \in keep
      BY <1>15, <2>1
    <3>2. PICK c \in Range(recs) : \E x \in c.existing : x.id = r.id
      BY <3>1
    <3>5. PICK s \in c.existing : s.id = r.id
      BY <3>2
    <3>3. s \in Range(list) /\ Key(s) = c.key
      BY <1>8, <3>5
    <3>4. s = r
      BY <3>5, <3>3, SameRow
    <3> QED
      BY <1>8, <3>2, <3>3, <3>4
  <2> QED
    BY <2>1
<1>18. ASSUME NEW k \in K1
       PROVE  \/ k \in Range(toAdd(p))
              \/ \E r \in Range(list) :
                   /\ Key(r) = k /\ (r.enabled \/ r.id \in Range(toEnable(p)))
                   /\ r.id \notin Range(Removed(p))
  <2>1. PICK c \in Range(recs) : c.key = k
    BY <1>9
  <2>2. CASE c.existing = {}
    BY <1>12, <2>1, <2>2
  <2>3. CASE c.existing # {}
    <3>1. PICK r \in Range(list) : c.existing = {r} /\ Key(r) = k
      BY <1>8, <2>1, <2>3
    <3>2. r.id \in keep
      BY <2>1, <3>1
    <3>3. r.id \notin Range(Removed(p))
      BY <1>15, <3>2
    <3>4. r.enabled \/ r.id \in Range(toEnable(p))
      BY <1>14, <2>1, <3>1
    <3> QED
      BY <3>1, <3>3, <3>4
  <2> QED
    BY <2>2, <2>3
<1>19. K1 \subseteq Pairings
  BY <1>8, <1>9
<1>20. Range(toAdd(p)) \subseteq K1
  BY <1>8, <1>12
<1> HIDE DEF keep, gone, new, dim
<1> QED
  BY <1>11, <1>12, <1>14, <1>15, <1>16, <1>17, <1>18, <1>19, <1>20

-----------------------------------------------------------------------------
(* The steps of the panel and of an application.                           *)

PickParts == <<userRows, pageRows, applying, outcome>>

\* What touches neither the rows nor the application leaves the invariant alone.
LEMMA PanelAside == ASSUME PickInv, PanelOK', UNCHANGED PickParts PROVE PickInv'
<1>1. userRows' = userRows /\ pageRows' = pageRows /\ applying' = applying /\ outcome' = outcome
  BY DEF PickParts
<1>2. RowsOnPage'
  BY <1>1 DEF PickInv, RowsOnPage
<1>3. CASE UnderWay
  <2>1. UnderWay'
    BY <1>1, <1>3 DEF UnderWay, InPlace, Aims, Orderly, Replaces, Adds
  <2> QED
    BY <1>2, <2>1 DEF PickInv
<1>4. CASE /\ applying = Idle /\ outcome.ended \in {"never", "done", "failed"}
           /\ AppliedAsRecommended /\ NeverLeftWithout
  <2>1. AppliedAsRecommended'
    BY <1>1, <1>4 DEF AppliedAsRecommended, pickPending
  <2>2. NeverLeftWithout'
    BY <1>1, <1>4 DEF NeverLeftWithout
  <2> QED
    BY <1>1, <1>2, <1>4, <2>1, <2>2 DEF PickInv
<1> QED
  BY <1>3, <1>4 DEF PickInv

\* Clicks on the panel.
LEMMA PanelClicks ==
  ASSUME PickInv, open \/ close \/ back \/ startOver \/ \E k \in 0 .. 2 : answer(k)
  PROVE  PickInv'
<1> DEFINE P == [open : BOOLEAN, answers : Seq(0 .. 2)]
<1>1. panel \in P /\ Len(panel.answers) <= 3
  BY DEF PickInv, PanelOK
<1>2. panel.open \in BOOLEAN /\ panel.answers \in Seq(0 .. 2)
  BY <1>1
<1>3. ASSUME NEW p, SetPanel(p), p \in P, Len(p.answers) <= 3 PROVE PickInv'
  <2>1. PanelOK' /\ UNCHANGED PickParts
    BY <1>3 DEF SetPanel, PanelOK, PickParts
  <2> QED
    BY <2>1, PanelAside
<1>4. CASE open
  <2> DEFINE p == [panel EXCEPT !.open = TRUE]
  <2>1. p \in P /\ p.answers = panel.answers
    BY <1>1
  <2>2. SetPanel(p)
    BY <1>4 DEF open
  <2> HIDE DEF p, P
  <2> QED
    BY <1>1, <1>3, <2>1, <2>2
<1>5. CASE close
  <2> DEFINE p == [open |-> FALSE, answers |-> <<>>]
  <2>1. p \in P /\ Len(p.answers) <= 3
    OBVIOUS
  <2>2. SetPanel(p)
    BY <1>5 DEF close
  <2> HIDE DEF p, P
  <2> QED
    BY <1>3, <2>1, <2>2
<1>6. CASE back
  <2> DEFINE a == Front(panel.answers)
             p == [panel EXCEPT !.answers = a]
  <2>1. panel.answers # <<>>
    BY <1>6 DEF back, ShownPanel
  <2>2. a \in Seq(0 .. 2) /\ Len(a) <= 3
    <3> DEFINE s == panel.answers  T == 0 .. 2
    <3>1. s \in Seq(T) /\ s # <<>> /\ Len(s) <= 3
      BY <1>1, <1>2, <2>1
    <3> HIDE DEF s, T
    <3>2. Len(s) \in Nat /\ Len(s) >= 1
      BY <3>1
    <3>3. SubSeq(s, 1, Len(s) - 1) \in Seq(T) /\ Len(SubSeq(s, 1, Len(s) - 1)) = Len(s) - 1
      <4> DEFINE n == Len(s) - 1
      <4>1. n \in Nat /\ n < Len(s)
        BY <3>2
      <4>2. \A i \in 1 .. n : s[i] \in T
        BY <3>1, <4>1
      <4> HIDE DEF n
      <4>3. SubSeq(s, 1, n) \in Seq(T) /\ Len(SubSeq(s, 1, n)) = n
        BY <4>1, <4>2
      <4> QED
        BY <4>3 DEF n
    <3>4. Front(s) \in Seq(T) /\ Len(Front(s)) <= 3
      BY <3>1, <3>2, <3>3 DEF Front
    <3> QED
      BY <3>4 DEF s, T
  <2>3. SetPanel(p)
    BY <1>6 DEF back
  <2> HIDE DEF a
  <2>4. p \in P /\ p.answers = a
    BY <1>1, <2>2
  <2> HIDE DEF p, P
  <2> QED
    BY <1>3, <2>2, <2>3, <2>4
<1>7. CASE startOver
  <2> DEFINE none == <<>>
             p == [panel EXCEPT !.answers = none]
  <2>0. none \in Seq(0 .. 2) /\ Len(none) <= 3
    OBVIOUS
  <2> HIDE DEF none
  <2>1. p \in P /\ p.answers = none
    BY <1>1, <2>0
  <2>2. SetPanel(p)
    BY <1>7 DEF startOver, none
  <2>3. Len(p.answers) <= 3
    BY <2>0, <2>1
  <2> HIDE DEF p, P
  <2> QED
    BY <1>3, <2>1, <2>2, <2>3
<1>8. ASSUME NEW k \in 0 .. 2, answer(k) PROVE PickInv'
  <2> DEFINE a == Append(panel.answers, k)
             p == [panel EXCEPT !.answers = a]
  <2>1. ~answered
    BY <1>8 DEF answer, ShownPanel
  <2>2. Len(panel.answers) < 3
    <3>1. Len(panel.answers) \in Nat
      BY <1>2
    <3> QED
      BY <2>1, <3>1 DEF answered, QuestionCount
  <2>3. a \in Seq(0 .. 2) /\ Len(a) <= 3
    BY <1>2, <2>2
  <2>4. SetPanel(p)
    BY <1>8 DEF answer
  <2> HIDE DEF a
  <2>5. p \in P /\ p.answers = a
    BY <1>1, <2>3
  <2> HIDE DEF p, P
  <2> QED
    BY <1>3, <2>3, <2>4, <2>5
<1> QED
  BY <1>4, <1>5, <1>6, <1>7, <1>8

\* An application starts: what it will do is what the plan says.
LEMMA StartKeeps ==
  ASSUME PickInv, NEW recs \in Seq(Candidates(pageRows)), NEW p, p = planOf(pageRows, recs),
         NEW remove \in {<<>>, Removed(p)}, Start(p, remove)
  PROVE  PickInv'
<1> DEFINE K1 == Range(keysOf(p.recs))
           add == toAdd(p)
           enable == toEnable(p)
<1>1. /\ pageRows \in Seq(StrategyRow) /\ IdsDiffer(pageRows)
      /\ userRows \in Seq(StrategyRow) /\ IdsDiffer(userRows)
      /\ Range(pageRows) \subseteq Range(userRows)
  BY DEF PickInv, RowsOnPage
<1>2. /\ K1 \subseteq Pairings /\ add \in Seq(Listable) /\ Range(add) \subseteq K1
      /\ enable \in Seq(PickIds)
      /\ \A x \in Range(enable) : \E r \in Range(pageRows) : r.id = x /\ Key(r) \in K1
      /\ Removed(p) \in Seq(PickIds) /\ Range(Removed(p)) \subseteq IdsOf(pageRows)
      /\ \A r \in Range(pageRows) : Key(r) \in K1 \/ r.id \in Range(Removed(p))
      /\ \A k \in K1 :
           \/ k \in Range(add)
           \/ \E r \in Range(pageRows) :
                /\ Key(r) = k /\ (r.enabled \/ r.id \in Range(enable))
                /\ r.id \notin Range(Removed(p))
  BY <1>1, PlanParts
<1>3. remove \in Seq(PickIds) /\ Range(remove) \subseteq Range(Removed(p))
  <2>1. CASE remove = <<>>
    <3>1. remove \in Seq(PickIds) /\ Range(remove) = {}
      BY <2>1 DEF Range
    <3> QED
      BY <3>1
  <2>2. CASE remove = Removed(p)
    BY <1>2, <2>2
  <2> QED
    BY <2>1, <2>2
<1>4. /\ applying' = [on |-> TRUE, add |-> add, enable |-> enable, remove |-> remove]
      /\ outcome' = [ended |-> "not yet", was |-> userRows, recs |-> K1,
                     replace |-> remove # <<>>, clean |-> pageRows = userRows]
      /\ userRows' = userRows /\ pageRows' = pageRows /\ panel' = panel
  BY DEF Start
<1> HIDE DEF K1, add, enable
<1>5. /\ applying'.add = add /\ applying'.enable = enable /\ applying'.remove = remove
      /\ outcome'.was = userRows /\ outcome'.recs = K1
      /\ outcome'.replace = (remove # <<>>) /\ outcome'.clean = (pageRows = userRows)
  BY <1>4
<1>6. RowsOnPage' /\ PanelOK'
  BY <1>4 DEF PickInv, RowsOnPage, PanelOK
<1>7. applying' \in [on : {TRUE}, add : Seq(Listable), enable : Seq(PickIds), remove : Seq(PickIds)]
  BY <1>2, <1>3, <1>4
<1>8. outcome' \in [ended : {"not yet"}, was : Seq(StrategyRow), recs : SUBSET Pairings,
                    replace : BOOLEAN, clean : BOOLEAN]
  BY <1>1, <1>2, <1>4
<1>9. \A k \in outcome'.recs : InPlace(k)'
  BY <1>1, <1>2, <1>3, <1>4, <1>5 DEF InPlace
<1>10. IdsOf(pageRows) \subseteq IdsOf(userRows)
  BY <1>1 DEF IdsOf
<1>11. Aims'
  <2>1. Range(enable) \cup Range(remove) \subseteq IdsOf(userRows)
    BY <1>2, <1>3, <1>10 DEF IdsOf
  <2>2. ASSUME NEW r \in Range(userRows), r.id \in Range(enable) PROVE Key(r) \in K1
    <3>1. PICK s \in Range(pageRows) : s.id = r.id /\ Key(s) \in K1
      BY <1>2, <2>2
    <3>2. s = r
      BY <1>1, <3>1, SameRow
    <3> QED
      BY <3>1, <3>2
  <2> QED
    BY <1>2, <1>4, <1>5, <2>1, <2>2 DEF Aims
<1>12. Orderly'
  BY <1>4, <1>5 DEF Orderly, IdsOf
<1>13. Replaces'
  <2>1. ASSUME remove # <<>>, pageRows = userRows, NEW r \in Range(userRows)
        PROVE  Key(r) \in K1 \/ r.id \in Range(remove)
    <3>1. remove = Removed(p)
      BY <2>1
    <3> QED
      BY <1>2, <2>1, <3>1
  <2> QED
    BY <1>4, <1>5, <2>1 DEF Replaces
<1>14. Adds'
  BY <1>4, <1>5 DEF Adds
<1>15. UnderWay'
  BY <1>7, <1>8, <1>9, <1>11, <1>12, <1>13, <1>14 DEF UnderWay
<1> QED
  BY <1>6, <1>15 DEF PickInv

\* Both buttons start one, from the plan shown.
LEMMA ApplicationStarts ==
  ASSUME PickInv, applyAdd \/ applyReplace
  PROVE  PickInv'
<1>1. panel.answers \in Answers
  <2>1. Len(panel.answers) >= 3
    BY DEF applyAdd, applyReplace, ShownPanel, answered, QuestionCount
  <2>2. Len(panel.answers) \in Nat
    BY DEF PickInv, PanelOK
  <2>3. panel.answers \in Seq(0 .. 2)
    BY DEF PickInv, PanelOK
  <2>4. Len(panel.answers) <= 3
    BY DEF PickInv, PanelOK
  <2>5. Len(panel.answers) = 3
    <3> DEFINE n == Len(panel.answers)
    <3>1. n >= 3 /\ n \in Nat /\ n <= 3
      BY <2>1, <2>2, <2>4
    <3> HIDE DEF n
    <3>2. n = 3
      BY <3>1
    <3> QED
      BY <3>2 DEF n
  <2> QED
    BY <2>3, <2>5 DEF Answers
<1>2. pageRows \in Seq(StrategyRow)
  BY DEF PickInv, RowsOnPage
<1>3. PICK recs \in Seq(Candidates(pageRows)) : plan = planOf(pageRows, recs)
  BY <1>1, <1>2, PlanRecommends DEF plan
<1>4. Start(plan, <<>>) \/ Start(plan, Removed(plan))
  BY DEF applyAdd, applyReplace, Replacing, Removed
<1> HIDE DEF plan
<1> QED
  BY <1>3, <1>4, StartKeeps

\* What an application under way has to do, named.
LEMMA ToDo ==
  ASSUME PickInv, pickPending
  PROVE  /\ UnderWay
         /\ userRows \in Seq(StrategyRow) /\ IdsDiffer(userRows) /\ Range(pageRows) \subseteq Range(userRows)
         /\ pageRows \in Seq(StrategyRow) /\ IdsDiffer(pageRows)
         /\ applying = [on |-> TRUE, add |-> applying.add, enable |-> applying.enable,
                        remove |-> applying.remove]
         /\ applying.add \in Seq(Listable) /\ applying.enable \in Seq(PickIds)
         /\ applying.remove \in Seq(PickIds)
         /\ outcome.was \in Seq(StrategyRow) /\ outcome.recs \subseteq Pairings
<1>1. applying # Idle
  BY DEF pickPending, Idle
<1>2. UnderWay
  BY <1>1 DEF PickInv
<1>3. applying \in [on : {TRUE}, add : Seq(Listable), enable : Seq(PickIds), remove : Seq(PickIds)]
  BY <1>2 DEF UnderWay
<1>4. outcome \in [ended : {"not yet"}, was : Seq(StrategyRow), recs : SUBSET Pairings,
                   replace : BOOLEAN, clean : BOOLEAN]
  BY <1>2 DEF UnderWay
<1>5. /\ userRows \in Seq(StrategyRow) /\ IdsDiffer(userRows) /\ Range(pageRows) \subseteq Range(userRows)
      /\ pageRows \in Seq(StrategyRow) /\ IdsDiffer(pageRows)
  BY DEF PickInv, RowsOnPage
<1>6. /\ applying = [on |-> TRUE, add |-> applying.add, enable |-> applying.enable,
                     remove |-> applying.remove]
      /\ applying.add \in Seq(Listable) /\ applying.enable \in Seq(PickIds)
      /\ applying.remove \in Seq(PickIds)
  BY <1>3
<1>7. outcome.was \in Seq(StrategyRow) /\ outcome.recs \subseteq Pairings
  BY <1>4
<1> QED
  BY <1>2, <1>5, <1>6, <1>7

\* What a list holds is its head and what its tail holds.
LEMMA HeadAndTail ==
  ASSUME NEW T, NEW s \in Seq(T), s # <<>>
  PROVE  Head(s) \in T /\ Tail(s) \in Seq(T) /\ Range(s) = {Head(s)} \cup Range(Tail(s))
<1>1. Len(s) \in Nat /\ Len(s) >= 1 /\ DOMAIN s = 1 .. Len(s)
  OBVIOUS
<1>2. /\ Tail(s) \in Seq(T) /\ DOMAIN Tail(s) = 1 .. Len(s) - 1
      /\ \A i \in 1 .. Len(s) - 1 : Tail(s)[i] = s[i + 1]
  BY <1>1
<1>3. Head(s) = s[1] /\ s[1] \in T
  BY <1>1
<1>4. \A i \in DOMAIN s : s[i] = Head(s) \/ s[i] \in Range(Tail(s))
  <2>1. ASSUME NEW i \in DOMAIN s, i # 1 PROVE s[i] \in Range(Tail(s))
    <3>1. i - 1 \in DOMAIN Tail(s) /\ Tail(s)[i - 1] = s[i]
      BY <1>1, <1>2, <2>1
    <3> QED
      BY <3>1 DEF Range
  <2> QED
    BY <1>3, <2>1
<1>5. \A i \in DOMAIN Tail(s) : Tail(s)[i] \in Range(s)
  <2>1. ASSUME NEW i \in DOMAIN Tail(s) PROVE Tail(s)[i] \in Range(s)
    <3>1. i + 1 \in DOMAIN s /\ Tail(s)[i] = s[i + 1]
      BY <1>1, <1>2
    <3> QED
      BY <3>1 DEF Range
  <2> QED
    BY <2>1
<1>6. Head(s) \in Range(s)
  BY <1>1, <1>3 DEF Range
<1> QED
  BY <1>2, <1>3, <1>4, <1>5, <1>6 DEF Range

\* A row appended is one more row.
LEMMA AppendedRow ==
  ASSUME NEW list \in Seq(StrategyRow), IdsDiffer(list), NEW r \in StrategyRow, r.id \notin IdsOf(list)
  PROVE  /\ Append(list, r) \in Seq(StrategyRow) /\ IdsDiffer(Append(list, r))
         /\ Range(Append(list, r)) = Range(list) \cup {r}
<1> DEFINE s == Append(list, r)
           n == Len(list)
<1>1. n \in Nat /\ DOMAIN list = 1 .. n
  OBVIOUS
<1>2. /\ s \in Seq(StrategyRow) /\ DOMAIN s = 1 .. n + 1 /\ s[n + 1] = r
      /\ \A i \in 1 .. n : s[i] = list[i]
  OBVIOUS
<1>3. \A i \in 1 .. n : list[i].id # r.id
  BY <1>1 DEF IdsOf, Range
<1> HIDE DEF s, n
<1>4. \A i \in 1 .. n + 1 : i \in 1 .. n \/ i = n + 1
  BY <1>1
<1>5. IdsDiffer(s)
  BY <1>1, <1>2, <1>3, <1>4 DEF IdsDiffer
<1>6. Range(s) = Range(list) \cup {r}
  <2>1. \A i \in 1 .. n : i \in 1 .. n + 1
    BY <1>1
  <2>2. n + 1 \in 1 .. n + 1
    BY <1>1
  <2> QED
    BY <1>1, <1>2, <1>4, <2>1, <2>2 DEF Range
<1> QED
  BY <1>2, <1>5, <1>6 DEF s

\* A recommended strategy is inserted.
LEMMA AddOneKeeps == ASSUME PickInv, AddOne PROVE PickInv'
<1> DEFINE ids == IdsOf(userRows)
           id == Min(PickIds \ ids)
           key == Head(applying.add)
           rest == Tail(applying.add)
           r == [id |-> id, template |-> key.template, market |-> key.market, enabled |-> TRUE]
<1>0. pickPending /\ applying.add # <<>>
  BY DEF AddOne
<1>1. /\ UnderWay
      /\ userRows \in Seq(StrategyRow) /\ IdsDiffer(userRows) /\ Range(pageRows) \subseteq Range(userRows)
      /\ pageRows \in Seq(StrategyRow) /\ IdsDiffer(pageRows)
      /\ applying = [on |-> TRUE, add |-> applying.add, enable |-> applying.enable,
                     remove |-> applying.remove]
      /\ applying.add \in Seq(Listable) /\ applying.enable \in Seq(PickIds)
      /\ applying.remove \in Seq(PickIds)
      /\ outcome.was \in Seq(StrategyRow) /\ outcome.recs \subseteq Pairings
  BY <1>0, ToDo
<1>2. key \in Listable /\ rest \in Seq(Listable) /\ Range(applying.add) = {key} \cup Range(rest)
  BY <1>0, <1>1, HeadAndTail
<1>3. id \in PickIds /\ id \notin ids
  <2>1. ids \subseteq PickIds
    <3>1. \A x \in Range(userRows) : x \in StrategyRow
      BY <1>1 DEF Range
    <3> QED
      BY <3>1 DEF IdsOf, StrategyRow
  <2>2. PickIds # ids
    BY DEF AddOne, IdsOf
  <2> DEFINE T == PickIds \ ids
  <2>3. T # {} /\ T \subseteq Nat
    BY <2>1, <2>2, PickAssumption
  <2> HIDE DEF T
  <2>4. Min(T) \in T
    <3>1. \E n \in T : \A m \in T : n <= m
      BY <2>3, MinimalNat
    <3> QED
      BY <3>1 DEF Min
  <2> QED
    BY <2>4 DEF T
<1>4. userRows' = Append(userRows, r)
  BY DEF AddOne, IdsOf
<1>5. /\ applying' = [applying EXCEPT !.add = rest]
      /\ pageRows' \in {userRows', pageRows}
      /\ panel' = panel /\ outcome' = outcome
  BY DEF AddOne
<1> HIDE DEF id, ids, key, rest
<1>6. r \in StrategyRow /\ r.id = id /\ r.enabled /\ Key(r) = key
  <2>1. key \in Pairings
    BY <1>2, ListableIsPairing
  <2>2. key = [template |-> key.template, market |-> key.market]
    BY <2>1 DEF Pairings
  <2> QED
    BY <1>3, <2>1, <2>2 DEF Pairings, StrategyRow, Key
<1> HIDE DEF r
<1>7. /\ userRows' \in Seq(StrategyRow) /\ IdsDiffer(userRows')
      /\ Range(userRows') = Range(userRows) \cup {r}
  BY <1>1, <1>3, <1>4, <1>6, AppendedRow DEF ids
<1>8. RowsOnPage'
  BY <1>1, <1>5, <1>7 DEF RowsOnPage
<1>9. PanelOK'
  BY <1>5 DEF PickInv, PanelOK
<1>10. /\ applying'.add = rest /\ applying'.enable = applying.enable
       /\ applying'.remove = applying.remove
       /\ applying' = [on |-> TRUE, add |-> rest, enable |-> applying.enable, remove |-> applying.remove]
  <2>1. PICK ad, en, rm : applying = [on |-> TRUE, add |-> ad, enable |-> en, remove |-> rm]
    BY <1>1
  <2>2. applying' = [on |-> TRUE, add |-> rest, enable |-> en, remove |-> rm]
    BY <1>5, <2>1
  <2> QED
    BY <2>1, <2>2
<1>11. /\ Range(applying.enable) \cup Range(applying.remove) \subseteq ids
       /\ Range(applying.add) \subseteq outcome.recs
       /\ \A x \in Range(userRows) : x.id \in Range(applying.enable) => Key(x) \in outcome.recs
  BY <1>0, <1>1 DEF UnderWay, Aims, ids
<1>12. IdsOf(userRows) \subseteq IdsOf(userRows')
  BY <1>7 DEF IdsOf
<1>13. applying' \in [on : {TRUE}, add : Seq(Listable), enable : Seq(PickIds), remove : Seq(PickIds)]
  BY <1>1, <1>2, <1>10
<1>14. outcome' \in [ended : {"not yet"}, was : Seq(StrategyRow), recs : SUBSET Pairings,
                     replace : BOOLEAN, clean : BOOLEAN]
  BY <1>1, <1>5 DEF UnderWay
<1>15. ASSUME NEW k \in outcome.recs PROVE InPlace(k)'
  <2>1. InPlace(k)
    BY <1>1 DEF UnderWay
  <2>2. CASE k = key
    <3>1. r \in Range(userRows') /\ r.id \notin Range(applying'.remove)
      BY <1>3, <1>6, <1>7, <1>10, <1>11
    <3> QED
      BY <1>6, <2>2, <3>1 DEF InPlace
  <2>3. CASE k # key
    BY <1>2, <1>7, <1>10, <2>1, <2>3 DEF InPlace
  <2> QED
    BY <2>2, <2>3
<1>16. Aims'
  <2>1. Range(rest) \subseteq outcome.recs
    BY <1>2, <1>11
  <2>2. Range(applying.enable) \cup Range(applying.remove) \subseteq IdsOf(userRows')
    BY <1>11, <1>12 DEF ids
  <2>3. ASSUME NEW x \in Range(userRows'), x.id \in Range(applying.enable) PROVE Key(x) \in outcome.recs
    BY <1>3, <1>6, <1>7, <1>11, <2>3
  <2> QED
    BY <1>5, <1>10, <2>1, <2>2, <2>3 DEF Aims
<1>17. Orderly'
  <2>1. \A x \in Range(outcome.was) : x.id \in IdsOf(userRows)
    BY <1>0, <1>1 DEF UnderWay, Orderly
  <2> QED
    BY <1>5, <1>12, <2>1 DEF Orderly
<1>18. Replaces'
  <2>1. Replaces
    BY <1>1 DEF UnderWay
  <2>2. key \in outcome.recs
    BY <1>2, <1>11
  <2> QED
    BY <1>5, <1>6, <1>7, <1>10, <2>1, <2>2 DEF Replaces
<1>19. Adds'
  <2>1. Adds
    BY <1>1 DEF UnderWay
  <2> QED
    BY <1>5, <1>7, <1>10, <2>1 DEF Adds
<1>20. UnderWay'
  BY <1>5, <1>13, <1>14, <1>15, <1>16, <1>17, <1>18, <1>19 DEF UnderWay
<1> QED
  BY <1>8, <1>9, <1>20 DEF PickInv


\* An empty list holds nothing.
LEMMA NothingListed == Range(<<>>) = {}
BY DEF Range

\* A row switched on, if it is the one named.
SwitchedOn(r, e) == IF r.id = e THEN [r EXCEPT !.enabled = TRUE] ELSE r

Switched(list, e) == [i \in DOMAIN list |-> SwitchedOn(list[i], e)]

\* It keeps its id and its key.
LEMMA SwitchedRow ==
  ASSUME NEW r \in StrategyRow, NEW e
  PROVE  /\ SwitchedOn(r, e) \in StrategyRow /\ SwitchedOn(r, e).id = r.id
         /\ Key(SwitchedOn(r, e)) = Key(r)
         /\ (r.enabled \/ r.id = e) => SwitchedOn(r, e).enabled
         /\ r.id # e => SwitchedOn(r, e) = r
<1>1. CASE r.id = e
  <2> DEFINE s == [r EXCEPT !.enabled = TRUE]
  <2>1. s \in StrategyRow /\ s.id = r.id /\ s.template = r.template /\ s.market = r.market /\ s.enabled
    BY DEF StrategyRow
  <2>2. SwitchedOn(r, e) = s
    BY <1>1 DEF SwitchedOn
  <2> HIDE DEF s
  <2> QED
    BY <1>1, <2>1, <2>2 DEF Key
<1>2. CASE r.id # e
  BY <1>2 DEF SwitchedOn
<1> QED
  BY <1>1, <1>2

\* The rows, one of them switched on.
LEMMA SwitchedRows ==
  ASSUME NEW list \in Seq(StrategyRow), IdsDiffer(list), NEW e,
         NEW out, out = Switched(list, e)
  PROVE  /\ out \in Seq(StrategyRow) /\ IdsDiffer(out)
         /\ \A r \in Range(list) : SwitchedOn(r, e) \in Range(out)
         /\ \A s \in Range(out) : \E r \in Range(list) : s = SwitchedOn(r, e)
<1>1. DOMAIN list = 1 .. Len(list) /\ Len(list) \in Nat
  OBVIOUS
<1>2. \A i \in DOMAIN list : list[i] \in StrategyRow
  OBVIOUS
<1>3. \A i \in DOMAIN list : SwitchedOn(list[i], e) \in StrategyRow /\ SwitchedOn(list[i], e).id = list[i].id
  BY <1>2, SwitchedRow
<1>4. out \in [1 .. Len(list) -> StrategyRow]
  BY <1>1, <1>3 DEF Switched
<1>5. out \in Seq(StrategyRow)
  BY <1>1, <1>4, FunctionIsList
<1>6. IdsDiffer(out)
  BY <1>3 DEF IdsDiffer, Switched
<1> QED
  BY <1>5, <1>6 DEF Range, Switched

\* A row recommended is switched on.
LEMMA EnableOneKeeps == ASSUME PickInv, EnableOne PROVE PickInv'
<1> DEFINE e == Head(applying.enable)
           rest == Tail(applying.enable)
<1>0. pickPending /\ applying.add = <<>> /\ applying.enable # <<>>
  BY DEF EnableOne
<1>1. /\ UnderWay
      /\ userRows \in Seq(StrategyRow) /\ IdsDiffer(userRows)
      /\ applying = [on |-> TRUE, add |-> applying.add, enable |-> applying.enable,
                     remove |-> applying.remove]
      /\ applying.add \in Seq(Listable) /\ applying.enable \in Seq(PickIds)
      /\ applying.remove \in Seq(PickIds)
  BY <1>0, ToDo
<1>2. rest \in Seq(PickIds) /\ Range(applying.enable) = {e} \cup Range(rest)
  BY <1>0, <1>1, HeadAndTail
<1>3. userRows' = Switched(userRows, e)
  BY DEF EnableOne, Switched, SwitchedOn
<1>4. /\ applying' = [applying EXCEPT !.enable = rest]
      /\ pageRows' = userRows' /\ panel' = panel /\ outcome' = outcome
  BY DEF EnableOne
<1> HIDE DEF e, rest
<1>5. /\ userRows' \in Seq(StrategyRow) /\ IdsDiffer(userRows')
      /\ \A r \in Range(userRows) : SwitchedOn(r, e) \in Range(userRows')
      /\ \A s \in Range(userRows') : \E r \in Range(userRows) : s = SwitchedOn(r, e)
  <2>1. PICK out : out = userRows'
    OBVIOUS
  <2>3. out = Switched(userRows, e)
    BY <1>3, <2>1
  <2>2. /\ out \in Seq(StrategyRow) /\ IdsDiffer(out)
        /\ \A r \in Range(userRows) : SwitchedOn(r, e) \in Range(out)
        /\ \A s \in Range(out) : \E r \in Range(userRows) : s = SwitchedOn(r, e)
    BY <1>1, <2>3, SwitchedRows
  <2> QED
    BY <2>1, <2>2
<1>6. \A r \in Range(userRows) :
        /\ SwitchedOn(r, e).id = r.id /\ Key(SwitchedOn(r, e)) = Key(r)
        /\ (r.enabled \/ r.id = e) => SwitchedOn(r, e).enabled
        /\ r.id # e => SwitchedOn(r, e) = r
  <2>1. \A r \in Range(userRows) : r \in StrategyRow
    BY <1>1 DEF Range
  <2> QED
    BY <2>1, SwitchedRow
<1>7. RowsOnPage'
  BY <1>4, <1>5 DEF RowsOnPage
<1>8. PanelOK'
  BY <1>4 DEF PickInv, PanelOK
<1>9. /\ applying'.add = <<>> /\ applying'.enable = rest /\ applying'.remove = applying.remove
      /\ applying' = [on |-> TRUE, add |-> applying.add, enable |-> rest, remove |-> applying.remove]
  <2>1. PICK ad, en, rm : applying = [on |-> TRUE, add |-> ad, enable |-> en, remove |-> rm]
    BY <1>1
  <2>2. applying' = [on |-> TRUE, add |-> ad, enable |-> rest, remove |-> rm]
    BY <1>4, <2>1
  <2> QED
    BY <1>0, <2>1, <2>2
<1>10. applying' \in [on : {TRUE}, add : Seq(Listable), enable : Seq(PickIds), remove : Seq(PickIds)]
  BY <1>1, <1>2, <1>9
<1>11. outcome' \in [ended : {"not yet"}, was : Seq(StrategyRow), recs : SUBSET Pairings,
                     replace : BOOLEAN, clean : BOOLEAN]
  BY <1>1, <1>4 DEF UnderWay
<1>12. IdsOf(userRows') = IdsOf(userRows)
  BY <1>5, <1>6 DEF IdsOf
<1>13. ASSUME NEW k \in outcome.recs PROVE InPlace(k)'
  <2>1. InPlace(k)
    BY <1>1 DEF UnderWay
  <2>2. PICK r \in Range(userRows) :
          /\ Key(r) = k /\ (r.enabled \/ r.id \in Range(applying.enable))
          /\ r.id \notin Range(applying.remove)
    BY <1>0, <2>1, NothingListed DEF InPlace
  <2> DEFINE s == SwitchedOn(r, e)
  <2>3. s \in Range(userRows') /\ s.id = r.id /\ Key(s) = k
    BY <1>5, <1>6, <2>2
  <2>4. s.enabled \/ s.id \in Range(rest)
    BY <1>2, <1>6, <2>2, <2>3
  <2> HIDE DEF s
  <2> QED
    BY <1>9, <2>2, <2>3, <2>4 DEF InPlace
<1>14. \A r \in Range(userRows) : r.id \in Range(applying.enable) => Key(r) \in outcome.recs
  BY <1>1 DEF UnderWay, Aims
<1>15. Aims'
  <2>1. \A s \in Range(userRows') : s.id \in Range(rest) => Key(s) \in outcome.recs
    BY <1>2, <1>5, <1>6, <1>14
  <2> QED
    BY <1>4, <1>9, <2>1, NothingListed DEF Aims
<1>16. Orderly'
  <2>1. \A r \in Range(outcome.was) : r.id \in IdsOf(userRows)
    BY <1>0, <1>1 DEF UnderWay, Orderly
  <2> QED
    BY <1>4, <1>12, <2>1 DEF Orderly
<1>17. Replaces'
  <2>1. Replaces
    BY <1>1 DEF UnderWay
  <2> QED
    BY <1>4, <1>5, <1>6, <1>9, <2>1 DEF Replaces
<1>18. Adds'
  <2>1. ~outcome.replace => /\ applying.remove = <<>>
                            /\ \A r \in Range(outcome.was) :
                                 Key(r) \notin outcome.recs => r \in Range(userRows)
    BY <1>1 DEF UnderWay, Adds
  <2>2. \A r \in Range(userRows) : Key(r) \notin outcome.recs => r \in Range(userRows')
    BY <1>2, <1>5, <1>6, <1>14
  <2> QED
    BY <1>4, <1>9, <2>1, <2>2 DEF Adds
<1>19. UnderWay'
  BY <1>4, <1>10, <1>11, <1>13, <1>15, <1>16, <1>17, <1>18 DEF UnderWay
<1> QED
  BY <1>7, <1>8, <1>19 DEF PickInv

\* The rows, one of them gone.
LEMMA RemovedRows ==
  ASSUME NEW list \in Seq(StrategyRow), IdsDiffer(list), NEW e,
         NEW out, out = Only(list, {r \in Range(list) : r.id # e})
  PROVE  /\ out \in Seq(StrategyRow) /\ IdsDiffer(out)
         /\ Range(out) = {r \in Range(list) : r.id # e}
<1> DEFINE X == {r \in Range(list) : r.id # e}
<1>1. Range(list) \cap X = X
  OBVIOUS
<1>2. out = Only(list, X)
  OBVIOUS
<1>3. IsInjective(list)
  BY DEF IdsDiffer, IsInjective
<1>4. X \subseteq Range(list)
  OBVIOUS
<1> HIDE DEF X
<1>5. out \in Seq(StrategyRow) /\ Range(out) = X
  <2>1. Only(list, X) \in Seq(StrategyRow) /\ Range(Only(list, X)) = Range(list) \cap X
    BY OnlyKeeps
  <2> QED
    BY <1>1, <1>2, <2>1
<1>6. IsInjective(out)
  BY <1>2, <1>3, OnlyDiffers
<1>7. IdsDiffer(out)
  <2>1. ASSUME NEW i \in DOMAIN out, NEW j \in DOMAIN out, out[i].id = out[j].id PROVE i = j
    <3>1. out[i] \in Range(list) /\ out[j] \in Range(list)
      BY <1>4, <1>5 DEF Range
    <3>2. out[i] = out[j]
      BY <2>1, <3>1, SameRow
    <3> QED
      BY <1>6, <3>2 DEF IsInjective
  <2> QED
    BY <2>1 DEF IdsDiffer
<1> QED
  BY <1>5, <1>7 DEF X

\* A row not recommended is removed.
LEMMA RemoveOneKeeps == ASSUME PickInv, RemoveOne PROVE PickInv'
<1> DEFINE e == Head(applying.remove)
           rest == Tail(applying.remove)
<1>0. pickPending /\ applying.add = <<>> /\ applying.enable = <<>> /\ applying.remove # <<>>
  BY DEF RemoveOne
<1>1. /\ UnderWay
      /\ userRows \in Seq(StrategyRow) /\ IdsDiffer(userRows)
      /\ applying = [on |-> TRUE, add |-> applying.add, enable |-> applying.enable,
                     remove |-> applying.remove]
      /\ applying.add \in Seq(Listable) /\ applying.enable \in Seq(PickIds)
      /\ applying.remove \in Seq(PickIds)
  BY <1>0, ToDo
<1>2. rest \in Seq(PickIds) /\ Range(applying.remove) = {e} \cup Range(rest)
  BY <1>0, <1>1, HeadAndTail
<1>3. userRows' = Only(userRows, {r \in Range(userRows) : r.id # e})
  BY DEF RemoveOne, Removes
<1>4. /\ applying' = [applying EXCEPT !.remove = rest]
      /\ pageRows' = userRows' /\ panel' = panel /\ outcome' = outcome
  BY DEF RemoveOne, Removes
<1> HIDE DEF e, rest
<1>5. /\ userRows' \in Seq(StrategyRow) /\ IdsDiffer(userRows')
      /\ Range(userRows') = {r \in Range(userRows) : r.id # e}
  <2>1. PICK out : out = userRows'
    OBVIOUS
  <2>2. /\ out \in Seq(StrategyRow) /\ IdsDiffer(out)
        /\ Range(out) = {r \in Range(userRows) : r.id # e}
    BY <1>1, <1>3, <2>1, RemovedRows
  <2> QED
    BY <2>1, <2>2
<1>6. RowsOnPage'
  BY <1>4, <1>5 DEF RowsOnPage
<1>7. PanelOK'
  BY <1>4 DEF PickInv, PanelOK
<1>8. /\ applying'.add = <<>> /\ applying'.enable = <<>> /\ applying'.remove = rest
      /\ applying' = [on |-> TRUE, add |-> applying.add, enable |-> applying.enable, remove |-> rest]
  <2>1. PICK ad, en, rm : applying = [on |-> TRUE, add |-> ad, enable |-> en, remove |-> rm]
    BY <1>1
  <2>2. applying' = [on |-> TRUE, add |-> ad, enable |-> en, remove |-> rest]
    BY <1>4, <2>1
  <2> QED
    BY <1>0, <2>1, <2>2
<1>9. applying' \in [on : {TRUE}, add : Seq(Listable), enable : Seq(PickIds), remove : Seq(PickIds)]
  BY <1>1, <1>2, <1>8
<1>10. outcome' \in [ended : {"not yet"}, was : Seq(StrategyRow), recs : SUBSET Pairings,
                     replace : BOOLEAN, clean : BOOLEAN]
  BY <1>1, <1>4 DEF UnderWay
<1>11. ASSUME NEW k \in outcome.recs PROVE InPlace(k)'
  <2>1. InPlace(k)
    BY <1>1 DEF UnderWay
  <2>2. PICK r \in Range(userRows) : Key(r) = k /\ r.enabled /\ r.id \notin Range(applying.remove)
    BY <1>0, <2>1, NothingListed DEF InPlace
  <2>3. r \in Range(userRows') /\ r.id \notin Range(rest)
    BY <1>2, <1>5, <2>2
  <2> QED
    BY <1>8, <2>2, <2>3 DEF InPlace
<1>12. Aims'
  BY <1>4, <1>8, NothingListed DEF Aims
<1>13. Orderly'
  BY <1>8 DEF Orderly
<1>14. Replaces'
  <2>1. Replaces
    BY <1>1 DEF UnderWay
  <2> QED
    BY <1>2, <1>4, <1>5, <1>8, <2>1 DEF Replaces
<1>15. Adds'
  <2>1. outcome.replace
    BY <1>0, <1>1 DEF UnderWay, Adds
  <2> QED
    BY <1>4, <2>1 DEF Adds
<1>16. UnderWay'
  BY <1>4, <1>9, <1>10, <1>11, <1>12, <1>13, <1>14, <1>15 DEF UnderWay
<1> QED
  BY <1>6, <1>7, <1>16 DEF PickInv

\* An application is complete: what it promised holds.
LEMMA AppliedKeeps == ASSUME PickInv, Applied PROVE PickInv'
<1>0. /\ pickPending /\ applying.add = <<>> /\ applying.enable = <<>> /\ applying.remove = <<>>
      /\ applying' = Idle /\ panel' = [open |-> FALSE, answers |-> <<>>]
      /\ outcome' = [outcome EXCEPT !.ended = "done"]
      /\ userRows' = userRows /\ pageRows' = pageRows
  BY DEF Applied
<1>1. UnderWay
  BY <1>0, ToDo
<1>2. RowsOnPage'
  BY <1>0 DEF PickInv, RowsOnPage
<1>3. PanelOK'
  <2> DEFINE none == <<>>
  <2>1. none \in Seq(0 .. 2) /\ Len(none) <= 3
    OBVIOUS
  <2>2. panel' = [open |-> FALSE, answers |-> none]
    BY <1>0
  <2> HIDE DEF none
  <2> QED
    BY <2>1, <2>2 DEF PanelOK
<1>4. /\ outcome'.ended = "done" /\ outcome'.was = outcome.was /\ outcome'.recs = outcome.recs
      /\ outcome'.replace = outcome.replace /\ outcome'.clean = outcome.clean
  BY <1>0, <1>1 DEF UnderWay
<1> DEFINE now == {[k |-> Key(r), on |-> r.enabled] : r \in Range(userRows)}
<1>5. \A k \in outcome.recs : \E r \in Range(userRows) : Key(r) = k /\ r.enabled
  BY <1>0, <1>1, NothingListed DEF UnderWay, InPlace
<1>6. \A r \in Range(userRows) : r.enabled \in BOOLEAN
  <2>1. \A r \in Range(userRows) : r \in StrategyRow
    BY DEF PickInv, RowsOnPage, Range
  <2> QED
    BY <2>1 DEF StrategyRow
<1>7. \A k \in outcome.recs : [k |-> k, on |-> TRUE] \in now
  BY <1>5, <1>6
<1>8. outcome.replace /\ outcome.clean => {r.k : r \in now} = outcome.recs
  <2>3. \A r \in now : \E s \in Range(userRows) : r.k = Key(s)
    OBVIOUS
  <2>4. ASSUME NEW s \in Range(userRows) PROVE \E r \in now : r.k = Key(s)
    <3> DEFINE v == [k |-> Key(s), on |-> s.enabled]
    <3>1. v \in now /\ v.k = Key(s)
      OBVIOUS
    <3> HIDE DEF v, now
    <3> QED
      BY <3>1
  <2>1. {r.k : r \in now} = {Key(r) : r \in Range(userRows)}
    <3> HIDE DEF now
    <3> QED
      BY <2>3, <2>4
  <2>2. outcome.replace /\ outcome.clean => \A r \in Range(userRows) : Key(r) \in outcome.recs
    BY <1>0, <1>1, NothingListed DEF UnderWay, Replaces
  <2> HIDE DEF now
  <2> QED
    BY <1>5, <2>1, <2>2
<1>9. ~outcome.replace => \A r \in Range(outcome.was) :
                            Key(r) \notin outcome.recs => r \in Range(userRows)
  BY <1>1 DEF UnderWay, Adds
<1>10. AppliedAsRecommended'
  BY <1>0, <1>4, <1>7, <1>8, <1>9 DEF AppliedAsRecommended
<1>11. NeverLeftWithout'
  BY <1>4 DEF NeverLeftWithout
<1> QED
  BY <1>0, <1>2, <1>3, <1>4, <1>10, <1>11 DEF PickInv

\* An application under way has left everything in place, or put everything in place.
LEMMA NotLeftWithout ==
  ASSUME UnderWay
  PROVE  \/ \A r \in Range(outcome.was) : \E s \in Range(userRows) : s.id = r.id
         \/ \A k \in outcome.recs : \E s \in Range(userRows) : Key(s) = k /\ s.enabled
<1>1. CASE \A r \in Range(outcome.was) : r.id \in IdsOf(userRows)
  BY <1>1 DEF IdsOf
<1>2. CASE applying.add = <<>> /\ applying.enable = <<>>
  BY <1>2, NothingListed DEF UnderWay, InPlace
<1> QED
  BY <1>1, <1>2 DEF UnderWay, Orderly

\* An application that fails stops where it is.
LEMMA ApplyFailsKeeps == ASSUME PickInv, ApplyFails PROVE PickInv'
<1>0. /\ pickPending /\ applying' = Idle /\ outcome' = [outcome EXCEPT !.ended = "failed"]
      /\ userRows' = userRows /\ pageRows' = pageRows /\ panel' = panel
  BY DEF ApplyFails
<1>1. UnderWay
  BY <1>0, ToDo
<1>2. RowsOnPage' /\ PanelOK'
  BY <1>0 DEF PickInv, RowsOnPage, PanelOK
<1>3. outcome'.ended = "failed" /\ outcome'.was = outcome.was /\ outcome'.recs = outcome.recs
  BY <1>0, <1>1 DEF UnderWay
<1>4. AppliedAsRecommended'
  BY <1>3 DEF AppliedAsRecommended
<1>5. NeverLeftWithout'
  BY <1>0, <1>1, <1>3, NotLeftWithout DEF NeverLeftWithout
<1> QED
  BY <1>0, <1>2, <1>3, <1>4, <1>5 DEF PickInv

\* No step of the automatic pick leaves the invariant.
LEMMA PickSteps == ASSUME PickInv, [ANext]_pickVars PROVE PickInv'
<1>1. CASE UNCHANGED pickVars
  <2>1. PanelOK' /\ UNCHANGED PickParts
    <3>1. /\ userRows' = userRows /\ pageRows' = pageRows /\ panel' = panel
          /\ applying' = applying /\ outcome' = outcome
      BY <1>1 DEF pickVars
    <3> QED
      BY <3>1 DEF PickInv, PanelOK, PickParts
  <2> QED
    BY <2>1, PanelAside
<1>2. CASE ANext
  BY <1>2, PanelClicks, ApplicationStarts, AddOneKeeps, EnableOneKeeps, RemoveOneKeeps,
     AppliedKeeps, ApplyFailsKeeps DEF ANext
<1> QED
  BY <1>1, <1>2

\* What the automatic pick promises, in any state of it.
LEMMA PickHonest ==
  ASSUME PickInv
  PROVE  ATypeOK /\ AppliedAsRecommended /\ NeverLeftWithout
<1>1. userRows \in Seq(StrategyRow) /\ IdsDiffer(userRows)
  BY DEF PickInv, RowsOnPage
<1>2. \A r \in Range(userRows) : r \in StrategyRow /\ r.id \in PickIds
  <2>1. \A r \in Range(userRows) : r \in StrategyRow
    BY <1>1 DEF Range
  <2> QED
    BY <2>1 DEF StrategyRow
<1>3. Len(userRows) = Cardinality({r.id : r \in Range(userRows)})
  <2> DEFINE D == DOMAIN userRows
             I == {r.id : r \in Range(userRows)}
             f == [i \in D |-> userRows[i].id]
  <2>1. D = 1 .. Len(userRows) /\ Len(userRows) \in Nat
    BY <1>1
  <2>2. IsFiniteSet(D) /\ Cardinality(D) = Len(userRows)
    <3>1. 1 \in Int /\ Len(userRows) \in Int
      BY <2>1
    <3>2. IsFiniteSet(1 .. Len(userRows))
          /\ Cardinality(1 .. Len(userRows)) = IF 1 > Len(userRows) THEN 0 ELSE Len(userRows) - 1 + 1
      BY <3>1, FS_Interval
    <3> QED
      BY <2>1, <3>2
  <2>3. f \in [D -> I] /\ \A x \in I : \E i \in D : f[i] = x
    BY DEF Range
  <2>4. \A i, j \in D : f[i] = f[j] => i = j
    BY <1>1 DEF IdsDiffer
  <2> HIDE DEF D, I, f
  <2>5. f \in Surjection(D, I) /\ f \in Injection(D, I)
    BY <2>3, <2>4 DEF Surjection, Injection, IsInjective
  <2>6. Cardinality(I) = Cardinality(D)
    BY <2>2, <2>5, FS_Surjection
  <2> QED
    BY <2>2, <2>6 DEF I
<1>4. Len(panel.answers) <= QuestionCount
  BY DEF PickInv, PanelOK, QuestionCount
<1>5. ASSUME pickPending
      PROVE  /\ Range(applying.add) \subseteq [template : ACTIVE_TEMPLATES, market : Markets]
             /\ Range(applying.enable \o applying.remove) \subseteq PickIds
  <2>1. /\ applying.add \in Seq(Listable) /\ applying.enable \in Seq(PickIds)
        /\ applying.remove \in Seq(PickIds)
    BY <1>5, ToDo
  <2>2. Range(applying.add) \subseteq Listable
    BY <2>1 DEF Range
  <2>3. applying.enable \o applying.remove \in Seq(PickIds)
    BY <2>1
  <2>4. Range(applying.enable \o applying.remove) \subseteq PickIds
    <3> DEFINE s == applying.enable \o applying.remove
    <3>1. s \in Seq(PickIds)
      BY <2>3
    <3> HIDE DEF s
    <3>2. Range(s) \subseteq PickIds
      BY <3>1 DEF Range
    <3> QED
      BY <3>2 DEF s
  <2> QED
    BY <2>2, <2>4 DEF Listable
<1>6. ATypeOK
  BY <1>2, <1>3, <1>4, <1>5 DEF ATypeOK
<1>7. AppliedAsRecommended /\ NeverLeftWithout
  <2>1. CASE UnderWay
    <3>1. outcome.ended = "not yet"
      BY <2>1 DEF UnderWay
    <3> QED
      BY <2>1, <3>1, NotLeftWithout DEF AppliedAsRecommended, NeverLeftWithout
  <2> QED
    BY <2>1 DEF PickInv
<1> QED
  BY <1>6, <1>7

\* The pick starts with nothing under way.
LEMMA PickStarts == ASSUME AInit PROVE PickInv
<1>1. /\ userRows \in FirstRows /\ pageRows = userRows /\ applying = Idle
      /\ panel = [open |-> FALSE, answers |-> <<>>] /\ outcome = [ended |-> "never"]
  BY DEF AInit
<1>2. RowsOnPage
  BY <1>1, PickAssumption DEF RowsOnPage, IdsDiffer
<1>3. PanelOK
  <2> DEFINE none == <<>>
  <2>1. none \in Seq(0 .. 2) /\ Len(none) <= 3
    OBVIOUS
  <2>2. panel = [open |-> FALSE, answers |-> none]
    BY <1>1
  <2> HIDE DEF none
  <2> QED
    BY <2>1, <2>2 DEF PanelOK
<1>4. outcome.ended = "never"
  BY <1>1
<1>5. AppliedAsRecommended /\ NeverLeftWithout
  BY <1>4 DEF AppliedAsRecommended, NeverLeftWithout
<1> QED
  BY <1>1, <1>2, <1>3, <1>4, <1>5 DEF PickInv

\* The inductive invariant of the comparison: what it ranks is of the range selected, and what
\* it adds is covered by the ticks and the failures (components/StrategyFinder.tsx).
THEOREM FindInvariant == StudioSpec => []FindInv
<1>1. StudioInit => FindInv
  BY FindStarts DEF StudioInit
<1>2. FindInv /\ [StudioNext]_studioVars => FindInv'
  <2>1. [StudioNext]_studioVars => [FIND!FNext]_findVars
    BY DEF StudioNext, studioVars
  <2> QED
    BY <2>1, FindSteps
<1> QED
  BY <1>1, <1>2, PTL DEF StudioSpec

\* The inductive invariant of the automatic pick: every strategy recommended is still to be
\* added or has a row that stays, and no row goes before all are there
\* (components/StrategyAutoPick.tsx).
THEOREM PickInvariant == StudioSpec => []PickInv
<1>1. StudioInit => PickInv
  BY PickStarts DEF StudioInit
<1>2. PickInv /\ [StudioNext]_studioVars => PickInv'
  <2>1. [StudioNext]_studioVars => [ANext]_pickVars
    BY DEF StudioNext, studioVars
  <2> QED
    BY <2>1, PickSteps
<1> QED
  BY <1>1, <1>2, PTL DEF StudioSpec

\* The answers of the quiz are options of its questions.
THEOREM QuizInvariant == StudioSpec => []QuizInv
<1>1. StudioInit => QuizInv
  BY DEF StudioInit, QUIZ!QuizInit, QuizInv
<1>2. QuizInv /\ [StudioNext]_studioVars => QuizInv'
  <2>1. [StudioNext]_studioVars => [QUIZ!QuizNext]_quizAnswers
    BY DEF StudioNext, studioVars
  <2> QED
    BY <2>1, QuizSteps
<1> QED
  BY <1>1, <1>2, PTL DEF StudioSpec

\* The quiz shows the best match, the pick leaves the user with what it recommended or with
\* what there was, and the comparison ranks and adds what its results say: for any scores,
\* results, rows, number of clicks and failures.
THEOREM AdviceHonestCorrect == StudioSpec => []AdviceHonest
<1>1. ASSUME QuizInv, PickInv, FindInv PROVE AdviceHonest
  <2>1. QUIZ!MatchIsBest
    BY <1>1, MatchIsBestIn
  <2>2. ATypeOK /\ AppliedAsRecommended /\ NeverLeftWithout
    BY <1>1, PickHonest
  <2>3. FIND!FTypeOK /\ FIND!RankingIsOfRange /\ FIND!AddedAsTicked
    BY <1>1, FindHonest
  <2> QED
    BY <2>1, <2>2, <2>3 DEF AdviceHonest
<1>2. QuizInv /\ PickInv /\ FindInv => AdviceHonest
  BY <1>1
<1> QED
  BY <1>2, QuizInvariant, PickInvariant, FindInvariant, PTL
=============================================================================
