----------------------------- MODULE Simulator -----------------------------
(***************************************************************************)
(* The replay behind every preview of the web app (lib/strategy-sim.ts): a *)
(* template walks over candles one close at a time, enters on its rule     *)
(* when flat and leaves by stop, target, trail, time or signal; the result *)
(* is split into folds, and the same candles feed the recurring-buy        *)
(* simulation. Candles arrive one per step, so every prefix is an answer.  *)
(***************************************************************************)
EXTENDS CustomRules

CONSTANTS
    SimTemplates,  \* templates replayed
    SimParams,     \* template -> parameter sets that may be tried, in thousandths
    SimExits,      \* built-in template -> [stop, target, trail, atr, hold], in thousandths
    Candles,       \* template -> the candles that may come next
    Length,        \* template -> number of candles
    Friction,      \* cost of a round trip, a fraction
    BuyKeep,       \* share of a recurring buy left after friction, a fraction
    Folds          \* folds asked for

\* Values a parameter may have: periods of a bar or more, bands and margins not negative. The
\* two regimes that are off at 0 are no more than numbers here.
PERIODS == {"period", "lookback", "fast", "slow", "signal", "confirm_bars", "slope_bars", "within",
            "atr_period", "vol_period", "bb_period", "squeeze_lookback", "breakout_lookback",
            "short_atr", "long_atr", "tenkan", "kijun", "senkou_b", "entry_lookback", "exit_lookback"}
MARGINS == {"band", "k_atr", "buffer"}
ParamOK(t, key, v) ==
    /\ v \in Int
    /\ key \in PERIODS \/ (key = "regime_period" /\ t \notin {"bb_breakout", "donchian_trend"}) => v >= 1000
    /\ key \in MARGINS \/ (key = "k" /\ t = "bb_reversion") => v >= 0

\* And a field of a block.
BlockOK(r) ==
    /\ r.kind \in Kinds /\ DOMAIN r.f = {s.key : s \in RULE_SPEC[r.kind].fields}
    /\ \A s \in RULE_SPEC[r.kind].fields :
          IF "options" \in DOMAIN s THEN r.f[s.key] \in s.options
          ELSE /\ r.f[s.key] \in Int
               /\ s.int => r.f[s.key] >= 1000
               /\ s.key = "k" => r.f[s.key] > 0

IsShare(x) == x \in Int \X (Nat \ {0})

ASSUME SimulatorAssumption ==
    /\ SimTemplates \subseteq BUILTIN_TEMPLATES \cup {"custom"}
    /\ \A t \in SimTemplates :
          /\ \A c \in Candles[t] :
                {c.l, c.c, c.h} \subseteq Nat \ {0} /\ c.v \in Nat /\ c.l <= c.c /\ c.c <= c.h
          /\ Length[t] \in Nat \ {0}
          /\ t # "custom" => SimExits[t].hold \in Nat
          /\ t # "custom" => \A p \in SimParams[t] :
                \A key \in DOMAIN TEMPLATE_CONFIG[t].params \ {"expected_move_pct"} : ParamOK(t, key, p[key])
    /\ "custom" \in SimTemplates => \A d \in SimParams["custom"] :
          /\ d.rules \in Seq(Range(d.rules)) /\ \A k \in DOMAIN d.rules : BlockOK(d.rules[k])
          /\ d.exits.atr \in Int /\ d.exits.hold \in Nat
    /\ Folds \in Nat \ {0} /\ IsShare(Friction) /\ IsShare(BuyKeep) /\ BuyKeep[1] > 0

VARIABLES
    tpl,        \* the template
    tuning,     \* its parameters: only sets the cross-field rules accept are simulated
    bars,       \* candles replayed so far
    inPos,      \* a position is open
    entryIdx,   \* its bar
    peak,       \* highest close since
    barsInPos,  \* bars counted as exposure
    trades      \* closed trades

simVars == <<tpl, tuning, bars, inPos, entryIdx, peak, barsInPos, trades>>

\* A template's exits, or those of the user's own definition.
exits == IF tpl = "custom" THEN tuning.exits ELSE SimExits[tpl]


-----------------------------------------------------------------------------
(* The rules asked: a template's, or a user's own, which has no signal to leave on *)

canEnter(b) == IF tpl = "custom" THEN customEntryAt(tuning, b) ELSE ENTRY(tpl, b, tuning)
canExitSignal(b) == tpl # "custom" /\ EXIT_SIGNAL(tpl, b, tuning)

-----------------------------------------------------------------------------
(* The exit of one bar: the first reason that applies *)

Stops(b, entry) == 1000 * b[Len(b)].c <= b[entry].c * (1000 - exits.stop)
Targets(b, entry) == exits.target > 0 /\ 1000 * b[Len(b)].c >= b[entry].c * (1000 + exits.target)
Trails(b, high) ==
    /\ exits.trail > 0 /\ HasAtr(Len(b), Periods(exits.atr))
    /\ AtMost(Whole1(b[Len(b)].c),
              Minus(Whole1(high), Times(Milli(exits.trail), atr(b, Len(b), Periods(exits.atr)))))
\* Mutant of OutOfTime: one bar late.
OutOfTimeLate(b, entry) == exits.hold > 0 /\ Len(b) - entry > exits.hold
OutOfTime(b, entry) == exits.hold > 0 /\ Len(b) - entry >= exits.hold

exitReason(b, entry, high) ==
    CASE Stops(b, entry) -> "stop"
      [] ~Stops(b, entry) /\ Targets(b, entry) -> "target"
      [] ~Stops(b, entry) /\ ~Targets(b, entry) /\ Trails(b, high) -> "trail"
      [] OTHER -> IF OutOfTime(b, entry) THEN "time"
                  ELSE IF canExitSignal(b) THEN "signal" ELSE "none"

-----------------------------------------------------------------------------
(* The replay *)

SimInit ==
    /\ tpl \in SimTemplates
    /\ tuning \in {p \in SimParams[tpl] : ~paramRuleError(tpl, p)}   \* a definition for "custom"
    /\ \E c \in Candles[tpl] : bars = <<c>>
    /\ inPos = FALSE /\ entryIdx = 0 /\ peak = 0 /\ barsInPos = 0 /\ trades = <<>>

\* The next candle closes and is looked at once.
Next1(c) == Len(bars) < Length[tpl] /\ bars' = Append(bars, c) /\ UNCHANGED <<tpl, tuning>>

Enter(c) ==
    /\ ~inPos /\ Next1(c) /\ canEnter(bars')
    /\ inPos' = TRUE /\ entryIdx' = Len(bars') /\ peak' = c.c /\ barsInPos' = barsInPos + 1
    /\ UNCHANGED trades

Wait(c) ==
    /\ ~inPos /\ Next1(c) /\ ~canEnter(bars')
    /\ UNCHANGED <<inPos, entryIdx, peak, barsInPos, trades>>

Hold(c) ==
    /\ inPos /\ Next1(c)
    /\ peak' = Max({peak, c.c})
    /\ exitReason(bars', entryIdx, peak') = "none"
    /\ barsInPos' = barsInPos + 1
    /\ UNCHANGED <<inPos, entryIdx, trades>>

\* Mutant of Leave: the bar of the exit counts as held.
LeaveCounted(c) ==
    /\ inPos /\ Next1(c)
    /\ LET reason == exitReason(bars', entryIdx, Max({peak, c.c}))
       IN /\ reason # "none"
          /\ trades' = Append(trades, [entry |-> entryIdx, exit |-> Len(bars'), reason |-> reason])
    /\ inPos' = FALSE /\ entryIdx' = 0 /\ peak' = 0 /\ barsInPos' = barsInPos + 1
Leave(c) ==
    /\ inPos /\ Next1(c)
    /\ LET reason == exitReason(bars', entryIdx, Max({peak, c.c}))
       IN /\ reason # "none"
          /\ trades' = Append(trades, [entry |-> entryIdx, exit |-> Len(bars'), reason |-> reason])
    /\ inPos' = FALSE /\ entryIdx' = 0 /\ peak' = 0
    /\ UNCHANGED barsInPos

SimNext == \E c \in Candles[tpl] : Enter(c) \/ Wait(c) \/ Hold(c) \/ Leave(c)
SimSpec == SimInit /\ [][SimNext]_simVars

-----------------------------------------------------------------------------
(* The result *)

netOf(t) == Minus(Frac(bars[t.exit].c, bars[t.entry].c), Plus(Whole1(1), Friction))

\* What the trades at the places T compound to.
Growth(T) == ProductOfFractions([k \in T |-> Plus(Whole1(1), netOf(trades[k]))], T)

\* Folds: equal consecutive windows; a trade belongs to the window of its entry.
foldCount(n) == Max({1, Min({Folds, Max({1, n \div 2})})})
\* Mutant of FoldTrades: only trades that also end in the window.
FoldByExit(f) ==
    LET n == Len(bars)
        k == foldCount(n)
    IN {i \in DOMAIN trades : trades[i].entry > (f * n) \div k /\ trades[i].exit <= ((f + 1) * n) \div k}
FoldTrades(f) ==
    LET n == Len(bars)
        k == foldCount(n)
    IN {i \in DOMAIN trades : trades[i].entry > (f * n) \div k /\ trades[i].entry <= ((f + 1) * n) \div k}

foldNet(f) == Growth(FoldTrades(f))
FoldIds == 0..(foldCount(Len(bars)) - 1)

-----------------------------------------------------------------------------
(* Recurring buys: one unit of money at every step-th close, from the first *)

Buys(step) == {i \in 1..Len(bars) : (i - 1) % step = 0}
Units(step) == SumOfFractions([i \in Buys(step) |-> Times(BuyKeep, Frac(1, bars[i].c))], Buys(step))
\* Mutant of Invested: every bar counts as a contribution.
InvestedPerBar(step) == Len(bars)
Invested(step) == Cardinality(Buys(step))
avgCost(step) ==
    LET u == Units(step) IN Times(Whole1(Invested(step)), <<u[2], u[1]>>)

-----------------------------------------------------------------------------
(* Properties *)

SimTypeOK ==
    /\ tpl \in SimTemplates /\ Len(bars) \in 1..Length[tpl]
    /\ inPos \in BOOLEAN /\ entryIdx \in 0..Len(bars) /\ peak \in Nat /\ barsInPos \in 0..Len(bars)
    /\ \A k \in DOMAIN trades : trades[k].entry \in 2..trades[k].exit

\* Whenever a template enters, the level its chart draws is there and the close is over it:
\* "the price levels each template actually watches, so the chart explains the entries"
\* (strategy-sim.ts overlays).
OverlayExplains ==
    canEnter(bars) =>
        IF tpl = "custom" THEN \A s \in customOverlays(tuning) : Len(bars) >= s.bars
        ELSE Drawn(tpl, Len(bars), tuning) /\ OverLevel(tpl, bars, tuning)

\* No bar satisfies a template's entry and its exit: what is entered on a close is not left
\* on the signal of that same close, for any parameters the gate accepts.
EntryExcludesExit == ~(canEnter(bars) /\ canExitSignal(bars))

\* The exposure is the time the positions were held, trades follow one another without
\* sharing a bar, and none outlives the longest hold.
ExposureIsHolding ==
    LET held == [k \in DOMAIN trades |-> trades[k].exit - trades[k].entry]
        open == IF inPos THEN Len(bars) - entryIdx + 1 ELSE 0
    IN /\ barsInPos = MapThenSumSet(LAMBDA k : held[k], DOMAIN trades) + open
       /\ \A k \in 1..(Len(trades) - 1) : trades[k].exit < trades[k + 1].entry
       /\ inPos /\ trades # <<>> => trades[Len(trades)].exit < entryIdx
       /\ exits.hold > 0 =>
            /\ \A k \in DOMAIN trades : held[k] <= exits.hold
            /\ inPos => Len(bars) - entryIdx < exits.hold

\* Every trade is scored in one fold and in no other, and the folds compound to the total.
FoldsPartition ==
    /\ SumOver([f \in FoldIds |-> Cardinality(FoldTrades(f))], FoldIds) = Len(trades)
    /\ ProductOfFractions([f \in FoldIds |-> foldNet(f)], FoldIds) = Growth(DOMAIN trades)

\* What recurring buys cost on average is one of the prices paid or between two of them,
\* friction added.
AvgCostIsAPrice ==
    \A step \in 1..3 :
        LET kept == Times(avgCost(step), BuyKeep)
            paid == {bars[i].c : i \in Buys(step)}
        IN AtMost(Whole1(Min(paid)), kept) /\ AtMost(kept, Whole1(Max(paid)))

\* The builder's evaluator and the bot's answer alike on every history once the indicators
\* are warm: "what users see while building is what trades" (custom.py, custom-strategy.ts).
LockStep ==
    tpl = "custom" /\ Len(bars) >= customWarmup(tuning) =>
        customEntryAt(tuning, bars) = decide(tuning, bars)

=============================================================================
