---------------------------- MODULE CustomRules ----------------------------
(***************************************************************************)
(* User-built strategies (lib/custom-strategy.ts): the catalog of rule     *)
(* blocks, the evaluator of the browser, the gate every definition passes, *)
(* and what the bot makes of a stored definition (worker/config_gen.py,    *)
(* bot/strategies/custom.py). Numbers are in thousandths of the unit the   *)
(* field shows; exits are in thousandths of the price.                     *)
(***************************************************************************)
EXTENDS Signals, SequencesExt, Lists

CONSTANT MAX_RULES    \* blocks a definition may have (8 in the code)

ASSUME MaxRulesAssumption == MAX_RULES \in Nat \ {0}

-----------------------------------------------------------------------------
(* The catalog *)

Choice(key, options) == [key |-> key, options |-> options]
OP_ABOVE_BELOW == {"above", "below"}

\* A kind of block: its fields, and the values a new one starts with.
BlockKind(fields, defaults) == [fields |-> fields, defaults |-> defaults]
trendKind == BlockKind({Choice("op", OP_ABOVE_BELOW), Whole("period", 5, 400)},
                       [op |-> "above", period |-> 96000])
smaCrossKind == BlockKind({Whole("fast", 2, 200), Whole("slow", 5, 400), Whole("within", 1, 20)},
                          [fast |-> 20000, slow |-> 50000, within |-> 3000])
rsiKind == BlockKind({Whole("period", 2, 50), Choice("op", OP_ABOVE_BELOW), Real("value", 1000, 99000)},
                     [period |-> 14000, op |-> "below", value |-> 30000])
breakoutKind == BlockKind({Whole("lookback", 5, 200), Real("buffer", 0, 2000)},
                          [lookback |-> 20000, buffer |-> 200])
bollingerKind == BlockKind({Choice("band", {"below_lower", "above_upper"}), Whole("period", 5, 100), Real("k", 1000, 4000)},
                           [band |-> "below_lower", period |-> 20000, k |-> 2000])
volumeKind == BlockKind({Real("mult", 1000, 10000), Whole("period", 5, 100)},
                        [mult |-> 1500, period |-> 20000])
volatilityKind == BlockKind({Whole("period", 2, 50), Choice("op", OP_ABOVE_BELOW), Real("value", 50, 10000)},
                            [period |-> 14000, op |-> "above", value |-> 500])
changeKind == BlockKind({Whole("lookback", 1, 200), Choice("op", OP_ABOVE_BELOW), Real("value", -50000, 50000)},
                        [lookback |-> 10000, op |-> "above", value |-> 2000])
confirmKind == BlockKind({}, NoParams)
RULE_SPEC ==
    [trend |-> trendKind, sma_cross |-> smaCrossKind, rsi |-> rsiKind, breakout |-> breakoutKind,
     bollinger |-> bollingerKind, volume |-> volumeKind, volatility |-> volatilityKind,
     change |-> changeKind, confirm |-> confirmKind]

Kinds == DOMAIN RULE_SPEC
newRule(kind) == [kind |-> kind, f |-> RULE_SPEC[kind].defaults]
DEFAULT_EXITS == [stop |-> 30, target |-> 50, trail |-> 0, atr |-> 14000, hold |-> 0]
defaultCustomDef ==
    [rules |-> <<newRule("trend"), newRule("rsi"), newRule("confirm")>>, exits |-> DEFAULT_EXITS]

-----------------------------------------------------------------------------
(* The browser's evaluator: a rule at the last bar of b *)

Side(op, x, y) == IF op = "above" THEN Less(y, x) ELSE Less(x, y)

CrossedUp(b, e, fast, slow) ==
    /\ e - 1 >= Max({fast, slow})
    /\ AtMost(sma(b, e - 1, fast), sma(b, e - 1, slow)) /\ Less(sma(b, e, slow), sma(b, e, fast))

trendRule(f, b) ==
    /\ Len(b) >= Periods(f.period)
    /\ Side(f.op, Whole1(b[Len(b)].c), sma(b, Len(b), Periods(f.period)))
smaCrossRule(f, b) ==
    \E j \in 0..(Periods(f.within) - 1) : CrossedUp(b, Len(b) - j, Periods(f.fast), Periods(f.slow))
rsiRule(f, b) ==
    Len(b) > Periods(f.period) /\ Side(f.op, rsi(b, Len(b), Periods(f.period)), Milli(f.value))
\* Mutant of breakoutRule: the bar that breaks out counts among those it must exceed.
BreakoutOfItself(f, b) ==
    /\ Len(b) > Periods(f.lookback)
    /\ AtMost(Times(Milli(100000 + f.buffer), Frac(Max({b[i].h : i \in DOMAIN b}), 100)),
              Whole1(b[Len(b)].c))
breakoutRule(f, b) ==
    /\ Len(b) > Periods(f.lookback)
    /\ AtMost(Times(Milli(100000 + f.buffer), Frac(priorHigh(b, Len(b), Periods(f.lookback)), 100)),
              Whole1(b[Len(b)].c))
bollingerRule(f, b) ==
    LET n == Periods(f.period) IN
    /\ Len(b) >= n /\ Less(Whole1(0), variance(b, Len(b), n))
    /\ IF f.band = "below_lower" THEN UnderBand(b, n, -f.k) ELSE OverBand(b, n, f.k)
volumeRule(f, b) ==
    /\ Len(b) > Periods(f.period)
    /\ AtMost(Times(Milli(f.mult), avgVolume(b, Len(b) - 1, Periods(f.period))), Whole1(b[Len(b)].v))
volatilityRule(f, b) ==
    /\ HasAtr(Len(b), Periods(f.period))
    /\ Side(f.op, Times(Whole1(100), atr(b, Len(b), Periods(f.period))),
                  Times(Milli(f.value), Whole1(b[Len(b)].c)))
changeRule(f, b) ==
    /\ Len(b) > Periods(f.lookback)
    /\ LET base == b[Len(b) - Periods(f.lookback)].c
       IN Side(f.op, Frac(100 * (b[Len(b)].c - base), base), Milli(f.value))
confirmRule(b) == Len(b) >= 2 /\ b[Len(b)].c > b[Len(b) - 1].h

evalRule(r, b) ==
    CASE r.kind = "trend" -> trendRule(r.f, b)
      [] r.kind = "sma_cross" -> smaCrossRule(r.f, b)
      [] r.kind = "rsi" -> rsiRule(r.f, b)
      [] r.kind = "breakout" -> breakoutRule(r.f, b)
      [] r.kind = "bollinger" -> bollingerRule(r.f, b)
      [] r.kind = "volume" -> volumeRule(r.f, b)
      [] r.kind = "volatility" -> volatilityRule(r.f, b)
      [] r.kind = "change" -> changeRule(r.f, b)
      [] r.kind = "confirm" -> confirmRule(b)

customEntryAt(def, b) == def.rules # <<>> /\ \A k \in DOMAIN def.rules : evalRule(def.rules[k], b)

\* Bars before which nothing can fire: every whole field counts.
customWarmup(def) ==
    Max({2, Periods(def.exits.atr) + 1}
        \cup UNION {{Periods(r.f[s.key]) + 1 :
                        s \in {x \in RULE_SPEC[r.kind].fields : "int" \in DOMAIN x /\ x.int}} :
                     r \in Range(def.rules)})

\* The series its chart draws: of those of all blocks, the first four names, each where it comes
\* first, and the bars each needs. The name of a band does not tell its period.
Series(name, f) == [name |-> name, bars |-> Periods(f)]
SeriesOf(r) ==
    CASE r.kind = "trend" -> <<Series(<<"sma", r.f.period>>, r.f.period)>>
      [] r.kind = "sma_cross" -> <<Series(<<"sma", r.f.fast>>, r.f.fast), Series(<<"sma", r.f.slow>>, r.f.slow)>>
      [] r.kind = "breakout" -> <<Series(<<"high", r.f.lookback>>, r.f.lookback + 1000)>>
      [] r.kind = "bollinger" ->
            <<Series(<<"upper", r.f.k>>, r.f.period), Series(<<"lower", r.f.k>>, r.f.period)>>
      [] OTHER -> <<>>
SeriesPlaces(def) == UNION {{k} \X DOMAIN SeriesOf(def.rules[k]) : k \in DOMAIN def.rules}
SeriesAt(def, p) == SeriesOf(def.rules[p[1]])[p[2]]
NamesBefore(def, p) ==
    {SeriesAt(def, q).name : q \in {r \in SeriesPlaces(def) :
                                        r[1] < p[1] \/ (r[1] = p[1] /\ r[2] < p[2])}}
customOverlays(def) ==
    {SeriesAt(def, p) : p \in {q \in SeriesPlaces(def) :
        /\ Cardinality(NamesBefore(def, q)) < 4
        /\ SeriesAt(def, q).name \notin NamesBefore(def, q)}}

-----------------------------------------------------------------------------
(* The bot's evaluator (custom.py): the same blocks, on the tail of a list *)

Tail_(s, n) == SubSeq(s, Len(s) - n + 1, Len(s))
SumOf(s) == SumOver(s, DOMAIN s)
closesOf(b) == [i \in DOMAIN b |-> b[i].c]
has(s, n) == Len(s) >= n
meanOf(s, n) == Frac(SumOf(Tail_(s, n)), n)

\* Both means of a cross, now and one bar before, over closes cut j bars short.
botCrossed(closes, j, fast, slow) ==
    LET now == SubSeq(closes, 1, Len(closes) - j)
        before == SubSeq(closes, 1, Len(closes) - j - 1)
    IN /\ Len(closes) - j >= 2 /\ has(before, fast) /\ has(before, slow)
       /\ ~Less(meanOf(before, slow), meanOf(before, fast))
       /\ Less(meanOf(now, slow), meanOf(now, fast))

botRsi(closes, n) ==
    LET d == [i \in 1..n |-> closes[Len(closes) - n + i] - closes[Len(closes) - n + i - 1]]
        gains == SumOf([i \in 1..n |-> Max({d[i], 0})])
        losses == SumOf([i \in 1..n |-> Max({-d[i], 0})])
    IN IF losses = 0 THEN Whole1(100)
       ELSE Minus(Whole1(100), Frac(100 * losses, losses + gains))

botBollinger(f, closes) ==
    LET n == Periods(f.period)
        last == Whole1(closes[Len(closes)])
        mid == meanOf(closes, n)
        off(i) == n * Tail_(closes, n)[i] - SumOf(Tail_(closes, n))
        var == Frac(SumOf([i \in 1..n |-> off(i) * off(i)]), n * (n * n))
        gap == IF f.band = "below_lower" THEN Minus(mid, last) ELSE Minus(last, mid)
        band2 == Times(Times(Milli(f.k), Milli(f.k)), var)
    IN has(closes, n) /\ Less(Whole1(0), var) /\ Less(Whole1(0), gap) /\ Less(band2, Times(gap, gap))

ruleOk(r, b) ==
    LET closes == closesOf(b)
        last == closes[Len(closes)]
        f == r.f
        highs == [i \in DOMAIN b |-> b[i].h]
        volumes == [i \in DOMAIN b |-> b[i].v]
        spans == [i \in 1..(Len(b) - 1) |-> TrueRange(b, i + 1)]
    IN CASE r.kind = "trend" ->
                /\ has(closes, Periods(f.period))
                /\ Side(f.op, Whole1(last), meanOf(closes, Periods(f.period)))
         [] r.kind = "sma_cross" ->
                \E j \in 0..(Periods(f.within) - 1) : botCrossed(closes, j, Periods(f.fast), Periods(f.slow))
         [] r.kind = "rsi" ->
                has(closes, Periods(f.period) + 1) /\ Side(f.op, botRsi(closes, Periods(f.period)), Milli(f.value))
         [] r.kind = "breakout" ->
                /\ has(b, Periods(f.lookback) + 1)
                /\ LET prior == Tail_(SubSeq(highs, 1, Len(b) - 1), Periods(f.lookback))
                   IN last * 100000 >= Max(Range(prior)) * (100000 + f.buffer)
         [] r.kind = "bollinger" -> has(closes, Periods(f.period)) /\ botBollinger(f, closes)
         [] r.kind = "volume" ->
                /\ has(SubSeq(b, 1, Len(b) - 1), Periods(f.period))
                /\ ~Less(Whole1(b[Len(b)].v),
                         Times(Milli(f.mult), meanOf(SubSeq(volumes, 1, Len(b) - 1), Periods(f.period))))
         [] r.kind = "volatility" ->
                /\ has(b, Periods(f.period) + 1)
                /\ Side(f.op, Times(meanOf(spans, Periods(f.period)), Frac(100, last)), Milli(f.value))
         [] r.kind = "change" ->
                /\ has(closes, Periods(f.lookback) + 1)
                /\ LET base == closes[Len(closes) - Periods(f.lookback)]
                   IN Side(f.op, Minus(Frac(100 * last, base), Whole1(100)), Milli(f.value))
         [] r.kind = "confirm" -> has(b, 2) /\ last > highs[Len(highs) - 1]

minCandles(def) ==
    Max({2} \cup UNION {{Periods(r.f[k]) + 1 :
            k \in DOMAIN r.f \cap {"period", "fast", "slow", "within", "lookback"}} : r \in Range(def.rules)})

decide(def, b) ==
    /\ def.rules # <<>> /\ Len(b) >= minCandles(def)
    /\ \A k \in DOMAIN def.rules : ruleOk(def.rules[k], b)

-----------------------------------------------------------------------------
(* The gate: the builder runs it on every edit, the server on what it is sent *)

KindSpec(r) == RULE_SPEC[r.kind]

\* Of one block's entry in the catalog: what is given, or its default.
given(entry, r, s) == IF s.key \in DOMAIN r.f THEN r.f[s.key] ELSE entry.defaults[s.key]
cleanField(entry, s, v) ==
    IF "options" \notin DOMAIN s THEN clampField(s, v)
    ELSE IF v \in s.options THEN v ELSE entry.defaults[s.key]
cleanIn(entry, r) ==
    [kind |-> r.kind,
     f |-> [k \in {s.key : s \in entry.fields} |->
                LET s == CHOOSE x \in entry.fields : x.key = k
                IN cleanField(entry, s, given(entry, r, s))]]
cleanRule(r) == cleanIn(KindSpec(r), r)

\* Only the first confirmation block counts.
oneConfirm(rules) ==
    ElementsAt(rules, {k \in DOMAIN rules :
        rules[k].kind = "confirm" => \A j \in 1..(k - 1) : rules[j].kind # "confirm"})

\* Mutant of cleanExits: the stop is read as a percentage.
CleanPercent(e) ==
    [stop |-> Clamp(e.stop \div 10, 5, 200), target |-> Clamp(e.target, 0, 500),
     trail |-> Clamp(e.trail, 0, 6000), atr |-> RoundTo(Clamp(e.atr, 2000, 50000), 1000),
     hold |-> Clamp(e.hold, 0, 500)]
cleanExits(e) ==
    [stop |-> Clamp(e.stop, 5, 200), target |-> Clamp(e.target, 0, 500),
     trail |-> Clamp(e.trail, 0, 6000), atr |-> RoundTo(Clamp(e.atr, 2000, 50000), 1000),
     hold |-> Clamp(e.hold, 0, 500)]

\* Mutant of OnlyStop: any definition may go without another exit.
StopIsEnough(e) == FALSE

\* A hard stop alone could hold a position for ever.
OnlyStop(e) == e.target = 0 /\ e.trail = 0 /\ e.hold = 0

DefRefused == [ok |-> FALSE]
AcceptedDef(rules, exits) ==
    IF OnlyStop(exits) \/ \E r \in Range(rules) : r.kind = "sma_cross" /\ r.f.fast >= r.f.slow
    THEN DefRefused ELSE [ok |-> TRUE, def |-> [rules |-> rules, exits |-> exits]]
sanitizeCustomDef(raw) ==
    IF \/ raw.rules = <<>> \/ Len(raw.rules) > MAX_RULES
       \/ \E k \in DOMAIN raw.rules : raw.rules[k].kind \notin Kinds
    THEN DefRefused
    ELSE AcceptedDef(oneConfirm([k \in DOMAIN raw.rules |-> cleanRule(raw.rules[k])]),
                     cleanExits(raw.exits))

\* _strategy_spec: the exits the engine is configured with.
engineCustomExits(def) ==
    [stop |-> Clamp(def.exits.stop, 5, 200), target |-> Clamp(def.exits.target, 0, 500),
     trail |-> Clamp(def.exits.trail, 0, 6000),
     atr |-> (Clamp(def.exits.atr, 2000, 50000) \div 1000) * 1000,
     hold |-> Clamp(def.exits.hold, 0, 500)]

=============================================================================
