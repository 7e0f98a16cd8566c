------------------------------ MODULE Signals ------------------------------
(***************************************************************************)
(* The entry and exit rules the browser simulates and the levels it draws  *)
(* beside them (lib/strategy-sim.ts). Bars are numbered from 1: rule(b, p) *)
(* is asked at the last bar of b. Arithmetic is exact (Fractions), a       *)
(* square root is compared by its square, and parameters are in            *)
(* thousandths as in Templates.                                            *)
(***************************************************************************)
EXTENDS Templates, Fractions, Sequences, FiniteSetsExt

-----------------------------------------------------------------------------
(* Indicators over the n bars that end at bar e *)

Bars(e, n) == (e - n + 1)..e
Periods(p) == p \div 1000

sma(b, e, n) == Frac(SumOver([i \in Bars(e, n) |-> b[i].c], Bars(e, n)), n)

\* Population variance: the square of the code's stdev.
variance(b, e, n) ==
    LET sum == SumOver([i \in Bars(e, n) |-> b[i].c], Bars(e, n))
    IN Frac(n * SumOver([i \in Bars(e, n) |-> b[i].c * b[i].c], Bars(e, n)) - sum * sum, n * n)

TrueRange(b, i) == Max({b[i].h - b[i].l, Abs(b[i].h - b[i-1].c), Abs(b[i].l - b[i-1].c)})

\* Each true range needs a previous close.
HasAtr(e, n) == e > n
ranges(b, e, n) == SumOver([i \in Bars(e, n) |-> TrueRange(b, i)], Bars(e, n))
atr(b, e, n) == Frac(ranges(b, e, n), n)

Moves(b, e, n, up) ==
    SumOver([i \in Bars(e, n) |->
                LET d == b[i].c - b[i-1].c IN IF up THEN Max({d, 0}) ELSE Max({-d, 0})], Bars(e, n))
rsi(b, e, n) ==
    LET gains == Moves(b, e, n, TRUE)
        losses == Moves(b, e, n, FALSE)
    IN IF losses = 0 THEN Whole1(100) ELSE Frac(100 * gains, gains + losses)

avgVolume(b, e, n) == Frac(SumOver([i \in Bars(e, n) |-> b[i].v], Bars(e, n)), n)

\* Mutant of uptrend: enough bars will do.
HasRegime(b, e, n) == e >= n + 1

\* The regime gate: one bar more than the average needs, and a close above it.
uptrend(b, e, n) == e >= n + 1 /\ Less(sma(b, e, n), Whole1(b[e].c))

HighOf(b, I) == Max({b[i].h : i \in I})
LowOf(b, I) == Min({b[i].l : i \in I})

\* Extremes of the n bars before e.
priorHigh(b, e, n) == HighOf(b, (e - n)..(e - 1))
priorLow(b, e, n) == LowOf(b, (e - n)..(e - 1))

\* The ratcheting bands of the supertrend, in units of 1 / (2000 n): state 1 up, -1 down, 0
\* while the range average warms up.
WarmingUp == [state |-> 0, up |-> 0, dn |-> 0]
ratchet(b, n, mult, i, was) ==
    LET first == ~HasAtr(i - 1, n)
        middle == 1000 * n * (b[i].h + b[i].l)
        scaled(x) == 2000 * n * x
        basicUp == middle - 2 * mult * ranges(b, i, n)
        basicDn == middle + 2 * mult * ranges(b, i, n)
        up == IF first \/ scaled(b[i-1].c) <= was.up THEN basicUp ELSE Max({basicUp, was.up})
        dn == IF first \/ scaled(b[i-1].c) >= was.dn THEN basicDn ELSE Min({basicDn, was.dn})
        close == scaled(b[i].c)
    IN IF was.state <= 0 /\ close > dn THEN [state |-> 1, up |-> basicUp, dn |-> dn]
       ELSE IF was.state = 1 /\ close < up THEN [state |-> -1, up |-> up, dn |-> basicDn]
       ELSE IF was.state = 0 THEN [state |-> -1, up |-> up, dn |-> dn]
       ELSE [state |-> was.state, up |-> up, dn |-> dn]
supertrendStates(b, n, mult) ==
    LET at[i \in 0..Len(b)] == IF HasAtr(i, n) THEN ratchet(b, n, mult, i, at[i - 1]) ELSE WarmingUp
    IN at

\* Exponential average of a sequence of fractions, seeded with the first.
emaSeries(s, n) ==
    LET at[i \in 1..Len(s)] ==
        IF i = 1 THEN s[1]
        ELSE Plus(Times(Frac(2, n + 1), s[i]), Times(Frac(n - 1, n + 1), at[i - 1]))
    IN [i \in 1..Len(s) |-> at[i]]

Closes(b) == [i \in 1..Len(b) |-> Whole1(b[i].c)]

\* Midpoint of the range of n bars; the cloud is projected kijun bars forward.
ichiMid(b, e, n) == Frac(HighOf(b, Bars(e, n)) + LowOf(b, Bars(e, n)), 2)
HasCloud(e, p) == e - Periods(p.kijun) >= Max({Periods(p.tenkan), Periods(p.kijun), Periods(p.senkou_b)})
ichiCloudTop(b, e, p) ==
    LET back == e - Periods(p.kijun)
    IN Larger(Times(Frac(1, 2), Plus(ichiMid(b, back, Periods(p.tenkan)), ichiMid(b, back, Periods(p.kijun)))),
              ichiMid(b, back, Periods(p.senkou_b)))

-----------------------------------------------------------------------------
(* Entry rules *)

Enough(b, ns) == Len(b) >= Max(ns)

maCrossoverEntry(b, p) ==
    LET e == Len(b)
        fast == Periods(p.fast)
        slow == Periods(p.slow)
        above(i) == Less(sma(b, i, slow), sma(b, i, fast))
    IN /\ Enough(b, {slow + 2, Periods(p.atr_period) + 1, Periods(p.regime_period) + 1})
       /\ uptrend(b, e, Periods(p.regime_period))
       /\ AtMost(Times(Milli(p.k_atr), atr(b, e, Periods(p.atr_period))),
                 Minus(sma(b, e, fast), sma(b, e, slow)))
       /\ Less(sma(b, e - 1, slow), sma(b, e, slow))
       /\ \E j \in 0..(Periods(p.confirm_bars) - 1) :
            e - j - 1 >= Max({fast, slow}) /\ ~above(e - j - 1) /\ above(e - j)

rsiEntry(b, p) ==
    LET e == Len(b) IN
    /\ Enough(b, {Periods(p.period) + 1, Periods(p.regime_period) + 1})
    /\ uptrend(b, e, Periods(p.regime_period))
    /\ Less(rsi(b, e, Periods(p.period)), Milli(p.oversold))
    /\ b[e].c > b[e-1].h

\* A break of the level by the buffer, but not further than the chase cap.
Breaks(price, level, p) ==
    /\ price * 1000 >= level * (1000 + p.buffer)
    /\ price * 1000 <= level * (1000 + p.max_chase)

VolumeConfirms(b, p) ==
    AtMost(Times(Milli(p.vol_mult), avgVolume(b, Len(b) - 1, Periods(p.vol_period))), Whole1(b[Len(b)].v))

VolatileEnough(b, p) ==
    AtMost(Times(Milli(p.min_atr_frac), Whole1(b[Len(b)].c)), atr(b, Len(b), Periods(p.atr_period)))

momentumEntry(b, p) ==
    LET e == Len(b) IN
    /\ Enough(b, {Periods(p[k]) + 1 : k \in {"lookback", "atr_period", "vol_period", "regime_period"}})
    /\ uptrend(b, e, Periods(p.regime_period))
    /\ VolatileEnough(b, p) /\ VolumeConfirms(b, p)
    /\ Breaks(b[e].c, priorHigh(b, e, Periods(p.lookback)), p)

volExpansionEntry(b, p) ==
    LET e == Len(b) IN
    /\ Enough(b, {Periods(p.long_atr) + 1, Periods(p.breakout_lookback) + 1, Periods(p.regime_period) + 1})
    /\ uptrend(b, e, Periods(p.regime_period))
    /\ Less(Whole1(0), atr(b, e, Periods(p.long_atr)))
    /\ AtMost(Times(Milli(p.expansion_mult), atr(b, e, Periods(p.long_atr))),
              atr(b, e, Periods(p.short_atr)))
    /\ \A i \in (e - Periods(p.breakout_lookback))..(e - 1) : b[e].c >= b[i].c

\* Near the high of the lookback bars, the current one included.
NearHigh(b, p) ==
    b[Len(b)].c * 1000 >= HighOf(b, Bars(Len(b), Periods(p.lookback))) * (1000 - p.near_high_frac)

Gained(b, p) ==
    LET base == b[Len(b) - Periods(p.lookback)].c
    IN base > 0 /\ 1000 * (b[Len(b)].c - base) >= p.min_return * base

tsmomEntry(b, p) ==
    /\ Enough(b, {Periods(p.lookback) + 1, Periods(p.regime_period) + 1})
    /\ uptrend(b, Len(b), Periods(p.regime_period))
    /\ Gained(b, p) /\ NearHigh(b, p)

supertrendEntry(b, p) ==
    LET e == Len(b)
        st == supertrendStates(b, Periods(p.atr_period), p.mult)
    IN /\ Enough(b, {Periods(p.atr_period) + 2, Periods(p.regime_period) + 1})
       /\ uptrend(b, e, Periods(p.regime_period))
       /\ st[e].state = 1
       /\ \E i \in Max({1, e - Periods(p.confirm_bars)})..(e - 1) : st[i].state # 1

\* d is at least k standard deviations, for d not negative.
AtLeastSigmas(d, k, v) == AtMost(Times(Times(Milli(k), Milli(k)), v), Times(d, d))

bbReversionEntry(b, p) ==
    LET e == Len(b)
        n == Periods(p.period)
        below(i) == Minus(sma(b, i, n), Whole1(b[i].c))
        stretched(i, k) == AtMost(Whole1(0), below(i)) /\ AtLeastSigmas(below(i), k, variance(b, i, n))
    IN /\ Enough(b, {n + 1, Periods(p.regime_period) + 1})
       /\ uptrend(b, e, Periods(p.regime_period))
       /\ Less(Whole1(0), variance(b, e, n)) /\ Less(Whole1(0), variance(b, e - 1, n))
       /\ stretched(e - 1, p.k) /\ stretched(e - 1, p.z_entry)
       /\ ~stretched(e, p.k)

Squeezed(b, e, p) ==
    /\ e >= Periods(p.bb_period) /\ HasAtr(e, Periods(p.atr_period))
    /\ LET range == Times(Milli(p.k_kc), atr(b, e, Periods(p.atr_period)))
       IN Less(Times(Times(Milli(p.k_bb), Milli(p.k_bb)), variance(b, e, Periods(p.bb_period))),
               Times(range, range))

squeezeBreakoutEntry(b, p) ==
    LET e == Len(b) IN
    /\ Enough(b, {Periods(p[k]) + 1 :
                    k \in {"lookback", "bb_period", "atr_period", "vol_period", "regime_period"}})
    /\ uptrend(b, e, Periods(p.regime_period))
    /\ VolatileEnough(b, p)
    /\ \E j \in 1..Periods(p.squeeze_lookback) : e - j >= 1 /\ Squeezed(b, e - j, p)
    /\ Breaks(b[e].c, priorHigh(b, e, Periods(p.lookback)), p)
    /\ VolumeConfirms(b, p)

\* The bars it needs; its averages start at most 200 bars before them.
macdLeast(p) ==
    Max({Periods(p.slow) + Periods(p.signal) + Periods(p.confirm_bars) + 2, Periods(p.regime_period) + 1})
macdSpan(p) == macdLeast(p) + 200

macdTrendEntry(b, p) ==
    LET e == Len(b)
        w == Closes(SubSeq(b, Max({1, e - macdSpan(p) + 1}), e))
        f == emaSeries(w, Periods(p.fast))
        s == emaSeries(w, Periods(p.slow))
        macd == [i \in 1..Len(w) |-> Minus(f[i], s[i])]
        sig == emaSeries(macd, Periods(p.signal))
        hist == [i \in 1..Len(w) |-> Minus(macd[i], sig[i])]
        last == Len(w)
        positive(x) == Less(Whole1(0), x)
    IN /\ e >= macdLeast(p) /\ uptrend(b, e, Periods(p.regime_period))
       /\ positive(hist[last]) /\ (p.require_positive # 0 => positive(macd[last]))
       /\ \E i \in Max({1, last - Periods(p.confirm_bars)})..(last - 1) : ~positive(hist[i])
       /\ Less(hist[last - 1], hist[last])

trendRegimeEntry(b, p) ==
    LET e == Len(b)
        now == sma(b, e, Periods(p.period))
    IN /\ e >= Periods(p.period) + Periods(p.slope_bars) + 1
       /\ Less(Times(Milli(1000 + p.band), now), Whole1(b[e].c))
       /\ Less(sma(b, e - Periods(p.slope_bars), Periods(p.period)), now)

\* The optional regime gate of the holders: period 0 is off.
RegimeIfAny(b, p) == p.regime_period > 0 => Less(sma(b, Len(b), Periods(p.regime_period)), Whole1(b[Len(b)].c))

\* Position of the close against the middle band plus k deviations, k of either sign.
OverBand(b, n, k) ==
    LET d == Minus(Whole1(b[Len(b)].c), sma(b, Len(b), n))
        wide == AtLeastSigmas(d, k, variance(b, Len(b), n))
        equal == Times(d, d) = Times(Times(Milli(k), Milli(k)), variance(b, Len(b), n))
    IN IF k >= 0 THEN Less(Whole1(0), d) /\ wide /\ ~equal
       ELSE AtMost(Whole1(0), d) \/ ~wide
UnderBand(b, n, k) ==
    LET d == Minus(Whole1(b[Len(b)].c), sma(b, Len(b), n))
        wide == AtLeastSigmas(d, k, variance(b, Len(b), n))
        equal == Times(d, d) = Times(Times(Milli(k), Milli(k)), variance(b, Len(b), n))
    IN IF k >= 0 THEN Less(d, Whole1(0)) \/ ~wide
       ELSE Less(d, Whole1(0)) /\ wide /\ ~equal

bbBreakoutEntry(b, p) ==
    /\ Len(b) >= Max({Periods(p.period), Periods(p.regime_period)}) + 1
    /\ Less(Whole1(0), variance(b, Len(b), Periods(p.period)))
    /\ OverBand(b, Periods(p.period), p.k)
    /\ RegimeIfAny(b, p)

donchianTrendEntry(b, p) ==
    LET e == Len(b) IN
    /\ e >= Max({Periods(p.entry_lookback), Periods(p.exit_lookback), Periods(p.regime_period)}) + 1
    /\ b[e].c >= priorLow(b, e, Periods(p.exit_lookback))
    /\ b[e].c > priorHigh(b, e, Periods(p.entry_lookback))
    /\ RegimeIfAny(b, p)

ichimokuEntry(b, p) ==
    LET e == Len(b)
        kijun == Periods(p.kijun)
        confirm == Periods(p.confirm_bars)
        line == ichiMid(b, e, kijun)
        price == Whole1(b[e].c)
    IN /\ e >= Periods(p.senkou_b) + kijun + confirm + 1
       /\ AtMost(line, price) /\ Less(ichiCloudTop(b, e, p), price)
       /\ HasCloud(e - confirm, p) => AtMost(Whole1(b[e - confirm].c), ichiCloudTop(b, e - confirm, p))
       /\ Less(line, ichiMid(b, e, Periods(p.tenkan)))
       /\ b[e].c > b[e - kijun].c

\* The return over the lookback in units of its own deviation.
sharpeMomEntry(b, p) ==
    LET e == Len(b)
        n == Periods(p.lookback)
        ret(i) == Minus(Frac(b[i].c, b[i-1].c), Whole1(1))
        over(f) == Times(Frac(1, n), SumOfFractions(f, Bars(e, n)))
        mean == over([i \in Bars(e, n) |-> ret(i)])
        var == over([i \in Bars(e, n) |-> Times(Minus(ret(i), mean), Minus(ret(i), mean))])
        total == Minus(Frac(b[e].c, b[e - n].c), Whole1(1))
    IN /\ Enough(b, {n + 2, Periods(p.regime_period) + 1})
       /\ uptrend(b, e, Periods(p.regime_period))
       /\ Gained(b, p)
       /\ Less(Whole1(0), var)
       /\ AtMost(Times(Times(Milli(p.min_score), Milli(p.min_score)), Times(Whole1(n), var)), Times(total, total))
       /\ NearHigh(b, p)

-----------------------------------------------------------------------------
(* Exit rules of the templates that hold a regime *)

trendRegimeExit(b, p) ==
    /\ Len(b) >= Periods(p.period) + Periods(p.slope_bars) + 1
    /\ Less(Whole1(b[Len(b)].c), Times(Milli(1000 - p.band), sma(b, Len(b), Periods(p.period))))

bbBreakoutExit(b, p) ==
    /\ Len(b) >= Periods(p.period)
    /\ UnderBand(b, Periods(p.period), p.exit_k)

donchianTrendExit(b, p) ==
    /\ Len(b) > Periods(p.exit_lookback)
    /\ b[Len(b)].c < priorLow(b, Len(b), Periods(p.exit_lookback))

ichimokuExit(b, p) ==
    /\ Len(b) >= Periods(p.senkou_b) + Periods(p.kijun) + Periods(p.confirm_bars) + 1
    /\ Less(Whole1(b[Len(b)].c), ichiMid(b, Len(b), Periods(p.kijun)))

ENTRY(t, b, p) ==
    CASE t = "bb_breakout" -> bbBreakoutEntry(b, p)
      [] t = "donchian_trend" -> donchianTrendEntry(b, p)
      [] t = "tsmom" -> tsmomEntry(b, p)
      [] t = "supertrend" -> supertrendEntry(b, p)
      [] t = "ma_crossover" -> maCrossoverEntry(b, p)
      [] t \in {"rsi", "fast_rsi"} -> rsiEntry(b, p)
      [] t = "momentum" -> momentumEntry(b, p)
      [] t = "vol_expansion" -> volExpansionEntry(b, p)
      [] t = "bb_reversion" -> bbReversionEntry(b, p)
      [] t = "squeeze_breakout" -> squeezeBreakoutEntry(b, p)
      [] t = "macd_trend" -> macdTrendEntry(b, p)
      [] t = "trend_regime" -> trendRegimeEntry(b, p)
      [] t = "ichimoku" -> ichimokuEntry(b, p)
      [] t = "sharpe_mom" -> sharpeMomEntry(b, p)

EXIT_SIGNAL(t, b, p) ==
    \/ t = "bb_breakout" /\ bbBreakoutExit(b, p)
    \/ t = "donchian_trend" /\ donchianTrendExit(b, p)
    \/ t = "trend_regime" /\ trendRegimeExit(b, p)
    \/ t = "ichimoku" /\ ichimokuExit(b, p)

-----------------------------------------------------------------------------
(* Levels drawn beside the prices: what the primary line says of the last bar. *)
(* For tsmom and sharpe_mom the regime line is taken: the high drawn for them  *)
(* is of the bars before this one, the rule's of the bars up to this one.      *)

\* Whether a level can be drawn yet, and whether the close is at or over it.
Drawn(t, e, p) ==
    CASE t \in {"momentum", "squeeze_breakout"} -> e > Periods(p.lookback)
      [] t = "vol_expansion" -> e > Periods(p.breakout_lookback)
      [] t = "donchian_trend" -> e > Periods(p.entry_lookback)
      [] t \in {"bb_breakout", "bb_reversion", "trend_regime"} -> e >= Periods(p.period)
      [] t = "supertrend" -> HasAtr(e, Periods(p.atr_period))
      [] t \in {"ma_crossover", "macd_trend"} -> e >= Periods(p.slow)
      [] t = "ichimoku" -> HasCloud(e, p)
      [] t \in {"rsi", "fast_rsi", "tsmom", "sharpe_mom"} -> e >= Periods(p.regime_period)

\* A break-out level, a band or cloud the close has left, or the fast line over the slow one.
\* On the bar of its flip the trend's new support may lie above the close, which is over the
\* resistance it broke. The averages of macd_trend say less: they are the rule's own as long as
\* both start with the first bar.
OverLevel(t, b, p) ==
    LET e == Len(b)
        price == Whole1(b[e].c)
    IN CASE t \in {"momentum", "squeeze_breakout"} -> b[e].c >= priorHigh(b, e, Periods(p.lookback))
         [] t = "vol_expansion" ->
                \A i \in (e - Periods(p.breakout_lookback))..(e - 1) : b[e].c >= b[i].c
         [] t = "donchian_trend" -> b[e].c > priorHigh(b, e, Periods(p.entry_lookback))
         [] t = "bb_breakout" -> OverBand(b, Periods(p.period), p.k)
         [] t = "bb_reversion" -> ~UnderBand(b, Periods(p.period), -p.k)
         [] t = "trend_regime" -> Less(Times(Milli(1000 + p.band), sma(b, e, Periods(p.period))), price)
         [] t = "ichimoku" -> Less(ichiCloudTop(b, e, p), price)
         [] t = "supertrend" ->
                LET st == supertrendStates(b, Periods(p.atr_period), p.mult)
                IN /\ st[e].state = 1
                   /\ LET c == 2000 * Periods(p.atr_period) * b[e].c
                      IN IF st[e - 1].state = 1 THEN c >= st[e].up ELSE c > st[e].dn
         [] t = "ma_crossover" -> AtMost(sma(b, e, Periods(p.slow)), sma(b, e, Periods(p.fast)))
         [] t = "macd_trend" ->
                p.require_positive # 0 /\ e <= macdSpan(p) =>
                    Less(emaSeries(Closes(b), Periods(p.slow))[e], emaSeries(Closes(b), Periods(p.fast))[e])
         [] t \in {"rsi", "fast_rsi", "tsmom", "sharpe_mom"} ->
                Less(sma(b, e, Periods(p.regime_period)), price)

=============================================================================
