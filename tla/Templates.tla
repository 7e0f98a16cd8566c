----------------------------- MODULE Templates -----------------------------
(***************************************************************************)
(* The strategy templates of the web app (lib/strategy-sim.ts): the stock  *)
(* parameters, exits and editable bounds of each, the merge of a user's    *)
(* overrides over them, the server's gate for what a user sends            *)
(* (sanitizeParams, app/actions.ts prepareStrategyInsert), and what the    *)
(* worker makes of the stored row (worker/config_gen.py).                  *)
(* Numbers are in thousandths; at that resolution the code's rounding to   *)
(* six decimals changes nothing. What is not a finite number is left out   *)
(* of a parameter function: the code skips it wherever it reads one.       *)
(***************************************************************************)
EXTENDS Integers, FiniteSets

-----------------------------------------------------------------------------
(* The table *)

\* An editable parameter: its key and bounds, and whether it is rounded to a whole number.
Whole(key, min, max) == [key |-> key, min |-> 1000 * min, max |-> 1000 * max, int |-> TRUE]
Real(key, min, max) == [key |-> key, min |-> min, max |-> max, int |-> FALSE]

\* ExitConfig: hard stop, target (0: none), trail in ATRs (0: none), bars held (0: no limit).
Bracket(stop, target, atr, hold) ==
    [stop |-> stop, target |-> target, trail |-> 0, atr |-> atr, hold |-> hold]
Stop(stop) == Bracket(stop, 0, 14, 0)
Trailing == [Stop(70) EXCEPT !.trail = 3500]

\* The default market is the INR pair of the coin.
Config(coin, exits, params, editable) ==
    [market |-> [pair |-> "inr", coin |-> coin],
     exits |-> exits, params |-> params, editable |-> editable]

tsmom_config == Config("ETH", Trailing,
    [lookback |-> 30000, min_return |-> 100, near_high_frac |-> 20,
     regime_period |-> 50000, expected_move_pct |-> 80],
    {Whole("lookback", 5, 200), Real("min_return", 20, 500),
     Real("near_high_frac", 5, 100), Whole("regime_period", 10, 400)})

supertrend_config == Config("BTC", Trailing,
    [atr_period |-> 10000, mult |-> 3000, confirm_bars |-> 2000,
     regime_period |-> 50000, expected_move_pct |-> 80],
    {Whole("atr_period", 3, 50), Real("mult", 1000, 6000), Whole("confirm_bars", 1, 10),
     Whole("regime_period", 10, 400)})

hf_forecast_config == Config("BTC", Bracket(50, 80, 14, 16),
    [context |-> 512000, horizon |-> 8000, min_forecast_pct |-> 3000,
     regime_period |-> 100000, expected_move_pct |-> 60],
    {Whole("horizon", 2, 24), Real("min_forecast_pct", 500, 10000),
     Whole("context", 64, 1024)})

ma_crossover_config == Config("XRP", Trailing,
    [fast |-> 8000, slow |-> 25000, atr_period |-> 14000, k_atr |-> 200,
     confirm_bars |-> 3000, regime_period |-> 100000, expected_move_pct |-> 80],
    {Whole("fast", 2, 200), Whole("slow", 5, 400), Real("k_atr", 0, 3000),
     Whole("confirm_bars", 1, 20), Whole("regime_period", 10, 400)})

macd_trend_config == Config("BNB", Trailing,
    [fast |-> 12000, slow |-> 26000, signal |-> 9000, confirm_bars |-> 3000,
     require_positive |-> 1000, regime_period |-> 50000, expected_move_pct |-> 80],
    {Whole("fast", 3, 100), Whole("slow", 5, 200), Whole("signal", 2, 50),
     Whole("confirm_bars", 1, 10), Whole("regime_period", 10, 400)})

bb_breakout_config == Config("XRP", Stop(100),
    [period |-> 20000, k |-> 2000, exit_k |-> 0, regime_period |-> 0,
     expected_move_pct |-> 80],
    {Whole("period", 10, 60), Real("k", 1000, 3500), Real("exit_k", -2000, 1000),
     Whole("regime_period", 0, 300)})

donchian_trend_config == Config("BNB", Stop(100),
    [entry_lookback |-> 20000, exit_lookback |-> 10000, regime_period |-> 0,
     expected_move_pct |-> 100],
    {Whole("entry_lookback", 5, 120), Whole("exit_lookback", 3, 60),
     Whole("regime_period", 0, 300)})

trend_regime_config == Config("DOGE", Stop(100),
    [period |-> 100000, band |-> 20, slope_bars |-> 5000, expected_move_pct |-> 100],
    {Whole("period", 20, 300), Real("band", 0, 100), Whole("slope_bars", 1, 30)})

ichimoku_config == Config("ADA", Stop(70),
    [tenkan |-> 9000, kijun |-> 26000, senkou_b |-> 52000, confirm_bars |-> 3000,
     expected_move_pct |-> 80],
    {Whole("tenkan", 3, 30), Whole("kijun", 10, 60), Whole("senkou_b", 20, 120),
     Whole("confirm_bars", 1, 10)})

sharpe_mom_config == Config("ETH", Trailing,
    [lookback |-> 30000, min_score |-> 1500, min_return |-> 60, near_high_frac |-> 30,
     regime_period |-> 50000, expected_move_pct |-> 80],
    {Whole("lookback", 10, 200), Real("min_score", 500, 4000),
     Real("min_return", 20, 500), Real("near_high_frac", 5, 100),
     Whole("regime_period", 10, 400)})

rsi_config == Config("ETH", Bracket(30, 30, 16, 64),
    [period |-> 14000, oversold |-> 22000, regime_period |-> 192000,
     expected_move_pct |-> 50],
    {Whole("period", 2, 50), Real("oversold", 5000, 50000),
     Whole("regime_period", 10, 400)})

momentum_config == Config("BTC", Trailing,
    [lookback |-> 20000, atr_period |-> 14000, vol_period |-> 20000,
     min_atr_frac |-> 10, vol_mult |-> 1000, buffer |-> 2, max_chase |-> 50,
     regime_period |-> 50000, expected_move_pct |-> 80],
    {Whole("lookback", 5, 200), Real("buffer", 0, 20), Real("max_chase", 5, 100),
     Real("vol_mult", 500, 5000), Whole("regime_period", 10, 400)})

vol_expansion_config == Config("BNB", Trailing,
    [short_atr |-> 5000, long_atr |-> 20000, expansion_mult |-> 1300,
     breakout_lookback |-> 10000, regime_period |-> 50000, expected_move_pct |-> 60],
    {Whole("short_atr", 2, 50), Whole("long_atr", 5, 200),
     Real("expansion_mult", 1000, 4000), Whole("breakout_lookback", 5, 100),
     Whole("regime_period", 10, 400)})

fast_rsi_config == Config("BNB", Bracket(20, 25, 16, 12),
    [period |-> 7000, oversold |-> 25000, regime_period |-> 96000,
     expected_move_pct |-> 30],
    {Whole("period", 2, 50), Real("oversold", 5000, 50000),
     Whole("regime_period", 10, 400)})

bb_reversion_config == Config("SOL", Bracket(30, 40, 16, 32),
    [period |-> 20000, k |-> 2000, z_entry |-> 2000, regime_period |-> 96000,
     expected_move_pct |-> 30],
    {Whole("period", 5, 100), Real("k", 1000, 4000), Real("z_entry", 500, 4000),
     Whole("regime_period", 10, 400)})

squeeze_breakout_config == Config("DOGE", Trailing,
    [bb_period |-> 20000, k_bb |-> 2000, k_kc |-> 1500, atr_period |-> 14000,
     lookback |-> 20000, squeeze_lookback |-> 6000, vol_period |-> 20000,
     vol_mult |-> 1000, buffer |-> 2, max_chase |-> 50, min_atr_frac |-> 10,
     regime_period |-> 50000, expected_move_pct |-> 80],
    {Whole("bb_period", 5, 100), Real("k_kc", 500, 4000),
     Whole("squeeze_lookback", 1, 30), Whole("lookback", 5, 200),
     Real("vol_mult", 500, 5000), Whole("regime_period", 10, 400)})

donchian_ls_config == Config("BTC", Bracket(70, 120, 14, 0),
    [lookback |-> 20000, buffer |-> 2, expected_move_pct |-> 80, stop_loss_pct |-> 70,
     take_profit_pct |-> 120],
    {Whole("lookback", 5, 200), Real("stop_loss_pct", 5, 200),
     Real("take_profit_pct", 10, 500)})

ensemble_ls_config == Config("ETH", Bracket(100, 150, 14, 0),
    [enter_frac |-> 800, exit_frac |-> 500, confirm_bars |-> 3000,
     expected_move_pct |-> 80, stop_loss_pct |-> 100, take_profit_pct |-> 150],
    {Real("enter_frac", 500, 1000), Whole("confirm_bars", 1, 10),
     Real("stop_loss_pct", 5, 200), Real("take_profit_pct", 10, 500)})

-----------------------------------------------------------------------------
(* Kinds of templates (lib/entitlements.ts) *)

ACTIVE_TEMPLATES ==
    {"bb_breakout", "donchian_trend", "vol_expansion", "momentum", "tsmom", "trend_regime",
     "supertrend", "macd_trend"}
RETIRED_TEMPLATES ==
    {"rsi", "fast_rsi", "bb_reversion", "ichimoku", "ma_crossover", "squeeze_breakout",
     "sharpe_mom"}
SHORT_CAPABLE_TEMPLATES == {"donchian_ls"}
RETIRED_EXPERIMENTAL_TEMPLATES == {"ensemble_ls"}
EXPERIMENTAL_TEMPLATES == {"hf_forecast"} \cup SHORT_CAPABLE_TEMPLATES
BUILTIN_TEMPLATES == ACTIVE_TEMPLATES \cup RETIRED_TEMPLATES
PickableTemplate == ACTIVE_TEMPLATES \cup EXPERIMENTAL_TEMPLATES

TEMPLATE_CONFIG ==
    [bb_breakout |-> bb_breakout_config, donchian_trend |-> donchian_trend_config,
     vol_expansion |-> vol_expansion_config, momentum |-> momentum_config,
     tsmom |-> tsmom_config, trend_regime |-> trend_regime_config,
     supertrend |-> supertrend_config, macd_trend |-> macd_trend_config,
     rsi |-> rsi_config, fast_rsi |-> fast_rsi_config,
     bb_reversion |-> bb_reversion_config, ichimoku |-> ichimoku_config,
     ma_crossover |-> ma_crossover_config, squeeze_breakout |-> squeeze_breakout_config,
     sharpe_mom |-> sharpe_mom_config, hf_forecast |-> hf_forecast_config,
     donchian_ls |-> donchian_ls_config, ensemble_ls |-> ensemble_ls_config]

-----------------------------------------------------------------------------
(* Parameters *)

\* Of one template's configuration c.
SpecIn(c, key) == CHOOSE s \in c.editable : s.key = key
KeysIn(c) == {s.key : s \in c.editable}
NoParams == [k \in {} |-> 0]

\* Overrides of editable keys over the stock; others are ignored.
mergedParams(c, overrides) ==
    [k \in DOMAIN c.params |->
        IF k \in KeysIn(c) \cap DOMAIN overrides THEN overrides[k] ELSE c.params[k]]

\* The values that differ from the stock.
Genuine(c, p) == [k \in {j \in DOMAIN p : p[j] # c.params[j]} |-> p[k]]

\* Cross-field rules.
\* Mutant of paramRuleError: the bands of the breakout may cross.
PeriodRuleError(t, p) ==
    \/ t \in {"ma_crossover", "macd_trend"} /\ p.fast >= p.slow
    \/ t = "vol_expansion" /\ p.short_atr >= p.long_atr
    \/ t = "ichimoku" /\ (p.tenkan >= p.kijun \/ p.kijun > p.senkou_b)

paramRuleError(t, p) ==
    \/ t \in {"ma_crossover", "macd_trend"} /\ p.fast >= p.slow
    \/ t = "vol_expansion" /\ p.short_atr >= p.long_atr
    \/ t = "ichimoku" /\ (p.tenkan >= p.kijun \/ p.kijun > p.senkou_b)
    \/ t = "bb_breakout" /\ p.exit_k >= p.k

Clamp(v, lo, hi) == IF v < lo THEN lo ELSE IF v > hi THEN hi ELSE v
RoundTo(v, unit) == ((v + unit \div 2) \div unit) * unit
Within(s, v) == Clamp(v, s.min, s.max)

\* Answers of the gate: an error, or the parameters to store.
Refused == [ok |-> FALSE, params |-> NoParams]
Accepted(p) == [ok |-> TRUE, params |-> p]

\* Only editable keys survive, clamped and rounded, and only where they differ from the
\* stock; nothing left means nothing to store and is not checked further.
clampField(s, v) == IF s.int THEN RoundTo(Within(s, v), 1000) ELSE Within(s, v)
Cleaned(c, raw) == [k \in KeysIn(c) \cap DOMAIN raw |-> clampField(SpecIn(c, k), raw[k])]
Judged(t, c, out) ==
    IF DOMAIN out # {} /\ paramRuleError(t, mergedParams(c, out)) THEN Refused ELSE Accepted(out)
sanitizeIn(t, c, raw) == Judged(t, c, Genuine(c, Cleaned(c, raw)))
sanitizeParams(t, raw) == sanitizeIn(t, TEMPLATE_CONFIG[t], raw)

\* Mutant of BracketGiven: any bracket will do.
BracketAny(raw) == {"stop_loss_pct", "take_profit_pct"} \subseteq DOMAIN raw

\* The mandatory bracket of a short-capable template.
BracketGiven(raw) ==
    /\ {"stop_loss_pct", "take_profit_pct"} \subseteq DOMAIN raw
    /\ raw.stop_loss_pct \in 5..200 /\ raw.take_profit_pct \in 10..500

WithBracket(p, raw) ==
    [k \in DOMAIN p \cup {"stop_loss_pct", "take_profit_pct"} |->
        IF k \in DOMAIN p \ {"stop_loss_pct", "take_profit_pct"} THEN p[k] ELSE raw[k]]

\* prepareStrategyInsert, for a template of the cards: no parameters are NoParams.
Prepared(t, answer, raw) ==
    IF t \notin PickableTemplate THEN Refused
    ELSE IF t \notin SHORT_CAPABLE_TEMPLATES THEN answer
    ELSE IF BracketGiven(raw) /\ answer.ok THEN Accepted(WithBracket(answer.params, raw))
    ELSE Refused
prepareStrategyInsert(t, raw) == Prepared(t, sanitizeParams(t, raw), raw)

-----------------------------------------------------------------------------
(* Market ids (lib/exchanges.ts): the INR or USDT pair of a coin, or any other text the  *)
(* picker's pattern lets through.                                                         *)

Coins == {TEMPLATE_CONFIG[t].market.coin : t \in DOMAIN TEMPLATE_CONFIG}
Markets == [pair : {"inr", "usdt", "other"}, coin : Coins]

\* Binance has no INR book: an INR pair becomes its USDT twin.
marketFor(exchange, m) ==
    IF exchange = "binance" /\ m.pair = "inr" THEN [m EXCEPT !.pair = "usdt"] ELSE m

-----------------------------------------------------------------------------
(* The worker's reading of a stored row (worker/config_gen.py, external to the page) *)

\* Defaults that are whole in the worker's table: overrides of them are truncated.
WholeInWorker(s) == s.int \/ s.key = "oversold"

\* _clean_params
CoercedIn(c, stored) ==
    [k \in DOMAIN c.params |->
        IF k \notin DOMAIN stored \cap KeysIn(c) THEN c.params[k]
        ELSE IF WholeInWorker(SpecIn(c, k)) THEN (Clamp(stored[k], 0, 10000 * 1000) \div 1000) * 1000
        ELSE Clamp(stored[k], -100 * 1000, 100 * 1000)]
EngineParams(t, stored) == CoercedIn(TEMPLATE_CONFIG[t], stored)

\* _strategy_spec: a short-capable template's bracket is lifted out of its parameters.
EngineExits(t, exits, p) ==
    IF t \in SHORT_CAPABLE_TEMPLATES \cup RETIRED_EXPERIMENTAL_TEMPLATES
    THEN [exits EXCEPT !.stop = Clamp(p.stop_loss_pct, 5, 200),
                       !.target = Clamp(p.take_profit_pct, 10, 500)]
    ELSE exits

=============================================================================
