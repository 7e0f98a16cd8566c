--------------------------- MODULE SimulatorProofs ---------------------------
(***************************************************************************)
(* Proofs about the replay behind every preview, for every set of          *)
(* templates, parameters, exits and candles its assumption admits: the two *)
(* evaluators of a custom strategy answer alike, what a template enters on *)
(* is drawn and is not left on the same close, and what is reported of the *)
(* trades, the folds and the recurring buys adds up.                       *)
(***************************************************************************)
EXTENDS Simulator, Recursion, TLAPS

-----------------------------------------------------------------------------
(* The two evaluators of a user's own strategy *)

CandleOK(c) ==
  {c.l, c.c, c.h} \subseteq Nat \ {0} /\ c.v \in Nat /\ c.l <= c.c /\ c.c <= c.h
BarsOK(b) ==
  /\ b \in Seq({b[i] : i \in DOMAIN b})
  /\ \A i \in 1 .. Len(b) : CandleOK(b[i])

\* The first of a list, and the last.
LEMMA HeadIs ==
  ASSUME NEW T, NEW s \in Seq(T), NEW e \in 0 .. Len(s)
  PROVE  /\ SubSeq(s, 1, e) \in Seq(T) /\ Len(SubSeq(s, 1, e)) = e
         /\ \A i \in 1 .. e : SubSeq(s, 1, e)[i] = s[i]
<1>1. Len(s) \in Nat /\ e \in Int /\ \A i \in 1 .. e : i \in 1 .. Len(s)
  OBVIOUS
<1> QED
  BY <1>1

\* The last n of a list, counted from the first of them.
LEMMA TailIs ==
  ASSUME NEW T, NEW s \in Seq(T), NEW n \in 0 .. Len(s)
  PROVE  /\ Tail_(s, n) \in Seq(T) /\ Len(Tail_(s, n)) = n /\ DOMAIN Tail_(s, n) = 1 .. n
         /\ \A i \in 1 .. n : Tail_(s, n)[i] = s[Len(s) - n + i]
<1>1. Len(s) \in Nat /\ n \in Int /\ \A i \in 1 .. n : Len(s) - n + i \in 1 .. Len(s)
  OBVIOUS
<1> QED
  BY <1>1 DEF Tail_

\* The mean of the last n of the first e numbers of a list is that of the window.
LEMMA MeanOver ==
  ASSUME NEW s \in Seq(Int), NEW e \in 1 .. Len(s), NEW n \in 1 .. e,
         NEW f, \A i \in Bars(e, n) : f[i] = s[i]
  PROVE  /\ SumOver(f, Bars(e, n)) \in Int
         /\ SumOf(Tail_(SubSeq(s, 1, e), n)) = SumOver(f, Bars(e, n))
         /\ meanOf(SubSeq(s, 1, e), n) = Frac(SumOver(f, Bars(e, n)), n)
<1> DEFINE h == SubSeq(s, 1, e)
           t == Tail_(h, n)
           a == e - n
<1>1. Len(s) \in Nat /\ e \in Nat /\ n \in Nat /\ a \in Nat /\ e \in 0 .. Len(s)
  OBVIOUS
<1>2. h \in Seq(Int) /\ Len(h) = e /\ \A i \in 1 .. e : h[i] = s[i]
  BY <1>1, HeadIs
<1>3. n \in 0 .. Len(h)
  BY <1>1, <1>2
<1> HIDE DEF h
<1>4. DOMAIN t = 1 .. n /\ \A i \in 1 .. n : t[i] = h[Len(h) - n + i]
  BY <1>2, <1>3, TailIs
<1> HIDE DEF t
<1>5. Bars(e, n) = a + 1 .. a + n
  BY <1>1 DEF Bars
<1>6. ASSUME NEW i \in 1 .. n PROVE f[a + i] \in Int /\ t[i] = f[a + i]
  <2>1. a + i \in 1 .. e /\ a + i \in a + 1 .. a + n /\ Len(h) - n + i = a + i /\ a + i \in 1 .. Len(s)
    BY <1>1, <1>2
  <2> HIDE DEF a
  <2>2. t[i] = h[a + i] /\ h[a + i] = s[a + i]
    BY <1>2, <1>4, <2>1
  <2>3. f[a + i] = s[a + i] /\ s[a + i] \in Int
    BY <1>5, <2>1
  <2> QED
    BY <2>2, <2>3
<1>7. SumOver(f, Bars(e, n)) = SumOver(t, 1 .. n)
  <2> HIDE DEF a
  <2>1. MovedBy(f, a, n, t)
    BY <1>6 DEF MovedBy
  <2>2. SumOver(f, Stretch(a, n)) = SumOver(t, 1 .. n)
    BY <1>1, <2>1, SumShift
  <2> QED
    BY <1>5, <2>2 DEF Stretch
<1>8. SumOver(t, 1 .. n) \in Int
  <2>1. IsFiniteSet(1 .. n)
    BY <1>1, FS_Interval
  <2>2. \A i \in 1 .. n : t[i] \in Int
    BY <1>6
  <2> QED
    BY <2>1, <2>2, SumInt
<1>9. SumOf(t) = SumOver(f, Bars(e, n))
  BY <1>4, <1>7 DEF SumOf
<1> QED
  BY <1>7, <1>8, <1>9 DEF meanOf, h, t

\* What the lists of one history are.
LEMMA ListsOf ==
  ASSUME NEW b, BarsOK(b)
  PROVE  /\ Len(b) \in Nat /\ DOMAIN b = 1 .. Len(b)
         /\ closesOf(b) \in Seq(Int) /\ Len(closesOf(b)) = Len(b)
         /\ \A i \in 1 .. Len(b) : closesOf(b)[i] = b[i].c /\ b[i].c \in Nat \ {0}
         /\ SubSeq(closesOf(b), 1, Len(b)) = closesOf(b)
<1>1. Len(b) \in Nat /\ DOMAIN b = 1 .. Len(b)
  BY DEF BarsOK
<1>2. \A i \in 1 .. Len(b) : b[i].c \in Nat \ {0}
  BY DEF BarsOK, CandleOK
<1>3. closesOf(b) = [i \in 1 .. Len(b) |-> b[i].c]
  BY <1>1 DEF closesOf
<1>4. closesOf(b) \in Seq(Int) /\ Len(closesOf(b)) = Len(b)
  BY <1>1, <1>2, <1>3
<1>5. SubSeq(closesOf(b), 1, Len(b)) = closesOf(b)
  <2> DEFINE c == closesOf(b)
  <2>1. c \in Seq(Int) /\ Len(c) = Len(b)
    BY <1>4
  <2> HIDE DEF c
  <2>2. SubSeq(c, 1, Len(c)) = c
    BY <2>1
  <2> QED
    BY <2>1, <2>2 DEF c
<1> QED
  BY <1>1, <1>2, <1>3, <1>4, <1>5

\* The average of the browser at a bar is the mean the bot takes of the closes up to it.
LEMMA SmaIsMean ==
  ASSUME NEW b, BarsOK(b), NEW e \in 1 .. Len(b), NEW n \in 1 .. e
  PROVE  sma(b, e, n) = meanOf(SubSeq(closesOf(b), 1, e), n)
<1> DEFINE f == [i \in Bars(e, n) |-> b[i].c]
           c == closesOf(b)
<1>1. Len(b) \in Nat /\ c \in Seq(Int) /\ Len(c) = Len(b) /\ \A i \in 1 .. Len(b) : c[i] = b[i].c
  BY ListsOf
<1>2. \A i \in Bars(e, n) : f[i] = c[i]
  <2>1. \A i \in Bars(e, n) : i \in 1 .. Len(b)
    BY <1>1 DEF Bars
  <2> QED
    BY <1>1, <2>1
<1>3. sma(b, e, n) = Frac(SumOver(f, Bars(e, n)), n)
  BY DEF sma
<1> HIDE DEF f, c
<1>4. meanOf(SubSeq(c, 1, e), n) = Frac(SumOver(f, Bars(e, n)), n)
  BY <1>1, <1>2, MeanOver
<1> QED
  BY <1>3, <1>4 DEF c

\* Numbers of bars.
LEMMA PeriodIs ==
  ASSUME NEW v \in Int, v >= 1000
  PROVE  Periods(v) \in Nat \ {0}
BY DEF Periods

\* The fields of a block.
LEMMA BlockFields ==
  ASSUME NEW r, BlockOK(r)
  PROVE  /\ r.kind \in {"trend", "rsi", "bollinger", "volume", "volatility"} =>
              r.f.period \in Int /\ r.f.period >= 1000
         /\ r.kind = "sma_cross" => /\ {r.f.fast, r.f.slow, r.f.within} \subseteq Int
                                    /\ r.f.fast >= 1000 /\ r.f.slow >= 1000 /\ r.f.within >= 1000
         /\ r.kind \in {"breakout", "change"} => r.f.lookback \in Int /\ r.f.lookback >= 1000
         /\ r.kind \in {"rsi", "volatility", "change"} => r.f.value \in Int
         /\ r.kind = "breakout" => r.f.buffer \in Int
         /\ r.kind = "bollinger" => r.f.k \in Int /\ r.f.k > 0
         /\ r.kind = "volume" => r.f.mult \in Int
<1>1. ASSUME NEW s, s \in RULE_SPEC[r.kind].fields, "options" \notin DOMAIN s
      PROVE  /\ r.f[s.key] \in Int
             /\ s.int => r.f[s.key] >= 1000
             /\ s.key = "k" => r.f[s.key] > 0
  BY <1>1 DEF BlockOK
<1>2. \A key, lo, hi : /\ "options" \notin DOMAIN Whole(key, lo, hi) /\ "options" \notin DOMAIN Real(key, lo, hi)
                       /\ Whole(key, lo, hi).key = key /\ Real(key, lo, hi).key = key
                       /\ Whole(key, lo, hi).int = TRUE
  BY DEF Whole, Real
<1>3. ASSUME NEW key, NEW lo, NEW hi, Whole(key, lo, hi) \in RULE_SPEC[r.kind].fields
      PROVE  r.f[key] \in Int /\ r.f[key] >= 1000
  BY <1>1, <1>2, <1>3
<1>4. ASSUME NEW key, NEW lo, NEW hi, Real(key, lo, hi) \in RULE_SPEC[r.kind].fields
      PROVE  r.f[key] \in Int /\ (key = "k" => r.f[key] > 0)
  BY <1>1, <1>2, <1>4
<1>5. r.kind \in {"trend", "rsi", "bollinger", "volume", "volatility"} =>
              r.f.period \in Int /\ r.f.period >= 1000
  <2>1. /\ Whole("period", 5, 400) \in RULE_SPEC["trend"].fields
        /\ Whole("period", 2, 50) \in RULE_SPEC["rsi"].fields
        /\ Whole("period", 5, 100) \in RULE_SPEC["bollinger"].fields
        /\ Whole("period", 5, 100) \in RULE_SPEC["volume"].fields
        /\ Whole("period", 2, 50) \in RULE_SPEC["volatility"].fields
    BY DEF RULE_SPEC, trendKind, rsiKind, bollingerKind, volumeKind, volatilityKind, BlockKind
  <2> QED
    BY <1>3, <2>1
<1>6. r.kind = "sma_cross" => /\ {r.f.fast, r.f.slow, r.f.within} \subseteq Int
                              /\ r.f.fast >= 1000 /\ r.f.slow >= 1000 /\ r.f.within >= 1000
  <2>1. {Whole("fast", 2, 200), Whole("slow", 5, 400), Whole("within", 1, 20)} \subseteq RULE_SPEC["sma_cross"].fields
    BY DEF RULE_SPEC, smaCrossKind, BlockKind
  <2> QED
    BY <1>3, <2>1
<1>7. r.kind \in {"breakout", "change"} => r.f.lookback \in Int /\ r.f.lookback >= 1000
  <2>1. /\ Whole("lookback", 5, 200) \in RULE_SPEC["breakout"].fields
        /\ Whole("lookback", 1, 200) \in RULE_SPEC["change"].fields
    BY DEF RULE_SPEC, breakoutKind, changeKind, BlockKind
  <2> QED
    BY <1>3, <2>1
<1>8. r.kind \in {"rsi", "volatility", "change"} => r.f.value \in Int
  <2>1. /\ Real("value", 1000, 99000) \in RULE_SPEC["rsi"].fields
        /\ Real("value", 50, 10000) \in RULE_SPEC["volatility"].fields
        /\ Real("value", -50000, 50000) \in RULE_SPEC["change"].fields
    BY DEF RULE_SPEC, rsiKind, volatilityKind, changeKind, BlockKind
  <2> QED
    BY <1>4, <2>1
<1>9. /\ r.kind = "breakout" => r.f.buffer \in Int
      /\ r.kind = "bollinger" => r.f.k \in Int /\ r.f.k > 0
      /\ r.kind = "volume" => r.f.mult \in Int
  <2>1. /\ Real("buffer", 0, 2000) \in RULE_SPEC["breakout"].fields
        /\ Real("k", 1000, 4000) \in RULE_SPEC["bollinger"].fields
        /\ Real("mult", 1000, 10000) \in RULE_SPEC["volume"].fields
    BY DEF RULE_SPEC, breakoutKind, bollingerKind, volumeKind, BlockKind
  <2> QED
    BY <1>4, <2>1
<1> QED
  BY <1>5, <1>6, <1>7, <1>8, <1>9

\* A block asked about a history with a bar more than each of its periods.
Warm(r, b) ==
  \A s \in RULE_SPEC[r.kind].fields :
     "int" \in DOMAIN s /\ s.int => Len(b) >= Periods(r.f[s.key]) + 1

\* A warm rule has more bars than any of its periods.
LEMMA WarmFields ==
  ASSUME NEW r, NEW b, Warm(r, b)
  PROVE  /\ r.kind \in {"trend", "rsi", "bollinger", "volume", "volatility"} =>
              Len(b) >= Periods(r.f.period) + 1
         /\ r.kind = "sma_cross" => /\ Len(b) >= Periods(r.f.fast) + 1 /\ Len(b) >= Periods(r.f.slow) + 1
                                    /\ Len(b) >= Periods(r.f.within) + 1
         /\ r.kind \in {"breakout", "change"} => Len(b) >= Periods(r.f.lookback) + 1
<1>1. \A key, lo, hi : /\ "int" \in DOMAIN Whole(key, lo, hi) /\ Whole(key, lo, hi).int = TRUE
                       /\ Whole(key, lo, hi).key = key
  BY DEF Whole
<1>2. ASSUME NEW key, NEW lo, NEW hi, Whole(key, lo, hi) \in RULE_SPEC[r.kind].fields
      PROVE  Len(b) >= Periods(r.f[key]) + 1
  BY <1>1, <1>2 DEF Warm
<1>3. r.kind \in {"trend", "rsi", "bollinger", "volume", "volatility"} => Len(b) >= Periods(r.f.period) + 1
  <2>1. /\ Whole("period", 5, 400) \in RULE_SPEC["trend"].fields
        /\ Whole("period", 2, 50) \in RULE_SPEC["rsi"].fields
        /\ Whole("period", 5, 100) \in RULE_SPEC["bollinger"].fields
        /\ Whole("period", 5, 100) \in RULE_SPEC["volume"].fields
        /\ Whole("period", 2, 50) \in RULE_SPEC["volatility"].fields
    BY DEF RULE_SPEC, trendKind, rsiKind, bollingerKind, volumeKind, volatilityKind, BlockKind
  <2> QED
    BY <1>2, <2>1
<1>4. r.kind = "sma_cross" => /\ Len(b) >= Periods(r.f.fast) + 1 /\ Len(b) >= Periods(r.f.slow) + 1
                              /\ Len(b) >= Periods(r.f.within) + 1
  <2>1. {Whole("fast", 2, 200), Whole("slow", 5, 400), Whole("within", 1, 20)} \subseteq RULE_SPEC["sma_cross"].fields
    BY DEF RULE_SPEC, smaCrossKind, BlockKind
  <2> QED
    BY <1>2, <2>1
<1>5. r.kind \in {"breakout", "change"} => Len(b) >= Periods(r.f.lookback) + 1
  <2>1. /\ Whole("lookback", 5, 200) \in RULE_SPEC["breakout"].fields
        /\ Whole("lookback", 1, 200) \in RULE_SPEC["change"].fields
    BY DEF RULE_SPEC, breakoutKind, changeKind, BlockKind
  <2> QED
    BY <1>2, <2>1
<1> QED
  BY <1>3, <1>4, <1>5

\* The last average is the mean of the tail of all closes.
LEMMA LastSma ==
  ASSUME NEW b, BarsOK(b), NEW n \in 1 .. Len(b)
  PROVE  sma(b, Len(b), n) = meanOf(closesOf(b), n)
<1>1. Len(b) \in Nat /\ SubSeq(closesOf(b), 1, Len(b)) = closesOf(b)
  BY ListsOf
<1>2. Len(b) \in 1 .. Len(b)
  BY <1>1
<1>3. sma(b, Len(b), n) = meanOf(SubSeq(closesOf(b), 1, Len(b)), n)
  BY <1>2, SmaIsMean
<1> QED
  BY <1>1, <1>3

\* The trend.
LEMMA TrendSame ==
  ASSUME NEW b, BarsOK(b), NEW r, BlockOK(r), Warm(r, b), r.kind = "trend"
  PROVE  evalRule(r, b) <=> ruleOk(r, b)
<1> DEFINE n == Periods(r.f.period)
           c == closesOf(b)
           L == Len(b)
<1>1. n \in Nat \ {0} /\ L >= n + 1 /\ L \in Nat
  BY BlockFields, PeriodIs, WarmFields, ListsOf
<1>2. Len(c) = L /\ c[L] = b[L].c
  BY <1>1, ListsOf
<1>3. sma(b, L, n) = meanOf(c, n)
  <2>1. n \in 1 .. L
    BY <1>1
  <2> HIDE DEF n
  <2> QED
    BY <2>1, LastSma
<1>4. evalRule(r, b) <=> L >= n /\ Side(r.f.op, Whole1(b[L].c), sma(b, L, n))
  BY DEF evalRule, trendRule
<1>5. ruleOk(r, b) <=> has(c, n) /\ Side(r.f.op, Whole1(c[Len(c)]), meanOf(c, n))
  BY DEF ruleOk
<1> HIDE DEF n, c
<1> QED
  BY <1>1, <1>2, <1>3, <1>4, <1>5 DEF has

\* The cross of two averages, at one bar.
LEMMA CrossedSame ==
  ASSUME NEW b, BarsOK(b), NEW j \in Nat, NEW p \in Nat \ {0}, NEW q \in Nat \ {0}, Len(b) - j >= 2
  PROVE  CrossedUp(b, Len(b) - j, p, q) <=> botCrossed(closesOf(b), j, p, q)
<1> DEFINE c == closesOf(b)
           e == Len(b) - j
           now == SubSeq(c, 1, e)
           before == SubSeq(c, 1, e - 1)
<1>1. /\ Len(b) \in Nat /\ c \in Seq(Int) /\ Len(c) = Len(b) /\ e \in 2 .. Len(b) /\ e - 1 \in 1 .. Len(b)
      /\ e \in 0 .. Len(c) /\ e - 1 \in 0 .. Len(c) /\ e \in 1 .. Len(b)
  BY ListsOf
<1>2. Len(c) - j - 1 = e - 1 /\ Len(c) - j = e
  BY <1>1
<1>3. botCrossed(c, j, p, q) <=>
         /\ e >= 2 /\ has(before, p) /\ has(before, q)
         /\ ~Less(meanOf(before, q), meanOf(before, p)) /\ Less(meanOf(now, q), meanOf(now, p))
  BY <1>1, <1>2 DEF botCrossed
<1>4. CrossedUp(b, e, p, q) <=>
         /\ e - 1 >= Max({p, q}) /\ ~Less(sma(b, e - 1, q), sma(b, e - 1, p))
         /\ Less(sma(b, e, q), sma(b, e, p))
  BY DEF CrossedUp, AtMost
<1>5. e - 1 >= Max({p, q}) <=> e - 1 >= p /\ e - 1 >= q
  <2>1. Max({p, q}) = IF p >= q THEN p ELSE q
    BY Larger2
  <2> HIDE DEF e
  <2> QED
    BY <1>1, <2>1
<1>6. Len(before) = e - 1
  <2> HIDE DEF c, e
  <2> QED
    BY <1>1, HeadIs
<1>7. ASSUME e - 1 >= p, e - 1 >= q
      PROVE  /\ sma(b, e - 1, p) = meanOf(before, p) /\ sma(b, e - 1, q) = meanOf(before, q)
             /\ sma(b, e, p) = meanOf(now, p) /\ sma(b, e, q) = meanOf(now, q)
  <2>1. p \in 1 .. e - 1 /\ q \in 1 .. e - 1 /\ p \in 1 .. e /\ q \in 1 .. e
    BY <1>1, <1>7
  <2> HIDE DEF e
  <2> QED
    BY <1>1, <2>1, SmaIsMean
<1>8. e >= 2 /\ (has(before, p) <=> e - 1 >= p) /\ (has(before, q) <=> e - 1 >= q)
  BY <1>1, <1>6 DEF has
<1> HIDE DEF now, before, e, c
<1>9. CrossedUp(b, e, p, q) <=> botCrossed(c, j, p, q)
  BY <1>3, <1>4, <1>5, <1>7, <1>8
<1> QED
  BY <1>9 DEF c, e

\* A crossing of averages: both look for it over the same bars.
LEMMA CrossSame ==
  ASSUME NEW b, BarsOK(b), NEW r, BlockOK(r), Warm(r, b), r.kind = "sma_cross"
  PROVE  evalRule(r, b) <=> ruleOk(r, b)
<1> DEFINE p == Periods(r.f.fast)
           q == Periods(r.f.slow)
           w == Periods(r.f.within)
<1>1. p \in Nat \ {0} /\ q \in Nat \ {0} /\ w \in Nat \ {0} /\ Len(b) >= w + 1 /\ Len(b) \in Nat
  <2>1. r.f.fast \in Int /\ r.f.slow \in Int /\ r.f.within \in Int
    BY BlockFields
  <2>2. r.f.fast >= 1000 /\ r.f.slow >= 1000 /\ r.f.within >= 1000
    BY BlockFields
  <2> QED
    BY <2>1, <2>2, PeriodIs, WarmFields, ListsOf
<1>2. evalRule(r, b) <=> \E j \in 0 .. (w - 1) : CrossedUp(b, Len(b) - j, p, q)
  BY DEF evalRule, smaCrossRule
<1>3. ruleOk(r, b) <=> \E j \in 0 .. (w - 1) : botCrossed(closesOf(b), j, p, q)
  BY DEF ruleOk
<1> HIDE DEF p, q, w
<1>4. ASSUME NEW j \in 0 .. (w - 1)
      PROVE  CrossedUp(b, Len(b) - j, p, q) <=> botCrossed(closesOf(b), j, p, q)
  <2>1. j \in Nat /\ Len(b) - j >= 2
    BY <1>1
  <2> QED
    BY <1>1, <2>1, CrossedSame
<1> QED
  BY <1>2, <1>3, <1>4

\* A side taken is a comparison of ratios.
LEMMA SideIs ==
  ASSUME NEW op, NEW x, NEW y, NEW n, NEW d, NEW m, NEW e, Ratio(x, n, d), Ratio(y, m, e)
  PROVE  Side(op, x, y) <=> IF op = "above" THEN m * d < n * e ELSE n * e < m * d
BY LessRatio DEF Side

\* The gains and the losses of a window are those the bot adds up.
OneWay(x, up) == IF up THEN Max({x, 0}) ELSE Max({-x, 0})
MoveAt(c, k, up) == OneWay(c[k] - c[k - 1], up)
BotMoves(c, n, up) == [i \in 1 .. n |-> MoveAt(c, Len(c) - n + i, up)]

\* The gains (losses) the preview adds up are the bot's.
LEMMA MovesAre ==
  ASSUME NEW b, BarsOK(b), NEW n \in Nat \ {0}, Len(b) >= n + 1, NEW up \in BOOLEAN
  PROVE  Moves(b, Len(b), n, up) = SumOf(BotMoves(closesOf(b), n, up)) /\ SumOf(BotMoves(closesOf(b), n, up)) \in Nat
<1> DEFINE c == closesOf(b)
           f == [i \in Bars(Len(b), n) |->
                   LET d == b[i].c - b[i-1].c IN IF up THEN Max({d, 0}) ELSE Max({-d, 0})]
           g == BotMoves(c, n, up)
           a == Len(b) - n
<1>1. /\ Len(b) \in Nat /\ a \in Nat \ {0} /\ Len(c) = Len(b)
      /\ \A i \in 1 .. Len(b) : c[i] = b[i].c /\ b[i].c \in Nat
  BY ListsOf
<1>2. Bars(Len(b), n) = Stretch(a, n)
  BY <1>1 DEF Bars, Stretch
<1>3. Moves(b, Len(b), n, up) = SumOver(f, Stretch(a, n))
  BY <1>2 DEF Moves
<1>4. \A k \in Stretch(a, n) : f[k] = OneWay(b[k].c - b[k-1].c, up)
  BY <1>2 DEF OneWay
<1>5. DOMAIN g = 1 .. n /\ \A i \in 1 .. n : g[i] = MoveAt(c, Len(c) - n + i, up)
  BY DEF BotMoves
<1>6. \A x \in Int : OneWay(x, up) \in Nat
  <2>1. ASSUME NEW x \in Int PROVE Max({x, 0}) \in Nat /\ Max({-x, 0}) \in Nat
    <3>1. Max({x, 0}) = (IF x >= 0 THEN x ELSE 0) /\ Max({-x, 0}) = (IF -x >= 0 THEN -x ELSE 0)
      BY Larger2
    <3> QED
      BY <3>1
  <2> QED
    BY <2>1 DEF OneWay
<1> HIDE DEF f, g, a, c
<1>7. ASSUME NEW i \in 1 .. n
      PROVE  f[a + i] \in Int /\ f[a + i] \in Nat /\ g[i] = f[a + i]
  <2> DEFINE k == a + i
  <2>1. k \in 1 .. Len(b) /\ k - 1 \in 1 .. Len(b) /\ k \in Stretch(a, n) /\ Len(c) - n + i = k
    BY <1>1 DEF Stretch, a
  <2> HIDE DEF k
  <2>2. g[i] = OneWay(c[k] - c[k - 1], up)
    BY <1>5, <2>1 DEF MoveAt
  <2>3. f[k] = OneWay(b[k].c - b[k-1].c, up)
    BY <1>4, <2>1
  <2>4. c[k] - c[k - 1] = b[k].c - b[k-1].c /\ b[k].c - b[k-1].c \in Int
    BY <1>1, <2>1
  <2> QED
    BY <1>6, <2>2, <2>3, <2>4 DEF k
<1>8. SumOver(f, Stretch(a, n)) = SumOver(g, 1 .. n)
  <2>1. MovedBy(f, a, n, g)
    BY <1>7 DEF MovedBy
  <2> QED
    BY <1>1, <2>1, SumShift
<1>9. SumOver(g, 1 .. n) \in Nat
  <2>1. IsFiniteSet(1 .. n)
    BY FS_Interval
  <2>2. \A i \in 1 .. n : g[i] \in Nat
    BY <1>7
  <2> QED
    BY <2>1, <2>2, SumNat
<1>10. SumOf(g) = SumOver(g, 1 .. n)
  BY <1>5 DEF SumOf
<1> QED
  BY <1>3, <1>8, <1>9, <1>10 DEF g, c

\* The strength index.
LEMMA RsiIs ==
  ASSUME NEW b, BarsOK(b), NEW n \in Nat \ {0}, Len(b) >= n + 1
  PROVE  rsi(b, Len(b), n) = botRsi(closesOf(b), n) /\ \E x \in Int, y \in Nat \ {0} : Ratio(rsi(b, Len(b), n), x, y)
<1> DEFINE c == closesOf(b)
           d == [i \in 1 .. n |-> c[Len(c) - n + i] - c[Len(c) - n + i - 1]]
           gs == [i \in 1 .. n |-> Max({d[i], 0})]
           ls == [i \in 1 .. n |-> Max({-d[i], 0})]
           G == Moves(b, Len(b), n, TRUE)
           Z == Moves(b, Len(b), n, FALSE)
<1>2. G = SumOf(gs) /\ G \in Nat
  <2>1. gs = BotMoves(c, n, TRUE)
    BY DEF BotMoves, MoveAt, OneWay
  <2> HIDE DEF gs
  <2>2. Moves(b, Len(b), n, TRUE) = SumOf(BotMoves(c, n, TRUE)) /\ SumOf(BotMoves(c, n, TRUE)) \in Nat
    BY MovesAre
  <2> QED
    BY <2>1, <2>2
<1>3. Z = SumOf(ls) /\ Z \in Nat
  <2>1. ls = BotMoves(c, n, FALSE)
    BY DEF BotMoves, MoveAt, OneWay
  <2> HIDE DEF ls
  <2>2. Moves(b, Len(b), n, FALSE) = SumOf(BotMoves(c, n, FALSE)) /\ SumOf(BotMoves(c, n, FALSE)) \in Nat
    BY MovesAre
  <2> QED
    BY <2>1, <2>2
<1>4. rsi(b, Len(b), n) = IF Z = 0 THEN Whole1(100) ELSE Frac(100 * G, G + Z)
  BY DEF rsi
<1>5. botRsi(c, n) = IF SumOf(ls) = 0 THEN Whole1(100)
                     ELSE Minus(Whole1(100), Frac(100 * SumOf(ls), SumOf(ls) + SumOf(gs)))
  BY DEF botRsi
<1> HIDE DEF c, gs, ls, G, Z
<1>6. CASE Z = 0
  BY <1>3, <1>4, <1>5, <1>6, WholeRatio DEF c
<1>7. CASE Z # 0
  <2>1. /\ G + Z \in Nat \ {0} /\ Z + G \in Nat \ {0} /\ 100 * G \in Int /\ 100 * Z \in Int
    BY <1>2, <1>3, <1>7
  <2>2. Frac(100 * G, G + Z) \in Fracs /\ Ratio(Frac(100 * G, G + Z), 100 * G, G + Z)
    BY <2>1, FracIn, FracRatio
  <2>3. Frac(100 * Z, Z + G) \in Fracs /\ Ratio(Frac(100 * Z, Z + G), 100 * Z, Z + G)
    BY <2>1, FracIn, FracRatio
  <2>4. Ratio(Whole1(100), 100, 1) /\ Whole1(100) \in Fracs
    BY WholeRatio, WholeIn
  <2> DEFINE m == Minus(Whole1(100), Frac(100 * Z, Z + G))
  <2>5. Ratio(m, 100 * (Z + G) - (100 * Z) * 1, 1 * (Z + G))
    BY <2>3, <2>4, MinusRatio
  <2>6. m \in Fracs
    BY <2>3, <2>4, ArithmeticIn DEF Fracs
  <2>7. (100 * G) * (1 * (Z + G)) = (100 * (Z + G) - (100 * Z) * 1) * (G + Z)
    <3>1. 100 * (Z + G) - (100 * Z) * 1 = 100 * G /\ 1 * (Z + G) = G + Z
      BY <1>2, <1>3
    <3> QED
      BY <3>1
  <2> HIDE DEF m
  <2>8. Frac(100 * G, G + Z) = m
    BY <2>2, <2>5, <2>6, <2>7, RatioEqual
  <2>9. rsi(b, Len(b), n) = Frac(100 * G, G + Z) /\ botRsi(c, n) = m
    BY <1>2, <1>3, <1>4, <1>5, <1>7 DEF m
  <2> QED
    BY <2>1, <2>2, <2>8, <2>9 DEF c
<1> QED
  BY <1>6, <1>7

\* The relative strength block: both compare the same fraction.
LEMMA RsiSame ==
  ASSUME NEW b, BarsOK(b), NEW r, BlockOK(r), Warm(r, b), r.kind = "rsi"
  PROVE  evalRule(r, b) <=> ruleOk(r, b)
<1> DEFINE n == Periods(r.f.period)
<1>1. n \in Nat \ {0} /\ Len(b) >= n + 1 /\ Len(b) \in Nat /\ Len(closesOf(b)) = Len(b)
  BY BlockFields, PeriodIs, WarmFields, ListsOf
<1>2. rsi(b, Len(b), n) = botRsi(closesOf(b), n)
  <2> HIDE DEF n
  <2> QED
    BY <1>1, RsiIs
<1>3. evalRule(r, b) <=> Len(b) > n /\ Side(r.f.op, rsi(b, Len(b), n), Milli(r.f.value))
  BY DEF evalRule, rsiRule
<1>4. ruleOk(r, b) <=> has(closesOf(b), n + 1) /\ Side(r.f.op, botRsi(closesOf(b), n), Milli(r.f.value))
  BY DEF ruleOk
<1> HIDE DEF n
<1> QED
  BY <1>1, <1>2, <1>3, <1>4 DEF has

\* Extremes of some of the bars.
LEMMA HighIs ==
  ASSUME NEW b, BarsOK(b), NEW I, I \subseteq 1 .. Len(b), I # {}
  PROVE  /\ \E i \in I : HighOf(b, I) = b[i].h
         /\ \A i \in I : b[i].h <= HighOf(b, I)
         /\ \E i \in I : LowOf(b, I) = b[i].l
         /\ \A i \in I : LowOf(b, I) <= b[i].l
         /\ HighOf(b, I) \in Nat \ {0} /\ LowOf(b, I) \in Nat \ {0}
<1> DEFINE H == {b[i].h : i \in I}
           W == {b[i].l : i \in I}
<1>1. IsFiniteSet(I)
  <2>1. Len(b) \in Nat
    BY ListsOf
  <2>2. IsFiniteSet(1 .. Len(b))
    BY <2>1, FS_Interval
  <2> QED
    BY <2>2, FS_Subset
<1>2. \A i \in I : b[i].h \in Nat \ {0} /\ b[i].l \in Nat \ {0}
  BY DEF BarsOK, CandleOK
<1>3. IsFiniteSet(H) /\ IsFiniteSet(W)
  <2> DEFINE u == [i \in I |-> b[i].h]
             v == [i \in I |-> b[i].l]
  <2>1. u \in Surjection(I, H) /\ v \in Surjection(I, W)
    BY DEF Surjection
  <2> QED
    BY <1>1, <2>1, FS_Surjection
<1>4. H # {} /\ W # {} /\ H \subseteq Nat \ {0} /\ W \subseteq Nat \ {0}
  BY <1>2, Zenon
<1>5. HighOf(b, I) = Max(H) /\ LowOf(b, I) = Min(W)
  BY DEF HighOf, LowOf
<1> HIDE DEF H, W
<1>6. Max(H) \in H /\ (\A x \in H : x <= Max(H)) /\ Min(W) \in W /\ \A x \in W : Min(W) <= x
  <2>1. H \subseteq Int /\ W \subseteq Int
    BY <1>4
  <2> QED
    BY <1>3, <1>4, <2>1, Extremes
<1>7. Max(H) \in Nat \ {0} /\ Min(W) \in Nat \ {0}
  BY <1>4, <1>6
<1> USE DEF H, W
<1> QED
  BY <1>5, <1>6, <1>7

\* The break-out.
LEMMA BreakoutSame ==
  ASSUME NEW b, BarsOK(b), NEW r, BlockOK(r), Warm(r, b), r.kind = "breakout"
  PROVE  evalRule(r, b) <=> ruleOk(r, b)
<1> DEFINE n == Periods(r.f.lookback)
           L == Len(b)
           c == closesOf(b)
           hs == [i \in DOMAIN b |-> b[i].h]
           p == Tail_(SubSeq(hs, 1, L - 1), n)
           H == priorHigh(b, L, n)
           w == r.f.buffer
<1>1. n \in Nat \ {0} /\ L >= n + 1 /\ L \in Nat /\ Len(c) = L /\ c[L] = b[L].c /\ b[L].c \in Nat /\ DOMAIN b = 1 .. L
  <2>1. n \in Nat \ {0} /\ L >= n + 1 /\ L \in Nat
    BY BlockFields, PeriodIs, WarmFields, ListsOf
  <2>2. L \in 1 .. L
    BY <2>1
  <2> QED
    BY <2>1, <2>2, ListsOf
<1>2. w \in Int
  BY BlockFields
<1>3. evalRule(r, b) <=>
        L > n /\ AtMost(Times(Milli(100000 + w), Frac(H, 100)), Whole1(b[L].c))
  BY DEF evalRule, breakoutRule
<1>4. ruleOk(r, b) <=> has(b, n + 1) /\ c[Len(c)] * 100000 >= Max(Range(p)) * (100000 + w)
  BY DEF ruleOk
<1> DEFINE I == (L - n) .. (L - 1)
<1> HIDE DEF n, w
<1>5. I \subseteq 1 .. L /\ I # {}
  <2>1. L - 1 \in I
    BY <1>1
  <2>2. \A i \in I : i \in 1 .. L
    BY <1>1
  <2> HIDE DEF I, L
  <2> QED
    BY <2>1, <2>2
<1>6. H = HighOf(b, I)
  BY DEF priorHigh
<1>7. H \in Nat \ {0}
  <2> HIDE DEF I, H
  <2> QED
    BY <1>5, <1>6, HighIs
<1>8. Range(p) = {b[i].h : i \in I}
  <2>1. hs \in Seq(Int) /\ Len(hs) = L /\ \A i \in 1 .. L : hs[i] = b[i].h
    <3>1. \A i \in 1 .. L : b[i].h \in Int
      BY DEF BarsOK, CandleOK
    <3> QED
      BY <1>1, <3>1
  <2>2. L - 1 \in 0 .. Len(hs) /\ n \in 0 .. L - 1
    BY <1>1, <2>1
  <2> DEFINE q == SubSeq(hs, 1, L - 1)
  <2> HIDE DEF hs
  <2>3. q \in Seq(Int) /\ Len(q) = L - 1 /\ \A i \in 1 .. L - 1 : q[i] = hs[i]
    BY <2>1, <2>2, HeadIs
  <2> HIDE DEF q
  <2>4. DOMAIN p = 1 .. n /\ \A i \in 1 .. n : p[i] = q[Len(q) - n + i]
    <3>1. n \in 0 .. Len(q)
      BY <2>2, <2>3
    <3>2. DOMAIN Tail_(q, n) = 1 .. n /\ \A i \in 1 .. n : Tail_(q, n)[i] = q[Len(q) - n + i]
      BY <2>3, <3>1, TailIs
    <3> QED
      BY <3>2 DEF q
  <2> HIDE DEF p
  <2>5. ASSUME NEW i \in 1 .. n PROVE p[i] = b[L - 1 - n + i].h /\ L - 1 - n + i \in I
    <3> DEFINE k == L - 1 - n + i
    <3>1. k \in 1 .. L - 1 /\ k \in 1 .. L /\ k \in I
      BY <1>1
    <3>2. p[i] = q[k]
      BY <2>3, <2>4
    <3> HIDE DEF k, I
    <3>3. q[k] = b[k].h
      BY <2>1, <2>3, <3>1
    <3> QED
      BY <3>1, <3>2, <3>3 DEF k
  <2>6. ASSUME NEW k \in I PROVE \E i \in 1 .. n : p[i] = b[k].h
    <3>1. k - (L - 1 - n) \in 1 .. n /\ L - 1 - n + (k - (L - 1 - n)) = k
      BY <1>1
    <3> QED
      BY <2>5, <3>1
  <2> HIDE DEF I
  <2> QED
    BY <2>4, <2>5, <2>6 DEF Range
<1>9. Max(Range(p)) = H
  BY <1>6, <1>8 DEF HighOf
<1> HIDE DEF H, p, c, I
<1>10. AtMost(Times(Milli(100000 + w), Frac(H, 100)), Whole1(b[L].c))
           <=> b[L].c * 100000 >= H * (100000 + w)
  <2> DEFINE x == Times(Milli(100000 + w), Frac(H, 100))
             v == b[L].c
             m == 1000
             h == 100
  <2>1. Ratio(Milli(100000 + w), 100000 + w, m)
    BY <1>2, FracRatio DEF Milli
  <2>2. Ratio(Frac(H, 100), H, h)
    BY <1>7, FracRatio
  <2>0. m * h = 100000
    OBVIOUS
  <2> HIDE DEF m, h
  <2>3. Ratio(x, (100000 + w) * H, m * h)
    BY <2>1, <2>2, TimesRatio
  <2>4. Ratio(Whole1(v), v, 1)
    BY <1>1, WholeRatio
  <2> HIDE DEF x, v
  <2>5. Less(Whole1(v), x) <=> v * (m * h) < ((100000 + w) * H) * 1
    BY <2>3, <2>4, LessRatio
  <2>6. v \in Int /\ (100000 + w) * H \in Int /\ H * (100000 + w) = (100000 + w) * H
    BY <1>1, <1>2, <1>7 DEF v
  <2>7. AtMost(x, Whole1(v)) <=> v * 100000 >= H * (100000 + w)
    <3> DEFINE y == (100000 + w) * H
    <3>1. H * (100000 + w) = y /\ y \in Int /\ (Less(Whole1(v), x) <=> v * 100000 < y * 1)
      BY <2>0, <2>5, <2>6
    <3> HIDE DEF y
    <3>2. Less(Whole1(v), x) <=> v * 100000 < y
      BY <2>6, <3>1
    <3> QED
      BY <2>6, <3>1, <3>2 DEF AtMost
  <2> QED
    BY <2>7 DEF x, v
<1> QED
  BY <1>1, <1>3, <1>4, <1>9, <1>10 DEF has

\* The volume.
LEMMA VolumeSame ==
  ASSUME NEW b, BarsOK(b), NEW r, BlockOK(r), Warm(r, b), r.kind = "volume"
  PROVE  evalRule(r, b) <=> ruleOk(r, b)
<1> DEFINE n == Periods(r.f.period)
           L == Len(b)
           vs == [i \in DOMAIN b |-> b[i].v]
           f == [i \in Bars(L - 1, n) |-> b[i].v]
<1>1. n \in Nat \ {0} /\ L >= n + 1 /\ L \in Nat /\ DOMAIN b = 1 .. L /\ b \in Seq({b[i] : i \in DOMAIN b})
  BY BlockFields, PeriodIs, WarmFields, ListsOf DEF BarsOK
<1>2. evalRule(r, b) <=> L > n /\ ~Less(Whole1(b[L].v), Times(Milli(r.f.mult), avgVolume(b, L - 1, n)))
  BY DEF evalRule, volumeRule, AtMost
<1>3. ruleOk(r, b) <=>
         /\ has(SubSeq(b, 1, L - 1), n)
         /\ ~Less(Whole1(b[L].v), Times(Milli(r.f.mult), meanOf(SubSeq(vs, 1, L - 1), n)))
  BY DEF ruleOk
<1> HIDE DEF n
<1>4. vs \in Seq(Int) /\ Len(vs) = L /\ \A i \in 1 .. L : vs[i] = b[i].v
  <2>1. \A i \in 1 .. L : b[i].v \in Int
    BY DEF BarsOK, CandleOK
  <2> QED
    BY <1>1, <2>1
<1>5. L - 1 \in 1 .. Len(vs) /\ n \in 1 .. L - 1 /\ L - 1 \in 0 .. L
  BY <1>1, <1>4
<1>6. \A i \in Bars(L - 1, n) : f[i] = vs[i]
  <2>1. \A i \in Bars(L - 1, n) : i \in 1 .. L
    BY <1>1 DEF Bars
  <2> QED
    BY <1>4, <2>1
<1>7. avgVolume(b, L - 1, n) = Frac(SumOver(f, Bars(L - 1, n)), n)
  BY DEF avgVolume
<1> HIDE DEF f, vs
<1>8. meanOf(SubSeq(vs, 1, L - 1), n) = Frac(SumOver(f, Bars(L - 1, n)), n)
  BY <1>4, <1>5, <1>6, MeanOver
<1>9. Len(SubSeq(b, 1, L - 1)) = L - 1
  BY <1>1, <1>5, HeadIs
<1> QED
  BY <1>1, <1>2, <1>3, <1>5, <1>7, <1>8, <1>9 DEF has

\* The true range of a bar.
LEMMA RangeIs ==
  ASSUME NEW b, BarsOK(b), NEW i \in 2 .. Len(b)
  PROVE  TrueRange(b, i) \in Nat /\ TrueRange(b, i) >= b[i].h - b[i].l
<1> DEFINE x == b[i].h - b[i].l
           y == Abs(b[i].h - b[i-1].c)
           z == Abs(b[i].l - b[i-1].c)
           S == {x, y, z}
<1>1. i \in 1 .. Len(b) /\ i - 1 \in 1 .. Len(b)
  BY ListsOf
<1>2. b[i].h \in Int /\ b[i].l \in Int /\ b[i].l <= b[i].h /\ b[i-1].c \in Int
  <2>1. CandleOK(b[i]) /\ CandleOK(b[i-1])
    BY <1>1 DEF BarsOK
  <2>2. b[i].h \in Nat /\ b[i].l \in Nat /\ b[i].c \in Nat /\ b[i-1].c \in Nat
    BY <2>1 DEF CandleOK
  <2>3. b[i].l <= b[i].c /\ b[i].c <= b[i].h
    BY <2>1 DEF CandleOK
  <2> QED
    BY <2>2, <2>3
<1>3. x \in Nat /\ y \in Int /\ z \in Int
  BY <1>2 DEF Abs
<1>4. TrueRange(b, i) = Max(S)
  BY DEF TrueRange
<1> HIDE DEF x, y, z
<1>5. IsFiniteSet(S) /\ S # {} /\ S \subseteq Int
  <2>1. IsFiniteSet({x}) /\ {x, y} = {x} \cup {y} /\ S = {x, y} \cup {z}
    BY FS_Singleton
  <2>2. IsFiniteSet({x, y})
    BY <2>1, FS_AddElement
  <2> QED
    BY <1>3, <2>1, <2>2, FS_AddElement
<1>6. Max(S) \in S /\ \A w \in S : w <= Max(S)
  BY <1>5, Extremes
<1>7. Max(S) \in Int /\ x <= Max(S)
  BY <1>3, <1>6
<1> QED
  BY <1>3, <1>4, <1>7 DEF x

\* The mean of the ranges.
LEMMA AtrIs ==
  ASSUME NEW b, BarsOK(b), NEW n \in Nat \ {0}, Len(b) >= n + 1
  PROVE  /\ ranges(b, Len(b), n) \in Nat
         /\ meanOf([i \in 1 .. (Len(b) - 1) |-> TrueRange(b, i + 1)], n) = atr(b, Len(b), n)
<1> DEFINE L == Len(b)
           a == L - n
           f == [i \in Bars(L, n) |-> TrueRange(b, i)]
           s == [i \in 1 .. (L - 1) |-> TrueRange(b, i + 1)]
           t == Tail_(s, n)
<1>1. L \in Nat /\ a \in Nat \ {0} /\ a \in Int /\ n \in 0 .. L - 1 /\ L - 1 \in Nat
  BY ListsOf
<1>2. Bars(L, n) = Stretch(a, n)
  BY <1>1 DEF Bars, Stretch
<1>3. ranges(b, L, n) = SumOver(f, Stretch(a, n))
  BY <1>2 DEF ranges
<1>4. \A k \in Stretch(a, n) : f[k] = TrueRange(b, k)
  BY <1>2
<1>5. s \in Seq(Int) /\ Len(s) = L - 1 /\ \A i \in 1 .. L - 1 : s[i] = TrueRange(b, i + 1)
  <2>1. \A i \in 1 .. L - 1 : TrueRange(b, i + 1) \in Int
    <3>1. \A i \in 1 .. L - 1 : i + 1 \in 2 .. L
      BY <1>1
    <3> QED
      BY <3>1, RangeIs
  <2> QED
    BY <1>1, <2>1
<1> HIDE DEF f, s, a
<1>6. DOMAIN t = 1 .. n /\ \A i \in 1 .. n : t[i] = s[Len(s) - n + i]
  <2>1. n \in 0 .. Len(s)
    BY <1>1, <1>5
  <2>2. s \in Seq(Int)
    BY <1>5
  <2>3. DOMAIN Tail_(s, n) = 1 .. n /\ \A i \in 1 .. n : Tail_(s, n)[i] = s[Len(s) - n + i]
    BY <2>1, <2>2, TailIs
  <2> QED
    BY <2>3
<1> HIDE DEF t
<1>7. ASSUME NEW i \in 1 .. n
      PROVE  f[a + i] \in Int /\ f[a + i] \in Nat /\ t[i] = f[a + i]
  <2> DEFINE k == a + i
             j == Len(s) - n + i
  <2>1. k \in 2 .. L /\ k \in Stretch(a, n) /\ j \in 1 .. L - 1 /\ j + 1 = k
    BY <1>1, <1>5 DEF Stretch, a
  <2> HIDE DEF k, j
  <2>2. t[i] = TrueRange(b, k)
    BY <1>5, <1>6, <2>1 DEF j
  <2>3. f[k] = TrueRange(b, k) /\ TrueRange(b, k) \in Nat
    BY <1>4, <2>1, RangeIs
  <2> QED
    BY <2>2, <2>3 DEF k
<1>8. SumOver(f, Stretch(a, n)) = SumOver(t, 1 .. n)
  <2>1. MovedBy(f, a, n, t)
    BY <1>7 DEF MovedBy
  <2> QED
    BY <1>1, <2>1, SumShift
<1>9. SumOver(t, 1 .. n) \in Nat
  <2>1. IsFiniteSet(1 .. n)
    BY FS_Interval
  <2>2. \A i \in 1 .. n : t[i] \in Nat
    BY <1>7
  <2> QED
    BY <2>1, <2>2, SumNat
<1>10. meanOf(s, n) = Frac(SumOver(t, 1 .. n), n)
  BY <1>6 DEF meanOf, SumOf, t
<1>11. atr(b, L, n) = Frac(ranges(b, L, n), n)
  BY DEF atr
<1> QED
  BY <1>3, <1>8, <1>9, <1>10, <1>11 DEF s

\* A product of three by a fraction is compared as its numbers are.
LEMMA VolatilitySame ==
  ASSUME NEW b, BarsOK(b), NEW r, BlockOK(r), Warm(r, b), r.kind = "volatility"
  PROVE  evalRule(r, b) <=> ruleOk(r, b)
<1> DEFINE n == Periods(r.f.period)
           L == Len(b)
           c == closesOf(b)
           p == b[L].c
           R == ranges(b, L, n)
           v == r.f.value
           op == r.f.op
           at == atr(b, L, n)
           s == [i \in 1 .. (L - 1) |-> TrueRange(b, i + 1)]
           h == 100
           m == 1000
<1>1. n \in Nat \ {0} /\ L >= n + 1 /\ L \in Nat /\ c[Len(c)] = p /\ p \in Nat \ {0} /\ v \in Int
  <2>1. n \in Nat \ {0} /\ L >= n + 1 /\ L \in Nat /\ v \in Int
    BY BlockFields, PeriodIs, WarmFields, ListsOf
  <2>2. L \in 1 .. L
    BY <2>1
  <2> QED
    BY <2>1, <2>2, ListsOf
<1>2. evalRule(r, b) <=> L > n /\ Side(op, Times(Whole1(h), at), Times(Milli(v), Whole1(p)))
  BY DEF evalRule, volatilityRule, HasAtr
<1>3. ruleOk(r, b) <=> has(b, n + 1) /\ Side(op, Times(meanOf(s, n), Frac(h, c[Len(c)])), Milli(v))
  BY DEF ruleOk
<1>4. h \in Nat \ {0} /\ m \in Nat \ {0}
  OBVIOUS
<1>5. Ratio(Milli(v), v, m)
  BY <1>1, FracRatio DEF Milli
<1> HIDE DEF n, v, c, p, h, m
<1>6. R \in Nat /\ meanOf(s, n) = at
  BY <1>1, AtrIs
<1>7. at = Frac(R, n)
  BY DEF atr
<1> HIDE DEF R, at, s
<1>8. Ratio(at, R, n)
  BY <1>1, <1>6, <1>7, FracRatio
<1>9. Ratio(Whole1(h), h, 1) /\ Ratio(Whole1(p), p, 1) /\ Ratio(Frac(h, p), h, p)
  BY <1>1, <1>4, WholeRatio, FracRatio
<1>10. Ratio(Times(Whole1(h), at), h * R, 1 * n) /\ Ratio(Times(Milli(v), Whole1(p)), v * p, m * 1)
  BY <1>5, <1>8, <1>9, TimesRatio
<1>11. Ratio(Times(at, Frac(h, p)), R * h, n * p)
  BY <1>8, <1>9, TimesRatio
<1>12. Side(op, Times(Whole1(h), at), Times(Milli(v), Whole1(p))) <=>
          IF op = "above" THEN (v * p) * (1 * n) < (h * R) * (m * 1) ELSE (h * R) * (m * 1) < (v * p) * (1 * n)
  BY <1>10, SideIs
<1>13. Side(op, Times(at, Frac(h, p)), Milli(v)) <=>
          IF op = "above" THEN v * (n * p) < (R * h) * m ELSE (R * h) * m < v * (n * p)
  BY <1>5, <1>11, SideIs
<1>14. (v * p) * (1 * n) = v * (n * p) /\ (h * R) * (m * 1) = (R * h) * m
  BY <1>1, <1>4, <1>6
<1> QED
  BY <1>1, <1>2, <1>3, <1>6, <1>12, <1>13, <1>14 DEF has

\* The change over some bars.
LEMMA ChangeSame ==
  ASSUME NEW b, BarsOK(b), NEW r, BlockOK(r), Warm(r, b), r.kind = "change"
  PROVE  evalRule(r, b) <=> ruleOk(r, b)
<1> DEFINE n == Periods(r.f.lookback)
           L == Len(b)
           c == closesOf(b)
           p == b[L].c
           q == b[L - n].c
           v == r.f.value
           op == r.f.op
           h == 100
<1>1. n \in Nat \ {0} /\ L >= n + 1 /\ L \in Nat /\ Len(c) = L
  BY BlockFields, PeriodIs, WarmFields, ListsOf
<1>2. c[Len(c)] = p /\ c[Len(c) - n] = q /\ p \in Nat \ {0} /\ q \in Nat \ {0}
  <2>1. L \in 1 .. L /\ L - n \in 1 .. L
    BY <1>1
  <2> HIDE DEF n
  <2> QED
    BY <1>1, <2>1, ListsOf
<1>3. evalRule(r, b) <=> L > n /\ Side(op, Frac(h * (p - q), q), Milli(v))
  BY DEF evalRule, changeRule
<1>4. ruleOk(r, b) <=> /\ has(c, n + 1)
                       /\ Side(op, Minus(Frac(h * c[Len(c)], c[Len(c) - n]), Whole1(h)), Milli(v))
  BY DEF ruleOk
<1>5. h \in Nat \ {0}
  OBVIOUS
<1> HIDE DEF n, c, p, q, v, h
<1>6. Frac(h * (p - q), q) = Minus(Frac(h * p, q), Whole1(h))
  <2>1. h * (p - q) \in Int /\ h * p \in Int
    BY <1>2, <1>5
  <2>2. Frac(h * (p - q), q) \in Fracs /\ Ratio(Frac(h * (p - q), q), h * (p - q), q)
    BY <1>2, <2>1, FracIn, FracRatio
  <2>3. Frac(h * p, q) \in Fracs /\ Ratio(Frac(h * p, q), h * p, q)
    BY <1>2, <2>1, FracIn, FracRatio
  <2>4. Whole1(h) \in Fracs /\ Ratio(Whole1(h), h, 1)
    BY <1>5, WholeIn, WholeRatio
  <2>5. Minus(Frac(h * p, q), Whole1(h)) \in Fracs
    BY <2>3, <2>4, ArithmeticIn DEF Fracs
  <2>6. Ratio(Minus(Frac(h * p, q), Whole1(h)), (h * p) * 1 - h * q, q * 1)
    BY <2>3, <2>4, MinusRatio
  <2>7. (h * (p - q)) * (q * 1) = ((h * p) * 1 - h * q) * q
    BY <1>2, <1>5
  <2> QED
    BY <2>2, <2>5, <2>6, <2>7, RatioEqual
<1> QED
  BY <1>1, <1>2, <1>3, <1>4, <1>6 DEF has

\* Confirmation.
LEMMA ConfirmSame ==
  ASSUME NEW b, BarsOK(b), b # <<>>, NEW r, r.kind = "confirm"
  PROVE  evalRule(r, b) <=> ruleOk(r, b)
<1> DEFINE L == Len(b)
           c == closesOf(b)
           hs == [i \in DOMAIN b |-> b[i].h]
<1>1. L \in Nat /\ Len(c) = L /\ DOMAIN b = 1 .. L
  BY ListsOf
<1>2. evalRule(r, b) <=> L >= 2 /\ b[L].c > b[L - 1].h
  BY DEF evalRule, confirmRule
<1>3. ruleOk(r, b) <=> has(b, 2) /\ c[Len(c)] > hs[Len(hs) - 1]
  BY DEF ruleOk
<1>4. ASSUME L >= 2
      PROVE  c[Len(c)] = b[L].c /\ hs[Len(hs) - 1] = b[L - 1].h
  <2>1. Len(hs) = L /\ L \in 1 .. L /\ L - 1 \in 1 .. L
    <3>1. Len(hs) = L
      BY <1>1, hs = [i \in 1 .. L |-> b[i].h]
    <3> QED
      BY <1>1, <1>4, <3>1
  <2>2. hs[L - 1] = b[L - 1].h
    BY <1>1, <2>1
  <2> HIDE DEF hs
  <2> QED
    BY <1>1, <2>1, <2>2, ListsOf
<1> QED
  BY <1>2, <1>3, <1>4 DEF has

\* A strict comparison.
LEMMA StrictIs ==
  ASSUME NEW x \in Fracs, NEW y \in Fracs
  PROVE  AtMost(x, y) /\ y # x <=> Less(x, y)
<1>1. PICK a \in Int, b \in Nat \ {0}, p \in Int, q \in Nat \ {0} : x = <<a, b>> /\ y = <<p, q>>
  BY DEF Fracs
<1>2. Ratio(x, a, b) /\ Ratio(y, p, q)
  BY <1>1, SelfRatio
<1>3. x = y <=> a * q = p * b
  <2>1. ASSUME a * q = p * b PROVE x = y
    BY <1>2, <2>1, RatioEqual
  <2>2. x = y => a * q = p * b
    BY <1>1
  <2> QED
    BY <2>1, <2>2
<1>4. Less(y, x) <=> p * b < a * q
  BY <1>2, LessRatio
<1>6. Less(x, y) <=> a * q < p * b
  BY <1>2, LessRatio
<1>5. a * q \in Int /\ p * b \in Int
  OBVIOUS
<1> QED
  BY <1>3, <1>4, <1>5, <1>6 DEF AtMost

\* The squared deviations the bot adds up are the variance of the browser.
LEMMA DeviationsAre ==
  ASSUME NEW n \in Nat \ {0}, NEW t, \A i \in 1 .. n : t[i] \in Int
  PROVE  /\ SumOver(t, 1 .. n) \in Int /\ SumOver([i \in 1 .. n |-> t[i] * t[i]], 1 .. n) \in Int
         /\ SumOver([i \in 1 .. n |-> (n * t[i] - SumOver(t, 1 .. n)) * (n * t[i] - SumOver(t, 1 .. n))], 1 .. n)
              = n * (n * SumOver([i \in 1 .. n |-> t[i] * t[i]], 1 .. n) - SumOver(t, 1 .. n) * SumOver(t, 1 .. n))
<1> DEFINE S == SumOver(t, 1 .. n)
           sq == [i \in 1 .. n |-> t[i] * t[i]]
           Q == SumOver(sq, 1 .. n)
           dev == [i \in 1 .. n |-> (n * t[i] - S) * (n * t[i] - S)]
           a == n * n
           b == -(2 * (n * S))
           c == S * S
<1>1. IsFiniteSet(1 .. n) /\ Cardinality(1 .. n) = n
  BY FS_Interval
<1>2. S \in Int
  BY <1>1, SumInt
<1>3. \A i \in 1 .. n : sq[i] \in Int /\ sq[i] = t[i] * t[i]
  OBVIOUS
<1>4. \A i \in 1 .. n : dev[i] = (n * t[i] - S) * (n * t[i] - S)
  OBVIOUS
<1> HIDE DEF sq, dev, S
<1>5. Q \in Int
  BY <1>1, <1>3, SumInt
<1> HIDE DEF Q
<1>6. a \in Int /\ b \in Int /\ c \in Int
  BY <1>2
<1>7. ASSUME NEW i \in 1 .. n
      PROVE  sq[i] \in Int /\ t[i] \in Int /\ dev[i] = a * sq[i] + b * t[i] + c
  <2>1. t[i] \in Int /\ sq[i] = t[i] * t[i] /\ dev[i] = (n * t[i] - S) * (n * t[i] - S)
    BY <1>3, <1>4
  <2>2. \A x \in Int : (n * x - S) * (n * x - S) = (n * n) * (x * x) + (-(2 * (n * S))) * x + S * S
    BY <1>2
  <2> QED
    BY <1>3, <2>1, <2>2
<1> HIDE DEF a, b, c
<1>8. SumOver(dev, 1 .. n) = a * SumOver(sq, 1 .. n) + b * SumOver(t, 1 .. n) + c * Cardinality(1 .. n)
  <2> DEFINE T == 1 .. n
  <2>1. \A i \in T : sq[i] \in Int /\ t[i] \in Int /\ dev[i] = a * sq[i] + b * t[i] + c
    BY <1>7
  <2>2. IsFiniteSet(T)
    BY <1>1
  <2> HIDE DEF T
  <2>3. SumOver(dev, T) = a * SumOver(sq, T) + b * SumOver(t, T) + c * Cardinality(T)
    BY <1>6, <2>1, <2>2, SumLinear
  <2> QED
    BY <2>3 DEF T
<1>9. SumOver(dev, 1 .. n) = a * Q + b * S + c * n
  BY <1>1, <1>8 DEF Q, S
<1>10. a * Q + b * S + c * n = n * (n * Q - S * S)
  BY <1>2, <1>5 DEF a, b, c
<1> QED
  BY <1>2, <1>5, <1>9, <1>10 DEF S, Q, sq, dev

\* The preview's variance, over the closes the bot takes it of.
LEMMA VarianceIs ==
  ASSUME NEW b, BarsOK(b), NEW n \in Nat \ {0}, Len(b) >= n, NEW t, t = Tail_(closesOf(b), n),
         NEW S, S = SumOf(t)
  PROVE  /\ variance(b, Len(b), n) = Frac(SumOf([i \in 1 .. n |-> (n * t[i] - S) * (n * t[i] - S)]), n * (n * n))
         /\ variance(b, Len(b), n) \in Fracs
<1> DEFINE L == Len(b)
           c == closesOf(b)
           a == L - n
           f == [i \in Bars(L, n) |-> b[i].c]
           g == [i \in Bars(L, n) |-> b[i].c * b[i].c]
           sq == [i \in 1 .. n |-> t[i] * t[i]]
           dev == [i \in 1 .. n |-> (n * t[i] - S) * (n * t[i] - S)]
<1>1. /\ L \in Nat /\ c \in Seq(Int) /\ Len(c) = L /\ a \in Int /\ n \in 0 .. Len(c)
      /\ \A i \in 1 .. L : c[i] = b[i].c /\ b[i].c \in Int
  BY ListsOf
<1>2. Bars(L, n) = Stretch(a, n)
  BY <1>1 DEF Bars, Stretch
<1> DEFINE F == SumOver(f, Bars(L, n))
           G == SumOver(g, Bars(L, n))
<1>3. variance(b, L, n) = Frac(n * G - F * F, n * n)
  BY DEF variance
<1>4. \A k \in Stretch(a, n) : f[k] = b[k].c /\ g[k] = b[k].c * b[k].c
  BY <1>2
<1>5. \A i \in 1 .. n : sq[i] = t[i] * t[i]
  OBVIOUS
<1>6. DOMAIN dev = 1 .. n
  OBVIOUS
<1> HIDE DEF f, g, c
<1>7. DOMAIN t = 1 .. n /\ \A i \in 1 .. n : t[i] = c[Len(c) - n + i]
  <2>1. DOMAIN Tail_(c, n) = 1 .. n /\ \A i \in 1 .. n : Tail_(c, n)[i] = c[Len(c) - n + i]
    BY <1>1, TailIs
  <2> QED
    BY <2>1 DEF c
<1>8. ASSUME NEW i \in 1 .. n
      PROVE  /\ t[i] \in Int /\ f[a + i] \in Int /\ t[i] = f[a + i]
             /\ g[a + i] \in Int /\ t[i] * t[i] = g[a + i]
  <2> DEFINE k == a + i
  <2>1. k \in 1 .. L /\ k \in Stretch(a, n) /\ t[i] = c[k]
    BY <1>1, <1>7 DEF Stretch
  <2> HIDE DEF k
  <2>2. c[k] = b[k].c /\ b[k].c \in Int /\ f[k] = b[k].c /\ g[k] = b[k].c * b[k].c
    BY <1>1, <1>4, <2>1
  <2>3. b[k].c * b[k].c \in Int
    BY <2>2
  <2>4. t[i] = b[k].c
    BY <2>1, <2>2
  <2> QED
    BY <2>2, <2>3, <2>4 DEF k
<1> HIDE DEF a, sq, dev
<1>9. F = SumOver(t, 1 .. n) /\ G = SumOver(sq, 1 .. n)
  <2>1. MovedBy(f, a, n, t) /\ MovedBy(g, a, n, sq)
    BY <1>5, <1>8 DEF MovedBy
  <2>2. SumOver(f, Stretch(a, n)) = SumOver(t, 1 .. n) /\ SumOver(g, Stretch(a, n)) = SumOver(sq, 1 .. n)
    BY <1>1, <2>1, SumShift
  <2> QED
    BY <1>2, <2>2
<1> HIDE DEF F, G
<1>10. S = SumOver(t, 1 .. n) /\ SumOf(dev) = SumOver(dev, 1 .. n)
  BY <1>6, <1>7 DEF SumOf
<1>11. F \in Int /\ G \in Int /\ SumOver(dev, 1 .. n) = n * (n * G - F * F)
  <2>1. \A i \in 1 .. n : t[i] \in Int
    BY <1>8
  <2>2. /\ SumOver(t, 1 .. n) \in Int /\ SumOver([i \in 1 .. n |-> t[i] * t[i]], 1 .. n) \in Int
        /\ SumOver([i \in 1 .. n |-> (n * t[i] - SumOver(t, 1 .. n)) * (n * t[i] - SumOver(t, 1 .. n))], 1 .. n)
              = n * (n * SumOver([i \in 1 .. n |-> t[i] * t[i]], 1 .. n) - SumOver(t, 1 .. n) * SumOver(t, 1 .. n))
    BY <2>1, DeviationsAre
  <2> QED
    BY <1>9, <1>10, <2>2 DEF sq, dev
<1> DEFINE x == n * G - F * F
           d == n * n
<1>12. x \in Int /\ d \in Nat \ {0}
  <2>1. n * n = n + n * (n - 1) /\ n * (n - 1) \in Nat
    OBVIOUS
  <2> QED
    BY <1>11, <2>1
<1> HIDE DEF x, d
<1>13. Frac(n * x, n * d) = Frac(x, d) /\ Frac(x, d) \in Fracs
  BY <1>12, FracScales, FracIn
<1> QED
  BY <1>3, <1>10, <1>11, <1>13 DEF x, d, dev

\* The bands.
LEMMA BollingerSame ==
  ASSUME NEW b, BarsOK(b), NEW r, BlockOK(r), Warm(r, b), r.kind = "bollinger"
  PROVE  evalRule(r, b) <=> ruleOk(r, b)
<1> DEFINE n == Periods(r.f.period)
           L == Len(b)
           c == closesOf(b)
           k == r.f.k
           t == Tail_(c, n)
           S == SumOf(t)
           V == variance(b, L, n)
           W == Frac(SumOf([i \in 1 .. n |-> (n * t[i] - S) * (n * t[i] - S)]), n * (n * n))
           last == Whole1(b[L].c)
           mid == sma(b, L, n)
           d == Minus(last, mid)
           up == Minus(mid, last)
           low == r.f.band = "below_lower"
           kk == Times(Milli(k), Milli(k))
           nk == Times(Milli(-k), Milli(-k))
<1>1. n \in Nat \ {0} /\ L >= n /\ L \in Nat /\ n \in 1 .. L /\ c[Len(c)] = b[L].c /\ b[L].c \in Int
  <2>1. n \in Nat \ {0} /\ L >= n + 1 /\ L \in Nat
    BY BlockFields, PeriodIs, WarmFields, ListsOf
  <2>2. L \in 1 .. L
    BY <2>1
  <2> HIDE DEF n
  <2> QED
    BY <2>1, <2>2, ListsOf
<1>2. k \in Int /\ k > 0
  BY BlockFields
<1>3. evalRule(r, b) <=>
         /\ L >= n /\ Less(Whole1(0), V)
         /\ IF low THEN UnderBand(b, n, -k) ELSE OverBand(b, n, k)
  BY DEF evalRule, bollingerRule
<1>4. ruleOk(r, b) <=>
         /\ has(c, n) /\ Less(Whole1(0), W)
         /\ Less(Whole1(0), IF low THEN Minus(meanOf(c, n), Whole1(c[Len(c)])) ELSE Minus(Whole1(c[Len(c)]), meanOf(c, n)))
         /\ Less(Times(kk, W),
                 Times(IF low THEN Minus(meanOf(c, n), Whole1(c[Len(c)])) ELSE Minus(Whole1(c[Len(c)]), meanOf(c, n)),
                       IF low THEN Minus(meanOf(c, n), Whole1(c[Len(c)])) ELSE Minus(Whole1(c[Len(c)]), meanOf(c, n))))
  BY DEF ruleOk, botBollinger
<1>5. UnderBand(b, n, -k) <=>
         IF -k >= 0 THEN Less(d, Whole1(0)) \/ ~AtMost(Times(nk, V), Times(d, d))
         ELSE Less(d, Whole1(0)) /\ AtMost(Times(nk, V), Times(d, d)) /\ Times(d, d) # Times(nk, V)
  BY DEF UnderBand, AtLeastSigmas
<1>6. OverBand(b, n, k) <=>
         IF k >= 0 THEN Less(Whole1(0), d) /\ AtMost(Times(kk, V), Times(d, d)) /\ Times(d, d) # Times(kk, V)
         ELSE AtMost(Whole1(0), d) \/ ~AtMost(Times(kk, V), Times(d, d))
  BY DEF OverBand, AtLeastSigmas
<1>7. mid = meanOf(c, n)
  <2> HIDE DEF n
  <2> QED
    BY <1>1, LastSma
<1>8. V = W /\ V \in Fracs
  <2> HIDE DEF n
  <2> QED
    BY <1>1, VarianceIs
<1>9. mid \in Fracs
  <2> HIDE DEF n
  <2>1. \A i \in Bars(L, n) : [j \in Bars(L, n) |-> b[j].c][i] \in Int
    <3>1. \A i \in Bars(L, n) : i \in 1 .. L
      BY <1>1 DEF Bars
    <3> QED
      BY <3>1, ListsOf
  <2>2. IsFiniteSet(Bars(L, n))
    BY <1>1, FS_Interval DEF Bars
  <2>3. SumOver([j \in Bars(L, n) |-> b[j].c], Bars(L, n)) \in Int
    BY <2>1, <2>2, SumInt
  <2> QED
    BY <1>1, <2>3, FracIn DEF sma
<1>10. last \in Fracs
  BY <1>1, WholeIn
<1>11. has(c, n) /\ L >= n
  BY <1>1, ListsOf DEF has
<1> HIDE DEF n, c, k, V, W, last, mid
<1>12. PICK x \in Int, y \in Nat \ {0} : Ratio(mid, x, y)
  BY <1>9, SelfRatio DEF Fracs
<1>13. PICK u \in Int, w \in Nat \ {0} : Ratio(last, u, w)
  BY <1>10, SelfRatio DEF Fracs
<1>14. d \in Fracs /\ up \in Fracs
  BY <1>9, <1>10, ArithmeticIn DEF Fracs
<1>15. Ratio(d, u * y - x * w, w * y) /\ Ratio(up, x * w - u * y, y * w)
  BY <1>12, <1>13, MinusRatio
<1> DEFINE e == u * y - x * w
           f == x * w - u * y
           g == w * y
           h == y * w
<1>16. e \in Int /\ f = -e /\ g \in Nat \ {0} /\ h = g
  <2>1. w * y = w + w * (y - 1) /\ w * (y - 1) \in Nat
    OBVIOUS
  <2> QED
    BY <2>1
<1>17. Ratio(d, e, g) /\ Ratio(up, f, h)
  BY <1>15
<1> HIDE DEF e, f, g, h, d, up
<1>18. Times(d, d) \in Fracs /\ Times(up, up) \in Fracs
  BY <1>14, ArithmeticIn DEF Fracs
<1>19. Times(up, up) = Times(d, d)
  <2>1. Ratio(Times(d, d), e * e, g * g) /\ Ratio(Times(up, up), f * f, h * h)
    BY <1>17, TimesRatio
  <2>2. (f * f) * (g * g) = (e * e) * (h * h)
    BY <1>16
  <2> QED
    BY <1>18, <2>1, <2>2, RatioEqual
<1>20. Less(d, Whole1(0)) <=> Less(Whole1(0), up)
  <2>1. Ratio(Whole1(0), 0, 1)
    BY WholeRatio
  <2>2. Less(d, Whole1(0)) <=> e * 1 < 0 * g
    BY <1>17, <2>1, LessRatio
  <2>3. Less(Whole1(0), up) <=> 0 * h < f * 1
    BY <1>17, <2>1, LessRatio
  <2> QED
    BY <1>16, <2>2, <2>3
<1>21. nk = kk
  <2> DEFINE m == 1000
  <2>1. -k \in Int /\ m \in Nat \ {0}
    BY <1>2
  <2>2. Ratio(Milli(k), k, m) /\ Ratio(Milli(-k), -k, m) /\ Milli(k) \in Fracs /\ Milli(-k) \in Fracs
    BY <1>2, <2>1, FracRatio, FracIn DEF Milli
  <2> HIDE DEF m
  <2>3. Ratio(kk, k * k, m * m) /\ Ratio(nk, (-k) * (-k), m * m)
    BY <2>2, TimesRatio
  <2>4. kk \in Fracs /\ nk \in Fracs
    BY <2>2, ArithmeticIn DEF Fracs
  <2>5. ((-k) * (-k)) * (m * m) = (k * k) * (m * m)
    BY <1>2, <2>1
  <2> QED
    BY <2>3, <2>4, <2>5, RatioEqual
<1>22. kk \in Fracs /\ Times(kk, V) \in Fracs
  <2>1. Milli(k) \in Fracs
    BY <1>2, FracIn DEF Milli
  <2>2. kk \in Fracs
    BY <2>1, ArithmeticIn DEF Fracs
  <2> QED
    BY <1>8, <2>2, ArithmeticIn DEF Fracs
<1> HIDE DEF kk, nk
<1>23. AtMost(Times(kk, V), Times(d, d)) /\ Times(d, d) # Times(kk, V) <=> Less(Times(kk, V), Times(d, d))
  BY <1>18, <1>22, StrictIs
<1>24. CASE low
  <2>1. evalRule(r, b) <=> Less(Whole1(0), V) /\ Less(Whole1(0), up) /\ Less(Times(kk, V), Times(d, d))
    <3>1. ~(-k >= 0)
      BY <1>2
    <3> QED
      BY <1>3, <1>5, <1>11, <1>20, <1>21, <1>23, <1>24, <3>1
  <2>2. ruleOk(r, b) <=> Less(Whole1(0), W) /\ Less(Whole1(0), up) /\ Less(Times(kk, W), Times(up, up))
    BY <1>1, <1>4, <1>7, <1>11, <1>24 DEF last, up
  <2> QED
    BY <1>8, <1>19, <2>1, <2>2
<1>25. CASE ~low
  <2>1. evalRule(r, b) <=> Less(Whole1(0), V) /\ Less(Whole1(0), d) /\ Less(Times(kk, V), Times(d, d))
    <3>1. k >= 0
      BY <1>2
    <3> QED
      BY <1>3, <1>6, <1>11, <1>23, <1>25, <3>1
  <2>2. ruleOk(r, b) <=> Less(Whole1(0), W) /\ Less(Whole1(0), d) /\ Less(Times(kk, W), Times(d, d))
    BY <1>1, <1>4, <1>7, <1>11, <1>25 DEF last, d
  <2> QED
    BY <1>8, <2>1, <2>2
<1> QED
  BY <1>24, <1>25

\* Every block.
LEMMA RuleSame ==
  ASSUME NEW b, BarsOK(b), b # <<>>, NEW r, BlockOK(r), Warm(r, b)
  PROVE  evalRule(r, b) <=> ruleOk(r, b)
<1>1. r.kind \in {"trend", "sma_cross", "rsi", "breakout", "bollinger", "volume", "volatility", "change", "confirm"}
  BY DEF BlockOK, Kinds, RULE_SPEC
<1> QED
  BY <1>1, TrendSame, CrossSame, RsiSame, BreakoutSame, BollingerSame, VolumeSame, VolatilitySame, ChangeSame,
     ConfirmSame

\* Two or three things.
LEMMA TwoFinite ==
  ASSUME NEW x, NEW y
  PROVE  IsFiniteSet({x, y})
<1>1. IsFiniteSet({x}) /\ {x, y} = {x} \cup {y}
  BY FS_Singleton
<1> QED
  BY <1>1, FS_AddElement

\* Three things are finitely many.
LEMMA ThreeFinite ==
  ASSUME NEW x, NEW y, NEW z
  PROVE  IsFiniteSet({x, y, z})
<1>1. IsFiniteSet({x, y}) /\ {x, y, z} = {x, y} \cup {z}
  BY TwoFinite
<1> QED
  BY <1>1, FS_AddElement

\* A block has few fields, and those a definition counts bars by are the whole ones.
LongFields == {"period", "fast", "slow", "within", "lookback"}

\* The catalog: every block has finitely many fields, and its periods are whole numbers.
LEMMA FieldsAre ==
  ASSUME NEW kind \in Kinds
  PROVE  /\ IsFiniteSet(RULE_SPEC[kind].fields)
         /\ \A s \in RULE_SPEC[kind].fields : s.key \in LongFields => "int" \in DOMAIN s /\ s.int
<1>1. \A key, lo, hi : /\ Whole(key, lo, hi).key = key /\ Real(key, lo, hi).key = key
                       /\ "int" \in DOMAIN Whole(key, lo, hi) /\ Whole(key, lo, hi).int = TRUE
  BY DEF Whole, Real
<1>2. \A key, o : Choice(key, o).key = key
  BY DEF Choice
<1>3. kind \in {"trend", "sma_cross", "rsi", "breakout", "bollinger", "volume", "volatility", "change", "confirm"}
  BY DEF Kinds, RULE_SPEC
<1>4. CASE kind = "trend"
  <2>1. RULE_SPEC[kind].fields = {Choice("op", OP_ABOVE_BELOW), Whole("period", 5, 400)}
    BY <1>4 DEF RULE_SPEC, trendKind, BlockKind
  <2>4. IsFiniteSet({Choice("op", OP_ABOVE_BELOW), Whole("period", 5, 400)})
    BY TwoFinite, Zenon
  <2>2. IsFiniteSet(RULE_SPEC[kind].fields)
    BY <2>1, <2>4
  <2>3. \A s \in RULE_SPEC[kind].fields : s.key \in LongFields => "int" \in DOMAIN s /\ s.int
    BY <1>1, <1>2, <2>1 DEF LongFields
  <2> QED
    BY <2>2, <2>3
<1>5. CASE kind = "sma_cross"
  <2>1. RULE_SPEC[kind].fields = {Whole("fast", 2, 200), Whole("slow", 5, 400), Whole("within", 1, 20)}
    BY <1>5 DEF RULE_SPEC, smaCrossKind, BlockKind
  <2>4. IsFiniteSet({Whole("fast", 2, 200), Whole("slow", 5, 400), Whole("within", 1, 20)})
    BY ThreeFinite, Zenon
  <2>2. IsFiniteSet(RULE_SPEC[kind].fields)
    BY <2>1, <2>4
  <2>3. \A s \in RULE_SPEC[kind].fields : "int" \in DOMAIN s /\ s.int
    BY <1>1, <2>1
  <2> QED
    BY <2>2, <2>3
<1>6. CASE kind = "rsi"
  <2>1. RULE_SPEC[kind].fields = {Whole("period", 2, 50), Choice("op", OP_ABOVE_BELOW), Real("value", 1000, 99000)}
    BY <1>6 DEF RULE_SPEC, rsiKind, BlockKind
  <2>4. IsFiniteSet({Whole("period", 2, 50), Choice("op", OP_ABOVE_BELOW), Real("value", 1000, 99000)})
    <3> DEFINE x == Whole("period", 2, 50)
               y == Choice("op", OP_ABOVE_BELOW)
               z == Real("value", 1000, 99000)
    <3> HIDE DEF x, y, z
    <3>1. IsFiniteSet({x, y, z})
      BY ThreeFinite
    <3> QED
      BY <3>1 DEF x, y, z
  <2>2. IsFiniteSet(RULE_SPEC[kind].fields)
    BY <2>1, <2>4
  <2>3. \A s \in RULE_SPEC[kind].fields : s.key \in LongFields => "int" \in DOMAIN s /\ s.int
    BY <1>1, <1>2, <2>1 DEF LongFields
  <2> QED
    BY <2>2, <2>3
<1>7. CASE kind = "breakout"
  <2>1. RULE_SPEC[kind].fields = {Whole("lookback", 5, 200), Real("buffer", 0, 2000)}
    BY <1>7 DEF RULE_SPEC, breakoutKind, BlockKind
  <2>4. IsFiniteSet({Whole("lookback", 5, 200), Real("buffer", 0, 2000)})
    <3> DEFINE x == Whole("lookback", 5, 200)
               y == Real("buffer", 0, 2000)
    <3> HIDE DEF x, y
    <3>1. IsFiniteSet({x, y})
      BY TwoFinite
    <3> QED
      BY <3>1 DEF x, y
  <2>2. IsFiniteSet(RULE_SPEC[kind].fields)
    BY <2>1, <2>4
  <2>3. \A s \in RULE_SPEC[kind].fields : s.key \in LongFields => "int" \in DOMAIN s /\ s.int
    BY <1>1, <1>2, <2>1 DEF LongFields
  <2> QED
    BY <2>2, <2>3
<1>8. CASE kind = "bollinger"
  <2>1. RULE_SPEC[kind].fields =
          {Choice("band", {"below_lower", "above_upper"}), Whole("period", 5, 100), Real("k", 1000, 4000)}
    BY <1>8 DEF RULE_SPEC, bollingerKind, BlockKind
  <2>4. IsFiniteSet({Choice("band", {"below_lower", "above_upper"}), Whole("period", 5, 100), Real("k", 1000, 4000)})
    <3> DEFINE x == Choice("band", {"below_lower", "above_upper"})
               y == Whole("period", 5, 100)
               z == Real("k", 1000, 4000)
    <3> HIDE DEF x, y, z
    <3>1. IsFiniteSet({x, y, z})
      BY ThreeFinite
    <3> QED
      BY <3>1 DEF x, y, z
  <2>2. IsFiniteSet(RULE_SPEC[kind].fields)
    BY <2>1, <2>4
  <2>3. \A s \in RULE_SPEC[kind].fields : s.key \in LongFields => "int" \in DOMAIN s /\ s.int
    BY <1>1, <1>2, <2>1 DEF LongFields
  <2> QED
    BY <2>2, <2>3
<1>9. CASE kind = "volume"
  <2>1. RULE_SPEC[kind].fields = {Real("mult", 1000, 10000), Whole("period", 5, 100)}
    BY <1>9 DEF RULE_SPEC, volumeKind, BlockKind
  <2>4. IsFiniteSet({Real("mult", 1000, 10000), Whole("period", 5, 100)})
    <3> DEFINE x == Real("mult", 1000, 10000)
               y == Whole("period", 5, 100)
    <3> HIDE DEF x, y
    <3>1. IsFiniteSet({x, y})
      BY TwoFinite
    <3> QED
      BY <3>1 DEF x, y
  <2>2. IsFiniteSet(RULE_SPEC[kind].fields)
    BY <2>1, <2>4
  <2>3. \A s \in RULE_SPEC[kind].fields : s.key \in LongFields => "int" \in DOMAIN s /\ s.int
    BY <1>1, <1>2, <2>1 DEF LongFields
  <2> QED
    BY <2>2, <2>3
<1>10. CASE kind = "volatility"
  <2>1. RULE_SPEC[kind].fields = {Whole("period", 2, 50), Choice("op", OP_ABOVE_BELOW), Real("value", 50, 10000)}
    BY <1>10 DEF RULE_SPEC, volatilityKind, BlockKind
  <2>4. IsFiniteSet({Whole("period", 2, 50), Choice("op", OP_ABOVE_BELOW), Real("value", 50, 10000)})
    <3> DEFINE x == Whole("period", 2, 50)
               y == Choice("op", OP_ABOVE_BELOW)
               z == Real("value", 50, 10000)
    <3> HIDE DEF x, y, z
    <3>1. IsFiniteSet({x, y, z})
      BY ThreeFinite
    <3> QED
      BY <3>1 DEF x, y, z
  <2>2. IsFiniteSet(RULE_SPEC[kind].fields)
    BY <2>1, <2>4
  <2>3. \A s \in RULE_SPEC[kind].fields : s.key \in LongFields => "int" \in DOMAIN s /\ s.int
    BY <1>1, <1>2, <2>1 DEF LongFields
  <2> QED
    BY <2>2, <2>3
<1>11. CASE kind = "change"
  <2>1. RULE_SPEC[kind].fields = {Whole("lookback", 1, 200), Choice("op", OP_ABOVE_BELOW), Real("value", -50000, 50000)}
    BY <1>11 DEF RULE_SPEC, changeKind, BlockKind
  <2>4. IsFiniteSet({Whole("lookback", 1, 200), Choice("op", OP_ABOVE_BELOW), Real("value", -50000, 50000)})
    <3> DEFINE x == Whole("lookback", 1, 200)
               y == Choice("op", OP_ABOVE_BELOW)
               z == Real("value", -50000, 50000)
    <3> HIDE DEF x, y, z
    <3>1. IsFiniteSet({x, y, z})
      BY ThreeFinite
    <3> QED
      BY <3>1 DEF x, y, z
  <2>2. IsFiniteSet(RULE_SPEC[kind].fields)
    BY <2>1, <2>4
  <2>3. \A s \in RULE_SPEC[kind].fields : s.key \in LongFields => "int" \in DOMAIN s /\ s.int
    BY <1>1, <1>2, <2>1 DEF LongFields
  <2> QED
    BY <2>2, <2>3
<1>12. CASE kind = "confirm"
  <2>1. RULE_SPEC[kind].fields = {}
    BY <1>12 DEF RULE_SPEC, confirmKind, BlockKind
  <2> QED
    BY <2>1, FS_EmptySet
<1> QED
  BY <1>3, <1>4, <1>5, <1>6, <1>7, <1>8, <1>9, <1>10, <1>11, <1>12

\* The bars a definition waits for are enough for every block of it, in the browser and in the bot.
DefOK(def) ==
  DOMAIN def.rules = 1 .. Len(def.rules) /\ Len(def.rules) \in Nat /\ (\A k \in DOMAIN def.rules : BlockOK(def.rules[k])) /\ def.exits.atr \in Int
LongOf(r) == {x \in RULE_SPEC[r.kind].fields : "int" \in DOMAIN x /\ x.int}
BarsFor(r) == {Periods(r.f[s.key]) + 1 : s \in LongOf(r)}
LeastFor(r) == {Periods(r.f[k]) + 1 : k \in DOMAIN r.f \cap LongFields}

\* What the warm-up takes its maximum over holds every period of the block.
LEMMA BarsForIs ==
  ASSUME NEW r, BlockOK(r)
  PROVE  IsFiniteSet(BarsFor(r)) /\ BarsFor(r) \subseteq Int /\ LeastFor(r) \subseteq BarsFor(r)
<1>1. r.kind \in Kinds
  BY DEF BlockOK
<1>2. /\ IsFiniteSet(RULE_SPEC[r.kind].fields)
      /\ \A s \in RULE_SPEC[r.kind].fields : s.key \in LongFields => "int" \in DOMAIN s /\ s.int
  BY <1>1, FieldsAre
<1>3. IsFiniteSet(LongOf(r))
  BY <1>2, FS_Subset DEF LongOf
<1>4. IsFiniteSet(BarsFor(r))
  <2> DEFINE u == [s \in LongOf(r) |-> Periods(r.f[s.key]) + 1]
  <2>1. u \in Surjection(LongOf(r), BarsFor(r))
    BY DEF Surjection, BarsFor
  <2> QED
    BY <1>3, <2>1, FS_Surjection
<1>5. ASSUME NEW s \in LongOf(r) PROVE Periods(r.f[s.key]) + 1 \in Int
  <2>1. s \in RULE_SPEC[r.kind].fields /\ "int" \in DOMAIN s /\ s.int
    BY DEF LongOf
  <2>2. "options" \notin DOMAIN s
    <3>1. \A key, o : "int" \notin DOMAIN Choice(key, o)
      BY DEF Choice
    <3>2. \A key, lo, hi : "options" \notin DOMAIN Whole(key, lo, hi) /\ "options" \notin DOMAIN Real(key, lo, hi)
      BY DEF Whole, Real
    <3>3. r.kind \in {"trend", "sma_cross", "rsi", "breakout", "bollinger", "volume", "volatility", "change", "confirm"}
      BY <1>1 DEF Kinds, RULE_SPEC
    <3> QED
      BY <2>1, <3>1, <3>2, <3>3 DEF RULE_SPEC, BlockKind, trendKind, smaCrossKind, rsiKind, breakoutKind,
         bollingerKind, volumeKind, volatilityKind, changeKind, confirmKind
  <2>3. r.f[s.key] \in Int
    BY <2>1, <2>2 DEF BlockOK
  <2> QED
    BY <2>3 DEF Periods
<1>6. LeastFor(r) \subseteq BarsFor(r)
  <2>1. ASSUME NEW k \in DOMAIN r.f, k \in LongFields
        PROVE  \E s \in LongOf(r) : s.key = k
    <3>1. DOMAIN r.f = {s.key : s \in RULE_SPEC[r.kind].fields}
      BY DEF BlockOK
    <3>2. PICK s \in RULE_SPEC[r.kind].fields : s.key = k
      BY <3>1
    <3> QED
      BY <1>2, <2>1, <3>2 DEF LongOf
  <2> QED
    BY <2>1 DEF LeastFor, BarsFor
<1> QED
  BY <1>4, <1>5, <1>6 DEF BarsFor

\* A history as long as the warm-up has every rule warm, and the bot wants no longer one.
LEMMA WarmupIs ==
  ASSUME NEW def, DefOK(def), NEW b, Len(b) \in Nat, Len(b) >= customWarmup(def)
  PROVE  /\ \A k \in DOMAIN def.rules : Warm(def.rules[k], b)
         /\ Len(b) >= minCandles(def) /\ Len(b) >= 2
<1> DEFINE D == DOMAIN def.rules
           R == Range(def.rules)
           base == {2, Periods(def.exits.atr) + 1}
           U == UNION {BarsFor(r) : r \in R}
           M == UNION {LeastFor(r) : r \in R}
           S == base \cup U
           N == {2} \cup M
<1>1. R = {def.rules[k] : k \in D} /\ D = 1 .. Len(def.rules) /\ \A r \in R : BlockOK(r)
  BY DEF Range, DefOK
<1>2. \A r \in R : IsFiniteSet(BarsFor(r)) /\ BarsFor(r) \subseteq Int /\ LeastFor(r) \subseteq BarsFor(r)
  BY <1>1, BarsForIs
<1>3. IsFiniteSet(S) /\ S \subseteq Int /\ S # {}
  <2>1. IsFiniteSet(D)
    <3>1. Len(def.rules) \in Int /\ 1 \in Int
      BY DEF DefOK
    <3>2. IsFiniteSet(1 .. Len(def.rules))
      BY <3>1, FS_Interval
    <3> QED
      BY <1>1, <3>2
  <2>2. IsFiniteSet({BarsFor(r) : r \in R})
    <3> DEFINE u == [k \in D |-> BarsFor(def.rules[k])]
    <3>1. u \in Surjection(D, {BarsFor(r) : r \in R})
      BY <1>1 DEF Surjection
    <3> QED
      BY <2>1, <3>1, FS_Surjection
  <2>3. IsFiniteSet(U)
    BY <1>2, <2>2, FS_UNION
  <2>4. IsFiniteSet(base) /\ base \subseteq Int /\ base # {}
    <3>1. IsFiniteSet(base)
      BY TwoFinite, Zenon
    <3>2. Periods(def.exits.atr) + 1 \in Int
      BY DEF DefOK, Periods
    <3> QED
      BY <3>1, <3>2
  <2>5. IsFiniteSet(S)
    BY <2>3, <2>4, FS_Union
  <2> QED
    BY <1>2, <2>4, <2>5
<1>4. customWarmup(def) = Max(S)
  BY DEF customWarmup, BarsFor, LongOf
<1>5. minCandles(def) = Max(N)
  BY DEF minCandles, LeastFor, LongFields
<1> HIDE DEF S
<1>6. \A x \in S : x <= Len(b)
  <2>1. Max(S) \in S /\ \A x \in S : x <= Max(S)
    BY <1>3, Extremes
  <2>2. Max(S) \in Int /\ Max(S) <= Len(b)
    BY <1>3, <1>4, <2>1
  <2> QED
    BY <1>3, <2>1, <2>2
<1>7. N \subseteq S
  BY <1>2 DEF S
<1> HIDE DEF N
<1>8. Len(b) >= minCandles(def)
  <2>1. IsFiniteSet(N) /\ N \subseteq Int
    BY <1>3, <1>7, FS_Subset
  <2>2. N # {}
    BY DEF N
  <2>3. Max(N) \in N
    BY <2>1, <2>2, Extremes
  <2> QED
    BY <1>5, <1>6, <1>7, <2>1, <2>3
<1>9. 2 \in S
  BY DEF S
<1>10. ASSUME NEW k \in D PROVE Warm(def.rules[k], b)
  <2> DEFINE r == def.rules[k]
  <2>1. \A s \in LongOf(r) : Periods(r.f[s.key]) + 1 \in S
    BY <1>1 DEF S, BarsFor
  <2> HIDE DEF r
  <2>2. \A s \in LongOf(r) : Len(b) >= Periods(r.f[s.key]) + 1
    BY <1>6, <2>1
  <2>3. Warm(r, b)
    BY <2>2 DEF Warm, LongOf
  <2> QED
    BY <2>3 DEF r
<1> QED
  BY <1>6, <1>8, <1>9, <1>10

\* The evaluators.
LEMMA EvaluatorsAgree ==
  ASSUME NEW def, DefOK(def), NEW b, BarsOK(b), Len(b) >= customWarmup(def)
  PROVE  customEntryAt(def, b) = decide(def, b)
<1>1. Len(b) \in Nat
  BY ListsOf
<1>2. /\ \A k \in DOMAIN def.rules : Warm(def.rules[k], b)
      /\ Len(b) >= minCandles(def) /\ Len(b) >= 2
  BY <1>1, WarmupIs
<1>3. b # <<>>
  BY <1>2
<1>4. \A k \in DOMAIN def.rules : evalRule(def.rules[k], b) <=> ruleOk(def.rules[k], b)
  BY <1>2, <1>3, RuleSame DEF DefOK
<1> QED
  BY <1>2, <1>4 DEF customEntryAt, decide

-----------------------------------------------------------------------------
(* What a template waits for is drawn *)

\* Parameters of a template.
LEMMA ParamIs ==
  ASSUME NEW t \in SimTemplates, t # "custom", NEW p \in SimParams[t],
         NEW key \in DOMAIN TEMPLATE_CONFIG[t].params, key # "expected_move_pct"
  PROVE  /\ p[key] \in Int /\ Periods(p[key]) \in Int
         /\ key \in PERIODS => p[key] >= 1000 /\ Periods(p[key]) \in Nat \ {0}
         /\ key = "regime_period" /\ t \notin {"bb_breakout", "donchian_trend"} =>
               p[key] >= 1000 /\ Periods(p[key]) \in Nat \ {0}
         /\ key \in MARGINS => p[key] >= 0
         /\ key = "k" /\ t = "bb_reversion" => p[key] >= 0
<1>1. ParamOK(t, key, p[key])
  BY SimulatorAssumption
<1>2. p[key] \in Int /\ Periods(p[key]) \in Int
  BY <1>1 DEF ParamOK, Periods
<1>3. p[key] >= 1000 => Periods(p[key]) \in Nat \ {0}
  BY <1>2, PeriodIs
<1> QED
  BY <1>1, <1>2, <1>3 DEF ParamOK

\* The largest of some numbers of bars is at most the bars there are.
LEMMA EnoughIs ==
  ASSUME NEW b, Len(b) \in Nat, NEW ns, IsFiniteSet(ns), ns \subseteq Int, ns # {}, Enough(b, ns)
  PROVE  \A x \in ns : Len(b) >= x
<1>1. Max(ns) \in ns /\ \A x \in ns : x <= Max(ns)
  BY Extremes
<1>2. Len(b) >= Max(ns)
  BY DEF Enough
<1>3. Max(ns) \in Int /\ \A x \in ns : x \in Int
  BY <1>1
<1> QED
  BY <1>1, <1>2, <1>3

\* Enough bars for two periods are enough for each.
LEMMA EnoughTwo ==
  ASSUME NEW b, Len(b) \in Nat, NEW x \in Int, NEW y \in Int, Enough(b, {x, y})
  PROVE  Len(b) >= x /\ Len(b) >= y
<1>1. IsFiniteSet({x, y}) /\ {x, y} \subseteq Int /\ {x, y} # {}
  BY TwoFinite
<1> QED
  BY <1>1, EnoughIs

\* Enough bars for three periods are enough for each.
LEMMA EnoughThree ==
  ASSUME NEW b, Len(b) \in Nat, NEW x \in Int, NEW y \in Int, NEW z \in Int, Enough(b, {x, y, z})
  PROVE  Len(b) >= x /\ Len(b) >= y /\ Len(b) >= z
<1>1. IsFiniteSet({x, y, z}) /\ {x, y, z} \subseteq Int /\ {x, y, z} # {}
  BY ThreeFinite
<1> QED
  BY <1>1, EnoughIs

\* Averages.
LEMMA SmaIs ==
  ASSUME NEW b, BarsOK(b), NEW e \in 1 .. Len(b), NEW n \in 1 .. e
  PROVE  sma(b, e, n) \in Fracs /\ \E s \in Nat : Ratio(sma(b, e, n), s, n)
<1> DEFINE f == [j \in Bars(e, n) |-> b[j].c]
<1>1. Len(b) \in Nat /\ e \in Nat /\ n \in Nat \ {0}
  BY ListsOf
<1>2. \A i \in Bars(e, n) : f[i] \in Nat
  <2>1. \A i \in Bars(e, n) : i \in 1 .. Len(b)
    BY <1>1 DEF Bars
  <2> QED
    BY <2>1, ListsOf
<1>3. IsFiniteSet(Bars(e, n))
  BY <1>1, FS_Interval DEF Bars
<1>4. sma(b, e, n) = Frac(SumOver(f, Bars(e, n)), n)
  BY DEF sma
<1> HIDE DEF f
<1>5. SumOver(f, Bars(e, n)) \in Nat
  BY <1>2, <1>3, SumNat
<1> QED
  BY <1>1, <1>4, <1>5, FracIn, FracRatio

\* The high and the low of the bars before.
LEMMA PriorIs ==
  ASSUME NEW b, BarsOK(b), NEW n \in Nat \ {0}, Len(b) >= n + 1
  PROVE  priorHigh(b, Len(b), n) \in Nat \ {0} /\ priorLow(b, Len(b), n) \in Nat \ {0}
<1> DEFINE I == (Len(b) - n) .. (Len(b) - 1)
<1>1. I \subseteq 1 .. Len(b) /\ I # {}
  <2>1. Len(b) \in Nat
    BY ListsOf
  <2>2. Len(b) - 1 \in I
    BY <2>1
  <2>3. \A i \in I : i \in 1 .. Len(b)
    BY <2>1
  <2> HIDE DEF I
  <2> QED
    BY <2>2, <2>3
<1>2. priorHigh(b, Len(b), n) = HighOf(b, I) /\ priorLow(b, Len(b), n) = LowOf(b, I)
  BY DEF priorHigh, priorLow
<1> HIDE DEF I
<1> QED
  BY <1>1, <1>2, HighIs

\* A break of a level leaves it behind.
LEMMA BreaksIs ==
  ASSUME NEW price \in Nat, NEW level \in Nat, NEW p, p.buffer \in Nat, Breaks(price, level, p)
  PROVE  price >= level
<1>1. price * 1000 >= level * (1000 + p.buffer)
  BY DEF Breaks
<1>2. level * (1000 + p.buffer) = level * 1000 + level * p.buffer /\ level * p.buffer \in Nat
  OBVIOUS
<1>3. price * 1000 >= level * 1000
  <2> DEFINE u == level * p.buffer
             w == level * (1000 + p.buffer)
  <2>1. u \in Nat /\ w = level * 1000 + u /\ price * 1000 >= w
    BY <1>1, <1>2
  <2> HIDE DEF u, w
  <2> QED
    BY <2>1
<1> QED
  BY <1>3

\* Each template. The last close is over the level, and the level is there.
Explained(t, b, p) == Drawn(t, Len(b), p) /\ OverLevel(t, b, p)

\* Momentum: the close is at or over the highest close drawn.
LEMMA MomentumExplained ==
  ASSUME NEW b, BarsOK(b), NEW p, p.buffer \in Nat,
         \A k \in {"lookback", "atr_period", "vol_period", "regime_period"} : Periods(p[k]) \in Nat \ {0},
         momentumEntry(b, p)
  PROVE  Explained("momentum", b, p)
<1> DEFINE K == {"lookback", "atr_period", "vol_period", "regime_period"}
           ns == {Periods(p[k]) + 1 : k \in K}
           n == Periods(p.lookback)
<1>1. Len(b) \in Nat
  BY ListsOf
<1>2. Enough(b, ns) /\ Breaks(b[Len(b)].c, priorHigh(b, Len(b), n), p)
  BY DEF momentumEntry
<1>3. IsFiniteSet(ns) /\ ns \subseteq Int /\ n + 1 \in ns
  <2>1. IsFiniteSet(K)
    <3>1. IsFiniteSet({"lookback", "atr_period", "vol_period"}) /\ K = {"lookback", "atr_period", "vol_period"} \cup {"regime_period"}
      BY ThreeFinite
    <3> QED
      BY <3>1, FS_AddElement
  <2> DEFINE u == [k \in K |-> Periods(p[k]) + 1]
  <2>2. u \in Surjection(K, ns)
    BY DEF Surjection
  <2>3. IsFiniteSet(ns)
    BY <2>1, <2>2, FS_Surjection
  <2> QED
    BY <2>3
<1>4. n \in Nat \ {0}
  OBVIOUS
<1> HIDE DEF ns, n
<1>5. Len(b) >= n + 1
  BY <1>1, <1>2, <1>3, EnoughIs
<1>6. Len(b) \in 1 .. Len(b)
  BY <1>1, <1>4, <1>5
<1>7. b[Len(b)].c >= priorHigh(b, Len(b), n)
  <2>1. b[Len(b)].c \in Nat /\ priorHigh(b, Len(b), n) \in Nat
    BY <1>4, <1>5, <1>6, ListsOf, PriorIs
  <2> QED
    BY <1>2, <2>1, BreaksIs
<1>8. Len(b) > n
  BY <1>1, <1>4, <1>5
<1> QED
  BY <1>7, <1>8 DEF Explained, Drawn, OverLevel, n

\* Squeeze breakout: the same, after the squeeze.
LEMMA SqueezeExplained ==
  ASSUME NEW b, BarsOK(b), NEW p, p.buffer \in Nat,
         \A k \in {"lookback", "bb_period", "atr_period", "vol_period", "regime_period"} : Periods(p[k]) \in Nat \ {0},
         squeezeBreakoutEntry(b, p)
  PROVE  Explained("squeeze_breakout", b, p)
<1> DEFINE K == {"lookback", "bb_period", "atr_period", "vol_period", "regime_period"}
           ns == {Periods(p[k]) + 1 : k \in K}
           n == Periods(p.lookback)
<1>1. Len(b) \in Nat
  BY ListsOf
<1>2. Enough(b, ns) /\ Breaks(b[Len(b)].c, priorHigh(b, Len(b), n), p)
  BY DEF squeezeBreakoutEntry
<1>3. IsFiniteSet(ns) /\ ns \subseteq Int /\ n + 1 \in ns
  <2>1. IsFiniteSet(K)
    <3>1. IsFiniteSet({"lookback", "bb_period", "atr_period"}) /\ IsFiniteSet({"vol_period", "regime_period"})
      BY TwoFinite, ThreeFinite
    <3>2. K = {"lookback", "bb_period", "atr_period"} \cup {"vol_period", "regime_period"}
      OBVIOUS
    <3> QED
      BY <3>1, <3>2, FS_Union
  <2> DEFINE u == [k \in K |-> Periods(p[k]) + 1]
  <2>2. u \in Surjection(K, ns)
    BY DEF Surjection
  <2>3. IsFiniteSet(ns)
    BY <2>1, <2>2, FS_Surjection
  <2> QED
    BY <2>3
<1>4. n \in Nat \ {0}
  OBVIOUS
<1> HIDE DEF ns, n
<1>5. Len(b) >= n + 1
  BY <1>1, <1>2, <1>3, EnoughIs
<1>6. Len(b) \in 1 .. Len(b)
  BY <1>1, <1>4, <1>5
<1>7. b[Len(b)].c >= priorHigh(b, Len(b), n)
  <2>1. b[Len(b)].c \in Nat /\ priorHigh(b, Len(b), n) \in Nat
    BY <1>4, <1>5, <1>6, ListsOf, PriorIs
  <2> QED
    BY <1>2, <2>1, BreaksIs
<1>8. Len(b) > n
  BY <1>1, <1>4, <1>5
<1> QED
  BY <1>7, <1>8 DEF Explained, Drawn, OverLevel, n

\* Volatility expansion: the close is at or over those its level is drawn from.
LEMMA ExpansionExplained ==
  ASSUME NEW b, BarsOK(b), NEW p, volExpansionEntry(b, p),
         \A k \in {"long_atr", "breakout_lookback", "regime_period"} : Periods(p[k]) \in Nat \ {0}
  PROVE  Explained("vol_expansion", b, p)
<1> DEFINE x == Periods(p.long_atr) + 1
           n == Periods(p.breakout_lookback)
           y == n + 1
           z == Periods(p.regime_period) + 1
<1>1. Len(b) \in Nat /\ x \in Int /\ y \in Int /\ z \in Int /\ n \in Nat
  BY ListsOf
<1>2. Enough(b, {x, y, z}) /\ \A i \in (Len(b) - n) .. (Len(b) - 1) : b[Len(b)].c >= b[i].c
  BY DEF volExpansionEntry
<1> HIDE DEF x, y, z
<1>3. Len(b) >= y
  BY <1>1, <1>2, EnoughThree
<1>4. Len(b) > n
  BY <1>1, <1>3 DEF y
<1> QED
  BY <1>2, <1>4 DEF Explained, Drawn, OverLevel

\* Over the average of some of the last bars: the regime line of four templates.
LEMMA RegimeExplained ==
  ASSUME NEW b, BarsOK(b), NEW p, Periods(p.regime_period) \in Nat, NEW t \in {"rsi", "fast_rsi", "tsmom", "sharpe_mom"},
         uptrend(b, Len(b), Periods(p.regime_period))
  PROVE  Explained(t, b, p)
<1>1. Len(b) \in Nat
  BY ListsOf
<1>2. /\ Len(b) >= Periods(p.regime_period) + 1
      /\ Less(sma(b, Len(b), Periods(p.regime_period)), Whole1(b[Len(b)].c))
  BY DEF uptrend
<1>3. Len(b) >= Periods(p.regime_period)
  BY <1>1, <1>2
<1>4. Drawn(t, Len(b), p) <=> Len(b) >= Periods(p.regime_period)
  BY DEF Drawn
<1>5. OverLevel(t, b, p) <=> Less(sma(b, Len(b), Periods(p.regime_period)), Whole1(b[Len(b)].c))
  <2>1. CASE t = "rsi"
    BY <2>1 DEF OverLevel
  <2>2. CASE t = "fast_rsi"
    BY <2>2 DEF OverLevel
  <2>3. CASE t = "tsmom"
    BY <2>3 DEF OverLevel
  <2>4. CASE t = "sharpe_mom"
    BY <2>4 DEF OverLevel
  <2> QED
    BY <2>1, <2>2, <2>3, <2>4
<1> QED
  BY <1>2, <1>3, <1>4, <1>5 DEF Explained

\* Donchian trend: the close is over the entry channel, so it is not under the exit channel.
LEMMA DonchianExplained ==
  ASSUME NEW b, BarsOK(b), NEW p, donchianTrendEntry(b, p), Periods(p.regime_period) \in Int,
         Periods(p.entry_lookback) \in Nat \ {0}, Periods(p.exit_lookback) \in Nat \ {0}
  PROVE  Explained("donchian_trend", b, p) /\ ~donchianTrendExit(b, p)
<1> DEFINE x == Periods(p.entry_lookback)
           y == Periods(p.exit_lookback)
           z == Periods(p.regime_period)
           S == {x, y, z}
           c == b[Len(b)].c
           low == priorLow(b, Len(b), y)
<1>1. Len(b) \in Nat
  BY ListsOf
<1>2. Len(b) >= Max(S) + 1 /\ c > priorHigh(b, Len(b), x) /\ c >= low
  BY DEF donchianTrendEntry
<1>3. donchianTrendExit(b, p) => Len(b) > y /\ c < low
  BY DEF donchianTrendExit
<1>4. IsFiniteSet(S) /\ S \subseteq Int /\ S # {} /\ x \in S /\ y \in S /\ x \in Nat /\ y \in Nat \ {0}
  <2>1. IsFiniteSet(S)
    BY ThreeFinite, Zenon
  <2> QED
    BY <2>1
<1> HIDE DEF S, x, y, z
<1>5. Max(S) \in S /\ (\A w \in S : w <= Max(S))
  BY <1>4, Extremes
<1>6. Max(S) \in Int /\ x \in Int /\ x <= Max(S) /\ y \in Int /\ y <= Max(S)
  BY <1>4, <1>5
<1>7. Len(b) > x /\ Len(b) >= y + 1
  BY <1>1, <1>2, <1>6
<1>8. Explained("donchian_trend", b, p)
  BY <1>2, <1>7 DEF Explained, Drawn, OverLevel, x, c
<1>9. low \in Int /\ c \in Int
  <2>1. Len(b) \in 1 .. Len(b)
    BY <1>1, <1>4, <1>7
  <2> QED
    BY <1>4, <1>7, <2>1, ListsOf, PriorIs
<1>10. ~(c < low)
  BY <1>2, <1>9
<1> QED
  BY <1>3, <1>8, <1>10

\* Moving average crossover: the fast average is not under the slow one.
LEMMA CrossoverExplained ==
  ASSUME NEW b, BarsOK(b), NEW p, maCrossoverEntry(b, p), p.k_atr \in Nat,
         \A k \in {"fast", "slow", "atr_period", "regime_period"} : Periods(p[k]) \in Nat \ {0},
         Periods(p.fast) <= Periods(p.slow)
  PROVE  Explained("ma_crossover", b, p)
<1> DEFINE L == Len(b)
           n == Periods(p.slow)
           f == Periods(p.fast)
           a == Periods(p.atr_period)
           x == n + 2
           y == a + 1
           z == Periods(p.regime_period) + 1
           cost == Times(Milli(p.k_atr), atr(b, L, a))
           gap == Minus(sma(b, L, f), sma(b, L, n))
<1>1. /\ Len(b) \in Nat /\ x \in Int /\ y \in Int /\ z \in Int /\ n \in Nat \ {0} /\ a \in Nat \ {0}
      /\ f \in Nat \ {0} /\ f <= n
  BY ListsOf
<1>2. Enough(b, {x, y, z}) /\ AtMost(cost, gap)
  BY DEF maCrossoverEntry
<1> HIDE DEF x, y, z
<1>3. Len(b) >= x /\ Len(b) >= y
  BY <1>1, <1>2, EnoughThree
<1>4. L >= n /\ L >= a + 1 /\ L \in 1 .. L /\ n \in 1 .. L /\ f \in 1 .. L
  BY <1>1, <1>3 DEF x, y
<1> HIDE DEF n, f, a, L
<1>5. PICK s \in Nat : Ratio(sma(b, L, n), s, n)
  BY <1>4, SmaIs DEF L
<1>6. PICK u \in Nat : Ratio(sma(b, L, f), u, f)
  BY <1>4, SmaIs DEF L
<1>7. \E r \in Nat : Ratio(atr(b, L, a), r, a)
  <2>1. ranges(b, L, a) \in Nat
    BY <1>1, <1>4, AtrIs DEF L
  <2> QED
    BY <1>1, <2>1, FracRatio DEF atr
<1>8. PICK r \in Nat : Ratio(atr(b, L, a), r, a)
  BY <1>7
<1>9. Ratio(gap, u * n - s * f, f * n)
  BY <1>5, <1>6, MinusRatio
<1> DEFINE m == 1000
           k == p.k_atr
<1>10. Ratio(Milli(k), k, m) /\ m \in Nat \ {0}
  BY FracRatio DEF Milli
<1> HIDE DEF m
<1>11. Ratio(cost, k * r, m * a)
  BY <1>8, <1>10, TimesRatio
<1> HIDE DEF cost, gap
<1>12. ~((u * n - s * f) * (m * a) < (k * r) * (f * n))
  BY <1>2, <1>9, <1>11, LessRatio DEF AtMost
<1>13. u * n >= s * f
  <2> DEFINE v == u * n - s * f
             w == m * a
             q == (k * r) * (f * n)
  <2>1. v \in Int /\ w \in Nat \ {0} /\ q \in Nat /\ ~(v * w < q)
    <3>1. m * a = m + m * (a - 1) /\ m * (a - 1) \in Nat
      BY <1>1, <1>10
    <3>2. k * r \in Nat /\ f * n \in Nat
      BY <1>1
    <3>3. (k * r) * (f * n) \in Nat
      BY <3>2
    <3> QED
      BY <1>1, <1>10, <1>12, <3>1, <3>3
  <2>2. v >= 0
    <3> HIDE DEF v, w, q
    <3>1. v * w >= 0
      BY <2>1
    <3> QED
      BY <2>1, <3>1
  <2> QED
    BY <1>1, <2>2
<1>14. AtMost(sma(b, L, n), sma(b, L, f))
  <2>1. Less(sma(b, L, f), sma(b, L, n)) <=> u * n < s * f
    BY <1>5, <1>6, LessRatio
  <2> QED
    BY <1>1, <1>13, <2>1 DEF AtMost
<1>15. AtMost(sma(b, Len(b), Periods(p.slow)), sma(b, Len(b), Periods(p.fast))) /\ Len(b) >= Periods(p.slow)
  BY <1>4, <1>14 DEF L, n, f
<1> QED
  BY <1>15 DEF Explained, Drawn, OverLevel

\* Trend regime: the close is over the average and its band.
LEMMA TrendRegimeExplained ==
  ASSUME NEW b, BarsOK(b), NEW p, trendRegimeEntry(b, p), p.band \in Nat,
         Periods(p.period) \in Nat \ {0}, Periods(p.slope_bars) \in Nat
  PROVE  Explained("trend_regime", b, p) /\ ~trendRegimeExit(b, p)
<1> DEFINE L == Len(b)
           n == Periods(p.period)
           s == sma(b, L, n)
           price == Whole1(b[L].c)
           c == b[L].c
           d == p.band
           m == 1000
           up == Milli(1000 + d)
           down == Milli(1000 - d)
<1>1. L \in Nat
  BY ListsOf
<1>2. L >= n + Periods(p.slope_bars) + 1 /\ Less(Times(up, s), price)
  BY DEF trendRegimeEntry
<1>3. trendRegimeExit(b, p) => Less(price, Times(down, s))
  BY DEF trendRegimeExit
<1>4. L \in 1 .. L /\ n \in 1 .. L /\ L >= n
  BY <1>1, <1>2
<1>5. c \in Nat
  BY <1>4, ListsOf
<1>6. Ratio(up, 1000 + d, m) /\ Ratio(down, 1000 - d, m) /\ m \in Nat \ {0}
  BY FracRatio DEF Milli
<1>7. Ratio(price, c, 1)
  BY <1>5, WholeRatio
<1>8. \E u \in Nat : Ratio(s, u, n)
  <2> HIDE DEF n
  <2> QED
    BY <1>4, SmaIs
<1> HIDE DEF n, s, price, c, d, m, up, down
<1>9. PICK u \in Nat : Ratio(s, u, n)
  BY <1>8
<1>10. Ratio(Times(up, s), (1000 + d) * u, m * n) /\ Ratio(Times(down, s), (1000 - d) * u, m * n)
  BY <1>6, <1>9, TimesRatio
<1>11. (1000 + d) * u * 1 < c * (m * n)
  BY <1>2, <1>7, <1>10, LessRatio
<1> DEFINE v == (1000 + d) * u
           w == (1000 - d) * u
           q == c * (m * n)
<1>12. v \in Int /\ w \in Int /\ w <= v /\ v < q /\ q \in Int
  <2>1. d \in Nat /\ n \in Nat
    BY DEF d, n
  <2>2. v = 1000 * u + d * u /\ w = 1000 * u - d * u /\ d * u \in Nat
    BY <2>1
  <2>3. m * n \in Nat
    BY <1>6, <2>1
  <2> QED
    BY <1>5, <1>11, <2>2, <2>3
<1>14. Less(price, Times(down, s)) <=> c * (m * n) < w * 1
  BY <1>7, <1>10, LessRatio
<1> HIDE DEF v, w, q
<1>15. ~Less(price, Times(down, s))
  <2>1. Less(price, Times(down, s)) <=> q < w
    BY <1>12, <1>14 DEF q
  <2> QED
    BY <1>12, <2>1
<1>16. Less(Times(Milli(1000 + p.band), sma(b, Len(b), Periods(p.period))), Whole1(b[Len(b)].c)) /\ Len(b) >= Periods(p.period)
  BY <1>2, <1>4 DEF up, s, price, d, n
<1>17. Explained("trend_regime", b, p)
  BY <1>16 DEF Explained, Drawn, OverLevel
<1> QED
  BY <1>3, <1>15, <1>17

\* Ichimoku: the close is over the cloud.
LEMMA IchimokuExplained ==
  ASSUME NEW b, BarsOK(b), NEW p, ichimokuEntry(b, p),
         \A k \in {"tenkan", "kijun", "senkou_b", "confirm_bars"} : Periods(p[k]) \in Nat,
         Periods(p.tenkan) <= Periods(p.kijun), Periods(p.kijun) <= Periods(p.senkou_b)
  PROVE  Explained("ichimoku", b, p) /\ ~ichimokuExit(b, p)
<1> DEFINE L == Len(b)
           x == Periods(p.tenkan)
           y == Periods(p.kijun)
           z == Periods(p.senkou_b)
           S == {x, y, z}
<1>1. L \in Nat /\ x \in Nat /\ y \in Nat /\ z \in Nat /\ x <= y /\ y <= z
  BY ListsOf
<1>2. /\ L >= z + y + Periods(p.confirm_bars) + 1 /\ Less(ichiCloudTop(b, L, p), Whole1(b[L].c))
      /\ AtMost(ichiMid(b, L, y), Whole1(b[L].c))
  BY DEF ichimokuEntry
<1>3. ~ichimokuExit(b, p)
  BY <1>2 DEF ichimokuExit, AtMost
<1>4. L - y >= Max(S)
  <2>1. L - y >= z
    <3>1. Periods(p.confirm_bars) \in Nat
      OBVIOUS
    <3> HIDE DEF x, y, z
    <3> QED
      BY <1>1, <1>2, <3>1
  <2>2. IsFiniteSet(S)
    BY ThreeFinite, Zenon
  <2> HIDE DEF x, y, z
  <2>3. S \subseteq Int /\ S # {}
    BY <1>1
  <2>4. Max(S) \in S
    BY <2>2, <2>3, Extremes
  <2>5. \A w \in S : w <= z
    BY <1>1
  <2>6. Max(S) \in Int /\ Max(S) <= z
    BY <2>3, <2>4, <2>5
  <2> QED
    BY <1>1, <2>1, <2>6
<1>5. HasCloud(L, p)
  BY <1>4 DEF HasCloud
<1> QED
  BY <1>2, <1>3, <1>5 DEF Explained, Drawn, OverLevel

\* The bands of the break-out do not cross: above the upper one is not below the lower.
LEMMA BandsApart ==
  ASSUME NEW b, NEW n, NEW k \in Int, NEW x \in Int, x < k,
         variance(b, Len(b), n) \in Fracs, Less(Whole1(0), variance(b, Len(b), n)),
         sma(b, Len(b), n) \in Fracs, b[Len(b)].c \in Int, OverBand(b, n, k)
  PROVE  ~UnderBand(b, n, x)
<1> DEFINE V == variance(b, Len(b), n)
           d == Minus(Whole1(b[Len(b)].c), sma(b, Len(b), n))
           z == Whole1(0)
           Square(y) == Times(Times(Milli(y), Milli(y)), V)
<1>1. IF k >= 0 THEN Less(z, d) /\ AtMost(Square(k), Times(d, d)) /\ Times(d, d) # Square(k)
      ELSE AtMost(z, d) \/ ~AtMost(Square(k), Times(d, d))
  BY DEF OverBand, AtLeastSigmas
<1>2. UnderBand(b, n, x) =>
        IF x >= 0 THEN Less(d, z) \/ ~AtMost(Square(x), Times(d, d))
        ELSE Less(d, z) /\ AtMost(Square(x), Times(d, d)) /\ Times(d, d) # Square(x)
  BY DEF UnderBand, AtLeastSigmas
<1>3. d \in Fracs
  BY WholeIn, ArithmeticIn DEF Fracs
<1> HIDE DEF V, d
<1>4. PICK e \in Int, g \in Nat \ {0} : Ratio(d, e, g)
  BY <1>3, SelfRatio DEF Fracs
<1>5. PICK v \in Int, w \in Nat \ {0} : Ratio(V, v, w)
  BY SelfRatio DEF Fracs, V
<1>6. Ratio(z, 0, 1)
  BY WholeRatio
<1>7. v > 0
  <2>1. Less(z, V)
    BY DEF V
  <2>2. 0 * w < v * 1
    BY <1>5, <1>6, <2>1, LessRatio
  <2> QED
    BY <2>2
<1>8. (Less(d, z) <=> e < 0) /\ (Less(z, d) <=> 0 < e)
  <2>1. Less(d, z) <=> e * 1 < 0 * g
    BY <1>4, <1>6, LessRatio
  <2>2. Less(z, d) <=> 0 * g < e * 1
    BY <1>4, <1>6, LessRatio
  <2> QED
    BY <2>1, <2>2
<1>9. Ratio(Times(d, d), e * e, g * g)
  BY <1>4, TimesRatio
<1> DEFINE m == 1000
           A == (e * e) * ((m * m) * w)
           B == v * (g * g)
<1>10. m \in Nat \ {0} /\ \A y \in Int : Ratio(Milli(y), y, m)
  <2>1. ASSUME NEW y \in Int PROVE Ratio(Milli(y), y, m)
    BY FracRatio DEF Milli
  <2> QED
    BY <2>1
<1> HIDE DEF m, z
<1>11. ASSUME NEW y \in Int
       PROVE  AtMost(Square(y), Times(d, d)) <=> ~(A < (y * y) * B)
  <2>1. Ratio(Square(y), (y * y) * v, (m * m) * w)
    BY <1>5, <1>10, TimesRatio
  <2>2. Less(Times(d, d), Square(y)) <=> (e * e) * ((m * m) * w) < ((y * y) * v) * (g * g)
    BY <1>9, <2>1, LessRatio
  <2>3. ((y * y) * v) * (g * g) = (y * y) * B
    BY <1>5, <1>4
  <2> QED
    BY <2>2, <2>3 DEF AtMost
<1>12. A \in Int /\ B \in Nat \ {0}
  <2>1. g * g = g + g * (g - 1) /\ g * (g - 1) \in Nat
    OBVIOUS
  <2>2. g * g \in Nat \ {0} /\ v \in Nat \ {0}
    BY <1>7, <2>1
  <2>3. \A q \in Nat \ {0}, r \in Nat \ {0} : q * r = q + q * (r - 1) /\ q * (r - 1) \in Nat
    OBVIOUS
  <2>4. B \in Nat \ {0}
    BY <2>2, <2>3
  <2> QED
    BY <1>4, <1>5, <1>10, <2>4
<1> HIDE DEF A, B, Square
<1>13. ASSUME NEW y \in Int, NEW q \in Int, 0 <= q, q <= y
       PROVE  (q * q) * B <= (y * y) * B
  <2>1. q * q <= y * y
    <3>1. y * y = q * q + (y - q) * q + (y - q) * y
      OBVIOUS
    <3>2. (y - q) * q >= 0 /\ (y - q) * y >= 0
      BY <1>13
    <3> QED
      BY <1>13, <3>1, <3>2
  <2> DEFINE s == q * q
             t == y * y
  <2>2. s \in Int /\ t \in Int /\ s <= t
    BY <2>1
  <2> HIDE DEF s, t
  <2>3. t * B = s * B + (t - s) * B /\ (t - s) * B >= 0 /\ s * B \in Int /\ (t - s) * B \in Int
    BY <1>12, <2>2
  <2>4. s * B <= t * B
    BY <2>3
  <2> QED
    BY <2>4 DEF s, t
<1>14. CASE x >= 0
  <2>1. k >= 0 /\ 0 < e /\ ~(A < (k * k) * B)
    BY <1>1, <1>8, <1>11, <1>14
  <2>2. (x * x) * B <= (k * k) * B /\ (x * x) * B \in Int /\ (k * k) * B \in Int
    BY <1>12, <1>13, <1>14
  <2>3. ~(A < (x * x) * B) /\ ~(e < 0)
    BY <1>12, <2>1, <2>2
  <2> QED
    BY <1>2, <1>8, <1>11, <1>14, <2>3
<1>15. CASE x < 0 /\ k >= 0
  BY <1>1, <1>2, <1>8, <1>15
<1>16. CASE x < 0 /\ k < 0
  <2>1. ASSUME UnderBand(b, n, x) PROVE FALSE
    <3>1. ~(x >= 0) /\ ~(k >= 0)
      BY <1>16
    <3>2. e < 0 /\ ~(A < (x * x) * B) /\ Times(d, d) # Square(x)
      BY <1>2, <1>8, <1>11, <2>1, <3>1
    <3>3. A < (k * k) * B
      BY <1>1, <1>8, <1>11, <3>1, <3>2 DEF AtMost
    <3>4. ((-k) * (-k)) * B <= ((-x) * (-x)) * B
      <4> DEFINE q == -k
                 y == -x
      <4>1. q \in Int /\ y \in Int /\ 0 <= q /\ q <= y
        BY <1>16
      <4> HIDE DEF q, y
      <4>2. (q * q) * B <= (y * y) * B
        BY <1>13, <4>1
      <4> QED
        BY <4>2 DEF q, y
    <3>5. (-k) * (-k) = k * k /\ (-x) * (-x) = x * x
      OBVIOUS
    <3>6. (k * k) * B <= (x * x) * B /\ (x * x) * B \in Int /\ (k * k) * B \in Int
      BY <1>12, <3>4, <3>5
    <3> QED
      BY <1>12, <3>2, <3>3, <3>6
  <2> QED
    BY <2>1
<1> QED
  BY <1>14, <1>15, <1>16

\* The variance of the last n closes is a fraction.
LEMMA VarianceIn ==
  ASSUME NEW b, BarsOK(b), NEW n \in Nat \ {0}, Len(b) >= n
  PROVE  variance(b, Len(b), n) \in Fracs
<1> DEFINE t == Tail_(closesOf(b), n)
           S == SumOf(t)
<1> HIDE DEF t, S
<1> QED
  BY VarianceIs DEF t, S

\* Bollinger breakout: the close is over the upper band, so it is not under the exit's.
LEMMA BandExplained ==
  ASSUME NEW b, BarsOK(b), NEW p, bbBreakoutEntry(b, p), Periods(p.period) \in Nat \ {0},
         Periods(p.regime_period) \in Int, p.k \in Int, p.exit_k \in Int, p.exit_k < p.k
  PROVE  Explained("bb_breakout", b, p) /\ ~bbBreakoutExit(b, p)
<1> DEFINE L == Len(b)
           n == Periods(p.period)
           r == Periods(p.regime_period)
<1>1. L \in Nat
  BY ListsOf
<1>2. L >= Max({n, r}) + 1 /\ Less(Whole1(0), variance(b, L, n)) /\ OverBand(b, n, p.k)
  BY DEF bbBreakoutEntry
<1>3. bbBreakoutExit(b, p) => UnderBand(b, n, p.exit_k)
  BY DEF bbBreakoutExit
<1> HIDE DEF n, r
<1>4. Max({n, r}) = IF n >= r THEN n ELSE r
  BY Larger2 DEF n, r
<1>5. n \in Nat \ {0} /\ L >= n /\ L \in 1 .. L /\ n \in 1 .. L
  BY <1>1, <1>2, <1>4 DEF n, r
<1>6. variance(b, L, n) \in Fracs /\ sma(b, L, n) \in Fracs /\ b[L].c \in Int
  BY <1>5, VarianceIn, SmaIs, ListsOf
<1>7. ~UnderBand(b, n, p.exit_k)
  <2> DEFINE k == p.k
             x == p.exit_k
  <2>1. k \in Int /\ x \in Int /\ x < k /\ OverBand(b, n, k)
    BY <1>2
  <2> HIDE DEF k, x
  <2>2. ~UnderBand(b, n, x)
    BY <1>2, <1>6, <2>1, BandsApart
  <2> QED
    BY <2>2 DEF x
<1>8. Explained("bb_breakout", b, p)
  BY <1>2, <1>5 DEF Explained, Drawn, OverLevel, n
<1> QED
  BY <1>3, <1>7, <1>8

\* Bollinger reversion: the close is not under the lower band, which is drawn.
LEMMA ReversionExplained ==
  ASSUME NEW b, BarsOK(b), NEW p, bbReversionEntry(b, p), p.k \in Nat,
         \A k \in {"period", "regime_period"} : Periods(p[k]) \in Nat \ {0}
  PROVE  Explained("bb_reversion", b, p)
<1> DEFINE L == Len(b)
           n == Periods(p.period)
           k == p.k
           x == n + 1
           y == Periods(p.regime_period) + 1
           V == variance(b, L, n)
           s == sma(b, L, n)
           price == Whole1(b[L].c)
           below == Minus(s, price)
           d == Minus(price, s)
           z == Whole1(0)
           Square(q) == Times(Times(Milli(q), Milli(q)), V)
<1>1. L \in Nat /\ x \in Int /\ y \in Int /\ n \in Nat \ {0} /\ k \in Nat
  BY ListsOf
<1>2. Enough(b, {x, y}) /\ ~(AtMost(z, below) /\ AtMost(Square(k), Times(below, below)))
  BY DEF bbReversionEntry, AtLeastSigmas
<1>3. UnderBand(b, n, -k) =>
        IF -k >= 0 THEN Less(d, z) \/ ~AtMost(Square(-k), Times(d, d))
        ELSE Less(d, z) /\ AtMost(Square(-k), Times(d, d)) /\ Times(d, d) # Square(-k)
  BY DEF UnderBand, AtLeastSigmas
<1> HIDE DEF x, y
<1>4. L >= x
  BY <1>1, <1>2, EnoughTwo
<1>5. L >= n /\ L \in 1 .. L /\ n \in 1 .. L
  BY <1>1, <1>4 DEF x
<1> HIDE DEF n
<1>6. V \in Fracs /\ s \in Fracs /\ price \in Fracs
  <2>1. V \in Fracs
    BY <1>1, <1>5, VarianceIn
  <2>2. s \in Fracs
    BY <1>5, SmaIs
  <2>3. b[L].c \in Int
    BY <1>5, ListsOf
  <2> QED
    BY <2>1, <2>2, <2>3, WholeIn
<1> HIDE DEF V, s, price, k
<1>7. PICK a \in Int, g \in Nat \ {0} : Ratio(s, a, g)
  BY <1>6, SelfRatio DEF Fracs
<1>8. PICK c \in Int, h \in Nat \ {0} : Ratio(price, c, h)
  BY <1>6, SelfRatio DEF Fracs
<1>9. Ratio(below, a * h - c * g, g * h) /\ Ratio(d, c * g - a * h, h * g)
  BY <1>7, <1>8, MinusRatio
<1> DEFINE e == a * h - c * g
           w == g * h
           f == c * g - a * h
           u == h * g
<1>10. e \in Int /\ f = -e /\ w \in Nat \ {0} /\ u = w
  <2>1. g * h = g + g * (h - 1) /\ g * (h - 1) \in Nat
    OBVIOUS
  <2> QED
    BY <2>1
<1>11. Ratio(below, e, w) /\ Ratio(d, f, u) /\ below \in Fracs /\ d \in Fracs
  BY <1>6, <1>9, ArithmeticIn DEF Fracs
<1>12. Ratio(z, 0, 1)
  BY WholeRatio
<1> HIDE DEF e, f, w, u, below, d, z
<1>13. (Less(d, z) <=> 0 < e) /\ (AtMost(z, below) <=> e >= 0)
  <2>1. Less(d, z) <=> f * 1 < 0 * u
    BY <1>11, <1>12, LessRatio
  <2>2. Less(below, z) <=> e * 1 < 0 * w
    BY <1>11, <1>12, LessRatio
  <2> QED
    BY <1>10, <2>1, <2>2 DEF AtMost
<1>14. Times(below, below) = Times(d, d)
  <2>1. Ratio(Times(d, d), f * f, u * u) /\ Ratio(Times(below, below), e * e, w * w)
    BY <1>11, TimesRatio
  <2>2. Times(d, d) \in Fracs /\ Times(below, below) \in Fracs
    BY <1>11, ArithmeticIn DEF Fracs
  <2>3. (e * e) * (u * u) = (f * f) * (w * w)
    BY <1>10
  <2> QED
    BY <2>1, <2>2, <2>3, RatioEqual
<1> DEFINE m == 1000
<1>15. m \in Nat \ {0} /\ Ratio(Milli(k), k, m) /\ Ratio(Milli(-k), -k, m) /\ Milli(k) \in Fracs /\ Milli(-k) \in Fracs
  <2>1. k \in Int /\ -k \in Int
    BY <1>1
  <2> QED
    BY <2>1, FracRatio, FracIn DEF Milli
<1> HIDE DEF m
<1>16. Times(Milli(-k), Milli(-k)) = Times(Milli(k), Milli(k))
  <2>1. Ratio(Times(Milli(k), Milli(k)), k * k, m * m) /\ Ratio(Times(Milli(-k), Milli(-k)), (-k) * (-k), m * m)
    BY <1>15, TimesRatio
  <2>2. Times(Milli(k), Milli(k)) \in Fracs /\ Times(Milli(-k), Milli(-k)) \in Fracs
    BY <1>15, ArithmeticIn DEF Fracs
  <2>3. ((-k) * (-k)) * (m * m) = (k * k) * (m * m)
    BY <1>1, <1>15
  <2> QED
    BY <2>1, <2>2, <2>3, RatioEqual
<1>17. Square(-k) = Square(k)
  BY <1>16
<1>18. k = 0 => AtMost(Square(k), Times(d, d))
  <2>1. PICK v \in Int, i \in Nat \ {0} : Ratio(V, v, i)
    BY <1>6, SelfRatio DEF Fracs
  <2>2. Ratio(Square(k), (k * k) * v, (m * m) * i)
    BY <1>15, <2>1, TimesRatio
  <2>3. Ratio(Times(d, d), f * f, u * u)
    BY <1>11, TimesRatio
  <2>4. Less(Times(d, d), Square(k)) <=> (f * f) * ((m * m) * i) < ((k * k) * v) * (u * u)
    BY <2>2, <2>3, LessRatio
  <2>5. ASSUME k = 0 PROVE ~Less(Times(d, d), Square(k))
    <3>1. (k * k) * v = 0
      BY <2>5
    <3>2. ((k * k) * v) * (u * u) = 0
      BY <1>10, <3>1
    <3>3. f * f >= 0 /\ m * m >= 0 /\ f * f \in Int /\ m * m \in Int
      <4>1. f \in Int
        BY <1>10
      <4>2. f >= 0 => f * f >= 0
        BY <4>1
      <4>3. f < 0 => f * f >= 0
        BY <4>1
      <4> QED
        BY <1>15, <4>1, <4>2, <4>3
    <3>4. (m * m) * i >= 0 /\ (m * m) * i \in Int
      BY <3>3
    <3>5. (f * f) * ((m * m) * i) >= 0
      BY <3>3, <3>4
    <3> QED
      BY <2>4, <3>2, <3>5, <3>3, <3>4
  <2> QED
    BY <2>5 DEF AtMost
<1> HIDE DEF Square
<1>19. ~UnderBand(b, n, -k)
  <2>1. CASE k = 0
    <3>1. -k >= 0
      BY <2>1
    <3>2. UnderBand(b, n, -k) => Less(d, z)
      BY <1>3, <1>17, <1>18, <2>1, <3>1 DEF d, z
    <3> QED
      BY <1>2, <1>10, <1>13, <1>14, <1>18, <2>1, <3>2
  <2>2. CASE k # 0
    <3>1. ~(-k >= 0)
      BY <1>1, <2>2
    <3>2. UnderBand(b, n, -k) => Less(d, z) /\ AtMost(Square(k), Times(d, d))
      BY <1>3, <1>17, <3>1 DEF d, z
    <3> QED
      BY <1>2, <1>10, <1>13, <1>14, <3>2
  <2> QED
    BY <2>1, <2>2
<1>20. ~UnderBand(b, Periods(p.period), -p.k) /\ Len(b) >= Periods(p.period)
  BY <1>5, <1>19 DEF n, k
<1> QED
  BY <1>20 DEF Explained, Drawn, OverLevel

\* Ranges of the bars up to any.
LEMMA RangesIn ==
  ASSUME NEW b, BarsOK(b), NEW n \in Nat \ {0}, NEW e \in n + 1 .. Len(b)
  PROVE  ranges(b, e, n) \in Nat
<1> DEFINE f == [i \in Bars(e, n) |-> TrueRange(b, i)]
<1>1. Len(b) \in Nat
  BY ListsOf
<1>2. \A i \in Bars(e, n) : f[i] \in Nat
  <2>1. \A i \in Bars(e, n) : i \in 2 .. Len(b)
    BY <1>1 DEF Bars
  <2> QED
    BY <2>1, RangeIs
<1>3. IsFiniteSet(Bars(e, n))
  BY <1>1, FS_Interval DEF Bars
<1>4. ranges(b, e, n) = SumOver(f, Bars(e, n))
  BY DEF ranges
<1> HIDE DEF f
<1> QED
  BY <1>2, <1>3, <1>4, SumNat

\* The bands of the supertrend.
BandStates == [state : {-1, 0, 1}, up : Int, dn : Int]

\* One bar of the supertrend: what stays an up trend has its support at or under the close, what
\* becomes one has closed over its resistance.
LEMMA RatchetIs ==
  ASSUME NEW b, BarsOK(b), NEW n \in Nat \ {0}, NEW mult \in Int, NEW i \in n + 1 .. Len(b), NEW was \in BandStates
  PROVE  /\ ratchet(b, n, mult, i, was) \in BandStates
         /\ was.state = 1 /\ ratchet(b, n, mult, i, was).state = 1 =>
              2000 * n * b[i].c >= ratchet(b, n, mult, i, was).up
         /\ was.state # 1 /\ ratchet(b, n, mult, i, was).state = 1 =>
              2000 * n * b[i].c > ratchet(b, n, mult, i, was).dn
<1> DEFINE first == ~HasAtr(i - 1, n)
           x == 1000 * n * (b[i].h + b[i].l)
           q == 2000 * n * b[i-1].c
           y == x - 2 * mult * ranges(b, i, n)
           z == x + 2 * mult * ranges(b, i, n)
           up == IF first \/ q <= was.up THEN y ELSE Max({y, was.up})
           dn == IF first \/ q >= was.dn THEN z ELSE Min({z, was.dn})
           c == 2000 * n * b[i].c
           r == ratchet(b, n, mult, i, was)
<1>1. Len(b) \in Nat /\ i \in 1 .. Len(b) /\ i - 1 \in 1 .. Len(b)
  BY ListsOf
<1>2. b[i].h \in Int /\ b[i].l \in Int /\ b[i].c \in Int /\ b[i-1].c \in Int /\ ranges(b, i, n) \in Int
  <2> HIDE DEF x, q, y, z, up, dn, c, r, first
  <2>1. CandleOK(b[i]) /\ CandleOK(b[i-1])
    BY <1>1 DEF BarsOK
  <2>2. ranges(b, i, n) \in Int
    BY RangesIn
  <2>3. b[i].h \in Nat /\ b[i].l \in Nat /\ b[i].c \in Nat /\ b[i-1].c \in Nat
    BY <2>1 DEF CandleOK
  <2> QED
    BY <2>2, <2>3
<1>3. x \in Int /\ y \in Int /\ z \in Int /\ q \in Int /\ c \in Int
  <2>1. \A u \in Int, v \in Int : u * v \in Int /\ u + v \in Int /\ u - v \in Int
    OBVIOUS
  <2>2. 1000 * n \in Int /\ 2000 * n \in Int /\ 2 * mult \in Int
    OBVIOUS
  <2> DEFINE n1 == 1000 * n
             n2 == 2000 * n
             m2 == 2 * mult
  <2>3. n1 \in Int /\ n2 \in Int /\ m2 \in Int
    BY <2>2
  <2> HIDE DEF n1, n2, m2
  <2>4. n1 * (b[i].h + b[i].l) \in Int /\ m2 * ranges(b, i, n) \in Int /\ n2 * b[i-1].c \in Int /\ n2 * b[i].c \in Int
    BY <1>2, <2>1, <2>3
  <2>5. x \in Int /\ q \in Int /\ c \in Int
    BY <2>4 DEF n1, n2
  <2> DEFINE w == m2 * ranges(b, i, n)
  <2>6. w \in Int
    BY <2>4
  <2> HIDE DEF x
  <2>7. y = x - w /\ z = x + w
    BY DEF m2
  <2> HIDE DEF w, y, z
  <2> QED
    BY <2>1, <2>5, <2>6, <2>7
<1>4. r = IF was.state <= 0 /\ c > dn THEN [state |-> 1, up |-> y, dn |-> dn]
          ELSE IF was.state = 1 /\ c < up THEN [state |-> -1, up |-> up, dn |-> z]
          ELSE IF was.state = 0 THEN [state |-> -1, up |-> up, dn |-> dn]
          ELSE [state |-> was.state, up |-> up, dn |-> dn]
  BY DEF ratchet
<1>5. was.state \in {-1, 0, 1} /\ was.up \in Int /\ was.dn \in Int
  BY DEF BandStates
<1> HIDE DEF x, y, z, q, c, first, r
<1>6. up \in Int /\ dn \in Int
  BY <1>3, <1>5, Larger2
<1> HIDE DEF up, dn
<1>7. r \in BandStates
  BY <1>3, <1>4, <1>5, <1>6 DEF BandStates
<1>8. was.state = 1 /\ r.state = 1 => c >= r.up
  BY <1>3, <1>4, <1>6
<1>9. was.state # 1 /\ r.state = 1 => c > r.dn
  BY <1>3, <1>4, <1>5, <1>6
<1> QED
  BY <1>7, <1>8, <1>9 DEF r, c
BandStep(b, n, mult) ==
  [s \in (1 .. Len(b)) \X BandStates |->
     IF HasAtr(s[1], n) THEN ratchet(b, n, mult, s[1], s[2]) ELSE WarmingUp]

\* The states of the supertrend: each is the ratchet applied to the one before.
LEMMA StatesAre ==
  ASSUME NEW b, BarsOK(b), NEW n \in Nat \ {0}, NEW mult \in Int
  PROVE  /\ supertrendStates(b, n, mult) \in [0 .. Len(b) -> BandStates]
         /\ \A i \in n + 1 .. Len(b) :
              supertrendStates(b, n, mult)[i] = ratchet(b, n, mult, i, supertrendStates(b, n, mult)[i - 1])
<1> DEFINE L == Len(b)
           step == BandStep(b, n, mult)
           Rule(g) == g = [i \in 0 .. L |-> IF HasAtr(i, n) THEN ratchet(b, n, mult, i, g[i - 1]) ELSE WarmingUp]
           at == supertrendStates(b, n, mult)
<1>1. L \in Nat
  BY ListsOf
<1>2. WarmingUp \in BandStates
  BY DEF WarmingUp, BandStates
<1>3. ASSUME NEW i \in 0 + 1 .. L, NEW v \in BandStates
      PROVE  /\ step[<<i, v>>] = IF HasAtr(i, n) THEN ratchet(b, n, mult, i, v) ELSE WarmingUp
             /\ step[<<i, v>>] \in BandStates
  <2>1. step[<<i, v>>] = IF HasAtr(i, n) THEN ratchet(b, n, mult, i, v) ELSE WarmingUp
    <3>1. <<i, v>> \in (1 .. L) \X BandStates
      BY <1>1
    <3> QED
      BY <3>1 DEF BandStep
  <2>2. HasAtr(i, n) => i \in n + 1 .. L
    BY <1>1 DEF HasAtr
  <2> QED
    BY <1>2, <2>1, <2>2, RatchetIs
<1> HIDE DEF step
<1>4. PICK g \in [0 .. L -> BandStates] : StepsFrom(0, L, WarmingUp, step, g)
  <2>1. 0 \in Int /\ L \in Int /\ 0 <= L
    BY <1>1
  <2>2. \A i \in 0 + 1 .. L, v \in BandStates : step[<<i, v>>] \in BandStates
    BY <1>3
  <2> DEFINE lo == 0
  <2> HIDE DEF lo, L
  <2> QED
    BY <1>2, <2>1, <2>2, StepTable DEF lo
<1>5. Rule(g)
  <2>1. ASSUME NEW i \in 0 .. L
        PROVE  g[i] = IF HasAtr(i, n) THEN ratchet(b, n, mult, i, g[i - 1]) ELSE WarmingUp
    <3>1. g[i] = IF i = 0 THEN WarmingUp ELSE step[<<i, g[i - 1]>>]
      BY <1>4 DEF StepsFrom
    <3>2. CASE i = 0
      BY <3>1, <3>2 DEF HasAtr
    <3>3. CASE i # 0
      <4>1. i \in 0 + 1 .. L /\ g[i - 1] \in BandStates
        BY <1>1, <1>4, <3>3
      <4> QED
        BY <1>3, <3>1, <3>3, <4>1
    <3> QED
      BY <3>2, <3>3
  <2>2. g = [i \in 0 .. L |-> g[i]]
    BY <1>4
  <2> QED
    BY <2>1, <2>2
<1>6. at = CHOOSE h : Rule(h)
  BY DEF supertrendStates
<1>7. Rule(at)
  BY <1>5, <1>6
<1>8. at[0] \in BandStates /\ \A i \in 1 .. L : at[i - 1] \in BandStates => at[i] \in BandStates
  <2>1. at[0] = WarmingUp
    BY <1>1, <1>7 DEF HasAtr
  <2>2. ASSUME NEW i \in 1 .. L, at[i - 1] \in BandStates PROVE at[i] \in BandStates
    <3>1. at[i] = IF HasAtr(i, n) THEN ratchet(b, n, mult, i, at[i - 1]) ELSE WarmingUp
      <4> HIDE DEF at
      <4> QED
        BY <1>1, <1>7
    <3>2. i \in 0 + 1 .. L
      BY <1>1
    <3> HIDE DEF at
    <3> QED
      BY <1>3, <2>2, <3>1, <3>2
  <2> QED
    BY <1>2, <2>1, <2>2
<1> HIDE DEF at
<1>9. \A i \in 0 .. L : at[i] \in BandStates
  <2> DEFINE T == {m \in Nat : m <= L /\ at[m] \notin BandStates}
  <2>1. ASSUME T # {} PROVE FALSE
    <3>1. PICK m \in T : \A k \in T : m <= k
      <4>1. T \subseteq Nat
        OBVIOUS
      <4> HIDE DEF T
      <4> QED
        BY <2>1, <4>1, MinimalNat
    <3>2. m # 0
      BY <1>8, <3>1
    <3>3. m - 1 \in Nat /\ m - 1 <= L /\ m - 1 \notin T /\ m \in 1 .. L
      BY <1>1, <3>1, <3>2
    <3> QED
      BY <1>8, <3>1, <3>3
  <2> QED
    BY <1>1, <2>1
<1>10. at \in [0 .. L -> BandStates]
  BY <1>7, <1>9
<1>11. ASSUME NEW i \in n + 1 .. L PROVE at[i] = ratchet(b, n, mult, i, at[i - 1])
  <2>1. i \in 0 .. L /\ HasAtr(i, n)
    BY <1>1 DEF HasAtr
  <2> QED
    BY <1>7, <2>1
<1> QED
  BY <1>10, <1>11 DEF at

\* The trend's support, unless it has just been drawn anew.
LEMMA SupertrendExplained ==
  ASSUME NEW b, BarsOK(b), NEW p, p.mult \in Int, supertrendEntry(b, p),
         Periods(p.atr_period) \in Nat \ {0}, Periods(p.regime_period) \in Nat \ {0}
  PROVE  Explained("supertrend", b, p)
<1> DEFINE n == Periods(p.atr_period)
           z == Periods(p.regime_period)
           e == Len(b)
           st == supertrendStates(b, n, p.mult)
<1>1. e \in Nat
  BY ListsOf
<1>2. Enough(b, {n + 2, z + 1}) /\ st[e].state = 1
  BY DEF supertrendEntry
<1>3. n \in Nat \ {0} /\ z \in Nat \ {0} /\ p.mult \in Int
  OBVIOUS
<1> HIDE DEF n, z
<1>4. e >= n + 2
  <2> DEFINE v == n + 2
             w == z + 1
  <2>1. v \in Int /\ w \in Int
    BY <1>3
  <2> HIDE DEF v, w
  <2>2. Enough(b, {v, w})
    BY <1>2 DEF v, w
  <2>3. Len(b) >= v
    BY <1>1, <2>1, <2>2, EnoughTwo
  <2> QED
    BY <2>3 DEF v
<1>5. e \in n + 1 .. Len(b) /\ e - 1 \in 0 .. Len(b)
  <2>1. e >= n + 1 /\ e - 1 >= 0
    BY <1>1, <1>3, <1>4
  <2> HIDE DEF e
  <2> QED
    BY <1>1, <1>3, <2>1 DEF e
<1> DEFINE m == p.mult
<1>6. st[e - 1] \in BandStates /\ st[e] = ratchet(b, n, m, e, st[e - 1])
  <2>1. m \in Int
    BY <1>3
  <2> HIDE DEF m
  <2>2. /\ supertrendStates(b, n, m) \in [0 .. Len(b) -> BandStates]
        /\ \A i \in n + 1 .. Len(b) :
             supertrendStates(b, n, m)[i] = ratchet(b, n, m, i, supertrendStates(b, n, m)[i - 1])
    BY <1>3, <2>1, StatesAre
  <2>3. st = supertrendStates(b, n, m)
    BY DEF m
  <2> HIDE DEF st
  <2> QED
    BY <1>5, <2>2, <2>3
<1> HIDE DEF st, e
<1>7. IF st[e - 1].state = 1 THEN 2000 * n * b[e].c >= st[e].up ELSE 2000 * n * b[e].c > st[e].dn
  <2>1. m \in Int /\ e \in n + 1 .. Len(b)
    BY <1>3, <1>5 DEF e
  <2> HIDE DEF m
  <2> QED
    BY <1>2, <1>3, <1>6, <2>1, RatchetIs
<1>8. HasAtr(e, n)
  BY <1>1, <1>3, <1>4 DEF HasAtr
<1>9. Drawn("supertrend", Len(b), p)
  BY <1>8 DEF Drawn, e, n
<1>10. OverLevel("supertrend", b, p)
  BY <1>2, <1>7 DEF OverLevel, e, n, st
<1> QED
  BY <1>9, <1>10 DEF Explained

\* The average of a sequence of fractions is a sequence of fractions.
LEMMA EmaIn ==
  ASSUME NEW s, Len(s) \in Nat, \A i \in 1 .. Len(s) : s[i] \in Fracs, NEW n \in Nat \ {0}
  PROVE  emaSeries(s, n) \in [1 .. Len(s) -> Fracs]
<1> DEFINE L == Len(s)
           a == Frac(2, n + 1)
           q == Frac(n - 1, n + 1)
           step == [x \in (1 .. L) \X Fracs |-> Plus(Times(a, s[x[1]]), Times(q, x[2]))]
           Rule(g) == g = [i \in 1 .. L |-> IF i = 1 THEN s[1] ELSE Plus(Times(a, s[i]), Times(q, g[i - 1]))]
           at == CHOOSE g : Rule(g)
<1>1. a \in Fracs /\ q \in Fracs
  <2>1. n + 1 \in Nat \ {0} /\ n - 1 \in Int
    OBVIOUS
  <2> QED
    BY <2>1, FracIn
<1> HIDE DEF a, q
<1>2. \A i \in 1 .. L, v \in Fracs : /\ step[<<i, v>>] = Plus(Times(a, s[i]), Times(q, v))
                                      /\ step[<<i, v>>] \in Fracs
  <2>1. ASSUME NEW i \in 1 .. L, NEW v \in Fracs PROVE Plus(Times(a, s[i]), Times(q, v)) \in Fracs
    <3>1. s[i] \in Fracs
      OBVIOUS
    <3>2. \A x, y \in Fracs : Times(x, y) \in Fracs /\ Plus(x, y) \in Fracs
      <4>1. \A x \in Fracs : x \in Int \X (Nat \ {0})
        BY DEF Fracs
      <4> QED
        BY <4>1, ArithmeticIn
    <3> QED
      BY <1>1, <3>1, <3>2
  <2> QED
    BY <2>1
<1> HIDE DEF step
<1>3. ASSUME L > 0 PROVE \E g \in [1 .. L -> Fracs] : Rule(g)
  <2> DEFINE lo == 1
  <2>1. lo \in Int /\ L \in Int /\ lo <= L /\ s[1] \in Fracs
    BY <1>3
  <2>2. \A i \in lo + 1 .. L, v \in Fracs : step[<<i, v>>] \in Fracs
    <3>1. \A i \in lo + 1 .. L : i \in 1 .. L
      OBVIOUS
    <3> HIDE DEF lo, L
    <3> QED
      BY <1>2, <3>1 DEF L
  <2>3. PICK g \in [lo .. L -> Fracs] : StepsFrom(lo, L, s[1], step, g)
    <3> HIDE DEF lo, L
    <3> QED
      BY <2>1, <2>2, StepTable
  <2>4. ASSUME NEW i \in 1 .. L
        PROVE  g[i] = IF i = 1 THEN s[1] ELSE Plus(Times(a, s[i]), Times(q, g[i - 1]))
    <3>1. g[i] = IF i = 1 THEN s[1] ELSE step[<<i, g[i - 1]>>]
      BY <2>3 DEF StepsFrom
    <3>2. ASSUME i # 1 PROVE g[i - 1] \in Fracs
      <4>1. i - 1 \in lo .. L
        BY <3>2
      <4> QED
        BY <2>3, <4>1
    <3> QED
      BY <1>2, <3>1, <3>2
  <2>5. Rule(g) /\ g \in [1 .. L -> Fracs]
    <3>1. g = [i \in 1 .. L |-> g[i]]
      BY <2>3
    <3> QED
      BY <2>3, <2>4, <3>1
  <2> QED
    BY <2>5
<1>4. ASSUME L = 0 PROVE \E g : Rule(g)
  <2>1. Rule([i \in 1 .. L |-> 0])
    BY <1>4
  <2> QED
    BY <2>1
<1>5. Rule(at)
  <2>1. \E g : Rule(g)
    BY <1>3, <1>4
  <2> HIDE DEF Rule
  <2> QED
    BY <2>1
<1>6. emaSeries(s, n) = [i \in 1 .. L |-> at[i]]
  BY DEF emaSeries, a, q
<1> HIDE DEF at
<1>7. \A i \in 1 .. L : at[i] \in Fracs
  <2> DEFINE T == {m \in Nat : m \in 1 .. L /\ at[m] \notin Fracs}
  <2>1. ASSUME T # {} PROVE FALSE
    <3>1. PICK m \in T : \A k \in T : m <= k
      <4>1. T \subseteq Nat
        OBVIOUS
      <4> HIDE DEF T
      <4> QED
        BY <2>1, <4>1, MinimalNat
    <3>2. m \in 1 .. L /\ at[m] = IF m = 1 THEN s[1] ELSE Plus(Times(a, s[m]), Times(q, at[m - 1]))
      BY <1>5, <3>1
    <3>3. m # 1
      BY <3>1, <3>2
    <3>4. m - 1 \in 1 .. L /\ m - 1 \notin T
      BY <3>1, <3>2, <3>3
    <3>5. at[m - 1] \in Fracs
      BY <3>4
    <3> QED
      BY <1>2, <3>1, <3>2, <3>3, <3>5
  <2> QED
    BY <2>1
<1> QED
  BY <1>6, <1>7

\* A difference is positive when the first is greater.
LEMMA DiffPositive ==
  ASSUME NEW x \in Fracs, NEW y \in Fracs
  PROVE  Less(Whole1(0), Minus(x, y)) <=> Less(y, x)
<1> DEFINE z == Whole1(0)
           w == 1
<1>1. PICK a \in Int, h \in Nat \ {0}, c \in Int, g \in Nat \ {0} : Ratio(x, a, h) /\ Ratio(y, c, g)
  <2>1. x \in Int \X (Nat \ {0}) /\ y \in Int \X (Nat \ {0})
    BY DEF Fracs
  <2>2. Ratio(x, x[1], x[2]) /\ Ratio(y, y[1], y[2])
    BY <2>1, SelfRatio
  <2> QED
    BY <2>1, <2>2
<1>2. Ratio(Minus(x, y), a * g - c * h, h * g) /\ Ratio(z, 0, w)
  <2>1. Ratio(Minus(x, y), a * g - c * h, h * g)
    BY <1>1, MinusRatio
  <2>2. Ratio(z, 0, w)
    BY WholeRatio
  <2> QED
    BY <2>1, <2>2
<1> HIDE DEF z, w
<1>3. Less(y, x) <=> c * h < a * g
  BY <1>1, LessRatio
<1>4. Less(z, Minus(x, y)) <=> 0 * (h * g) < (a * g - c * h) * w
  BY <1>2, LessRatio
<1>5. (0 * (h * g) < (a * g - c * h) * w) <=> c * h < a * g
  BY <1>1 DEF w
<1> QED
  BY <1>3, <1>4, <1>5 DEF z

\* The fast average over the slow one.
LEMMA MacdExplained ==
  ASSUME NEW b, BarsOK(b), NEW p, macdTrendEntry(b, p),
         \A k \in {"fast", "slow", "signal", "confirm_bars", "regime_period"} : Periods(p[k]) \in Nat \ {0}
  PROVE  Explained("macd_trend", b, p)
<1> DEFINE e == Len(b)
           fast == Periods(p.fast)
           slow == Periods(p.slow)
           least == macdLeast(p)
           x == slow + Periods(p.signal) + Periods(p.confirm_bars) + 2
           y == Periods(p.regime_period) + 1
           start == Max({1, e - macdSpan(p) + 1})
           w == Closes(SubSeq(b, start, e))
           c == Closes(b)
<1>1. e \in Nat /\ b \in Seq({b[i] : i \in DOMAIN b}) /\ \A i \in 1 .. e : b[i].c \in Nat \ {0}
  BY ListsOf DEF BarsOK
<1>2. fast \in Nat \ {0} /\ slow \in Nat \ {0} /\ x \in Nat /\ y \in Nat /\ x >= slow + 4
  <2>1. /\ Periods(p["fast"]) \in Nat \ {0} /\ Periods(p["slow"]) \in Nat \ {0} /\ Periods(p["signal"]) \in Nat \ {0}
        /\ Periods(p["confirm_bars"]) \in Nat \ {0} /\ Periods(p["regime_period"]) \in Nat \ {0}
    OBVIOUS
  <2> QED
    BY <2>1
<1>3. least = IF x >= y THEN x ELSE y
  <2>1. least = Max({x, y})
    BY DEF macdLeast
  <2> HIDE DEF x, y, least
  <2> QED
    BY <1>2, <2>1, Larger2
<1>4. least \in Nat /\ least >= slow + 4
  <2> HIDE DEF x, y, least
  <2> QED
    BY <1>2, <1>3
<1>5. e >= least
  BY DEF macdTrendEntry
<1>6. e >= slow /\ e \in Nat \ {0}
  <2> HIDE DEF least, e, slow
  <2> QED
    BY <1>1, <1>2, <1>4, <1>5
<1>7. p.require_positive # 0 =>
        Less(Whole1(0), [i \in 1 .. Len(w) |-> Minus(emaSeries(w, fast)[i], emaSeries(w, slow)[i])][Len(w)])
  BY DEF macdTrendEntry
<1>8. ASSUME e <= macdSpan(p) PROVE w = c
  <2> DEFINE d == e - macdSpan(p) + 1
  <2>1. macdSpan(p) = least + 200
    BY DEF macdSpan
  <2>2. d \in Int /\ d <= 1
    <3> HIDE DEF e, least
    <3>1. macdSpan(p) \in Nat
      BY <1>4, <2>1
    <3> QED
      BY <1>1, <1>8, <3>1
  <2> HIDE DEF d
  <2>3. Max({1, d}) = 1
    <3>1. Max({1, d}) = IF 1 >= d THEN 1 ELSE d
      <4> DEFINE u == 1
      <4>1. u \in Int
        OBVIOUS
      <4> HIDE DEF u
      <4>2. Max({u, d}) = IF u >= d THEN u ELSE d
        BY <2>2, <4>1, Larger2
      <4> QED
        BY <4>2 DEF u
    <3> QED
      BY <2>2, <3>1
  <2>4. start = 1
    BY <2>3 DEF d
  <2>5. SubSeq(b, 1, e) = b
    BY <1>1
  <2> QED
    BY <2>4, <2>5
<1>9. Len(c) = e /\ \A i \in 1 .. e : c[i] \in Fracs
  <2>1. \A i \in 1 .. e : Whole1(b[i].c) \in Fracs
    <3>1. \A v \in Nat \ {0} : Whole1(v) \in Fracs
      BY WholeIn
    <3> HIDE DEF e
    <3> QED
      BY <1>1, <3>1
  <2>2. c = [i \in 1 .. e |-> Whole1(b[i].c)]
    BY DEF Closes
  <2>3. c \in Seq(Fracs) /\ Len(c) = e
    <3> HIDE DEF c, e
    <3> QED
      BY <1>1, <2>1, <2>2
  <2> HIDE DEF c, e
  <2> QED
    BY <2>1, <2>2, <2>3
<1>10. emaSeries(c, fast)[e] \in Fracs /\ emaSeries(c, slow)[e] \in Fracs
  <2> HIDE DEF c, e, fast, slow
  <2>1. emaSeries(c, fast) \in [1 .. Len(c) -> Fracs] /\ emaSeries(c, slow) \in [1 .. Len(c) -> Fracs]
    BY <1>1, <1>2, <1>9, EmaIn
  <2> QED
    BY <1>6, <1>9, <2>1
<1>11. ASSUME p.require_positive # 0, e <= macdSpan(p)
       PROVE  Less(emaSeries(c, slow)[e], emaSeries(c, fast)[e])
  <2>1. w = c /\ Len(w) = e
    BY <1>8, <1>9, <1>11
  <2>2. Less(Whole1(0), [i \in 1 .. Len(w) |-> Minus(emaSeries(w, fast)[i], emaSeries(w, slow)[i])][Len(w)])
    BY <1>7, <1>11
  <2> HIDE DEF c, e, w, fast, slow
  <2>3. e \in 1 .. Len(w)
    BY <1>6, <2>1
  <2>4. Less(Whole1(0), Minus(emaSeries(c, fast)[e], emaSeries(c, slow)[e]))
    BY <2>1, <2>2, <2>3
  <2> QED
    BY <1>10, <2>4, DiffPositive
<1>12. Drawn("macd_trend", Len(b), p)
  BY <1>6 DEF Drawn
<1>13. OverLevel("macd_trend", b, p)
  <2>1. p.require_positive # 0 /\ Len(b) <= macdSpan(p) =>
          Less(emaSeries(Closes(b), Periods(p.slow))[Len(b)], emaSeries(Closes(b), Periods(p.fast))[Len(b)])
    BY <1>11
  <2> QED
    BY <2>1 DEF OverLevel
<1> QED
  BY <1>12, <1>13 DEF Explained

\* The parameters of a template that its rule and its level read.
Read ==
  [momentum |-> {"lookback", "atr_period", "vol_period", "regime_period", "buffer"},
   squeeze_breakout |-> {"lookback", "bb_period", "atr_period", "vol_period", "regime_period", "buffer"},
   vol_expansion |-> {"long_atr", "breakout_lookback", "regime_period"},
   rsi |-> {"regime_period"},
   fast_rsi |-> {"regime_period"},
   tsmom |-> {"regime_period"},
   sharpe_mom |-> {"regime_period"},
   donchian_trend |-> {"regime_period", "entry_lookback", "exit_lookback"},
   ma_crossover |-> {"fast", "slow", "atr_period", "regime_period", "k_atr"},
   trend_regime |-> {"period", "slope_bars", "band"},
   ichimoku |-> {"tenkan", "kijun", "senkou_b", "confirm_bars"},
   bb_breakout |-> {"period", "regime_period", "k", "exit_k"},
   bb_reversion |-> {"period", "regime_period", "k"},
   supertrend |-> {"atr_period", "regime_period", "mult"},
   macd_trend |-> {"fast", "slow", "signal", "confirm_bars", "regime_period"}]

\* These are parameters of the template's catalog entry.
LEMMA ReadIs ==
  ASSUME NEW t \in BUILTIN_TEMPLATES
  PROVE  Read[t] \subseteq DOMAIN TEMPLATE_CONFIG[t].params \ {"expected_move_pct"}
<1>1. \A coin, ex, ps, ed : Config(coin, ex, ps, ed).params = ps
  BY DEF Config
<1>2. CASE t = "momentum"
  <2>1. TEMPLATE_CONFIG["momentum"] = momentum_config
    BY DEF TEMPLATE_CONFIG
  <2>2. {"lookback", "atr_period", "vol_period", "regime_period", "buffer"} \subseteq DOMAIN momentum_config.params
    BY <1>1 DEF momentum_config
  <2>3. Read["momentum"] = {"lookback", "atr_period", "vol_period", "regime_period", "buffer"}
    BY DEF Read
  <2> QED
    BY <1>2, <2>1, <2>2, <2>3
<1>3. CASE t = "squeeze_breakout"
  <2>1. TEMPLATE_CONFIG["squeeze_breakout"] = squeeze_breakout_config
    BY DEF TEMPLATE_CONFIG
  <2>2. {"lookback", "bb_period", "atr_period", "vol_period", "regime_period", "buffer"} \subseteq DOMAIN squeeze_breakout_config.params
    BY <1>1 DEF squeeze_breakout_config
  <2>3. Read["squeeze_breakout"] = {"lookback", "bb_period", "atr_period", "vol_period", "regime_period", "buffer"}
    BY DEF Read
  <2> QED
    BY <1>3, <2>1, <2>2, <2>3
<1>4. CASE t = "vol_expansion"
  <2>1. TEMPLATE_CONFIG["vol_expansion"] = vol_expansion_config
    BY DEF TEMPLATE_CONFIG
  <2>2. {"long_atr", "breakout_lookback", "regime_period"} \subseteq DOMAIN vol_expansion_config.params
    BY <1>1 DEF vol_expansion_config
  <2>3. Read["vol_expansion"] = {"long_atr", "breakout_lookback", "regime_period"}
    BY DEF Read
  <2> QED
    BY <1>4, <2>1, <2>2, <2>3
<1>5. CASE t = "rsi"
  <2>1. TEMPLATE_CONFIG["rsi"] = rsi_config
    BY DEF TEMPLATE_CONFIG
  <2>2. {"regime_period"} \subseteq DOMAIN rsi_config.params
    BY <1>1 DEF rsi_config
  <2>3. Read["rsi"] = {"regime_period"}
    BY DEF Read
  <2> QED
    BY <1>5, <2>1, <2>2, <2>3
<1>6. CASE t = "fast_rsi"
  <2>1. TEMPLATE_CONFIG["fast_rsi"] = fast_rsi_config
    BY DEF TEMPLATE_CONFIG
  <2>2. {"regime_period"} \subseteq DOMAIN fast_rsi_config.params
    BY <1>1 DEF fast_rsi_config
  <2>3. Read["fast_rsi"] = {"regime_period"}
    BY DEF Read
  <2> QED
    BY <1>6, <2>1, <2>2, <2>3
<1>7. CASE t = "tsmom"
  <2>1. TEMPLATE_CONFIG["tsmom"] = tsmom_config
    BY DEF TEMPLATE_CONFIG
  <2>2. {"regime_period"} \subseteq DOMAIN tsmom_config.params
    BY <1>1 DEF tsmom_config
  <2>3. Read["tsmom"] = {"regime_period"}
    BY DEF Read
  <2> QED
    BY <1>7, <2>1, <2>2, <2>3
<1>8. CASE t = "sharpe_mom"
  <2>1. TEMPLATE_CONFIG["sharpe_mom"] = sharpe_mom_config
    BY DEF TEMPLATE_CONFIG
  <2>2. {"regime_period"} \subseteq DOMAIN sharpe_mom_config.params
    BY <1>1 DEF sharpe_mom_config
  <2>3. Read["sharpe_mom"] = {"regime_period"}
    BY DEF Read
  <2> QED
    BY <1>8, <2>1, <2>2, <2>3
<1>9. CASE t = "donchian_trend"
  <2>1. TEMPLATE_CONFIG["donchian_trend"] = donchian_trend_config
    BY DEF TEMPLATE_CONFIG
  <2>2. {"regime_period", "entry_lookback", "exit_lookback"} \subseteq DOMAIN donchian_trend_config.params
    BY <1>1 DEF donchian_trend_config
  <2>3. Read["donchian_trend"] = {"regime_period", "entry_lookback", "exit_lookback"}
    BY DEF Read
  <2> QED
    BY <1>9, <2>1, <2>2, <2>3
<1>10. CASE t = "ma_crossover"
  <2>1. TEMPLATE_CONFIG["ma_crossover"] = ma_crossover_config
    BY DEF TEMPLATE_CONFIG
  <2>2. {"fast", "slow", "atr_period", "regime_period", "k_atr"} \subseteq DOMAIN ma_crossover_config.params
    BY <1>1 DEF ma_crossover_config
  <2>3. Read["ma_crossover"] = {"fast", "slow", "atr_period", "regime_period", "k_atr"}
    BY DEF Read
  <2> QED
    BY <1>10, <2>1, <2>2, <2>3
<1>11. CASE t = "trend_regime"
  <2>1. TEMPLATE_CONFIG["trend_regime"] = trend_regime_config
    BY DEF TEMPLATE_CONFIG
  <2>2. {"period", "slope_bars", "band"} \subseteq DOMAIN trend_regime_config.params
    BY <1>1 DEF trend_regime_config
  <2>3. Read["trend_regime"] = {"period", "slope_bars", "band"}
    BY DEF Read
  <2> QED
    BY <1>11, <2>1, <2>2, <2>3
<1>12. CASE t = "ichimoku"
  <2>1. TEMPLATE_CONFIG["ichimoku"] = ichimoku_config
    BY DEF TEMPLATE_CONFIG
  <2>2. {"tenkan", "kijun", "senkou_b", "confirm_bars"} \subseteq DOMAIN ichimoku_config.params
    BY <1>1 DEF ichimoku_config
  <2>3. Read["ichimoku"] = {"tenkan", "kijun", "senkou_b", "confirm_bars"}
    BY DEF Read
  <2> QED
    BY <1>12, <2>1, <2>2, <2>3
<1>13. CASE t = "bb_breakout"
  <2>1. TEMPLATE_CONFIG["bb_breakout"] = bb_breakout_config
    BY DEF TEMPLATE_CONFIG
  <2>2. {"period", "regime_period", "k", "exit_k"} \subseteq DOMAIN bb_breakout_config.params
    BY <1>1 DEF bb_breakout_config
  <2>3. Read["bb_breakout"] = {"period", "regime_period", "k", "exit_k"}
    BY DEF Read
  <2> QED
    BY <1>13, <2>1, <2>2, <2>3
<1>14. CASE t = "bb_reversion"
  <2>1. TEMPLATE_CONFIG["bb_reversion"] = bb_reversion_config
    BY DEF TEMPLATE_CONFIG
  <2>2. {"period", "regime_period", "k"} \subseteq DOMAIN bb_reversion_config.params
    BY <1>1 DEF bb_reversion_config
  <2>3. Read["bb_reversion"] = {"period", "regime_period", "k"}
    BY DEF Read
  <2> QED
    BY <1>14, <2>1, <2>2, <2>3
<1>15. CASE t = "supertrend"
  <2>1. TEMPLATE_CONFIG["supertrend"] = supertrend_config
    BY DEF TEMPLATE_CONFIG
  <2>2. {"atr_period", "regime_period", "mult"} \subseteq DOMAIN supertrend_config.params
    BY <1>1 DEF supertrend_config
  <2>3. Read["supertrend"] = {"atr_period", "regime_period", "mult"}
    BY DEF Read
  <2> QED
    BY <1>15, <2>1, <2>2, <2>3
<1>16. CASE t = "macd_trend"
  <2>1. TEMPLATE_CONFIG["macd_trend"] = macd_trend_config
    BY DEF TEMPLATE_CONFIG
  <2>2. {"fast", "slow", "signal", "confirm_bars", "regime_period"} \subseteq DOMAIN macd_trend_config.params
    BY <1>1 DEF macd_trend_config
  <2>3. Read["macd_trend"] = {"fast", "slow", "signal", "confirm_bars", "regime_period"}
    BY DEF Read
  <2> QED
    BY <1>16, <2>1, <2>2, <2>3
<1> QED
  BY <1>2, <1>3, <1>4, <1>5, <1>6, <1>7, <1>8, <1>9, <1>10, <1>11, <1>12, <1>13, <1>14, <1>15, <1>16 DEF BUILTIN_TEMPLATES, ACTIVE_TEMPLATES, RETIRED_TEMPLATES

\* A longer period has as many bars or more.
LEMMA LongerIs ==
  ASSUME NEW x \in Int, NEW y \in Int, x <= y
  PROVE  Periods(x) <= Periods(y)
BY DEF Periods

\* What a template enters its level explains, and its exit does not take back.
LEMMA EntryExplained ==
  ASSUME NEW t \in SimTemplates, t # "custom", NEW p \in SimParams[t], ~paramRuleError(t, p),
         NEW b, BarsOK(b), ENTRY(t, b, p)
  PROVE  Explained(t, b, p) /\ ~EXIT_SIGNAL(t, b, p)
<1>1. t \in BUILTIN_TEMPLATES
  BY SimulatorAssumption
<1>2. ASSUME NEW key \in Read[t]
      PROVE  /\ p[key] \in Int /\ Periods(p[key]) \in Int
             /\ key \in PERIODS => p[key] >= 1000 /\ Periods(p[key]) \in Nat \ {0}
             /\ key = "regime_period" /\ t \notin {"bb_breakout", "donchian_trend"} =>
                   p[key] >= 1000 /\ Periods(p[key]) \in Nat \ {0}
             /\ key \in MARGINS => p[key] >= 0
             /\ key = "k" /\ t = "bb_reversion" => p[key] >= 0
  <2>1. key \in DOMAIN TEMPLATE_CONFIG[t].params /\ key # "expected_move_pct"
    BY <1>1, ReadIs
  <2> QED
    BY <2>1, ParamIs
<1>3. CASE t = "momentum"
  <2>1. momentumEntry(b, p)
    BY <1>3 DEF ENTRY
  <2>2. Read[t] = {"lookback", "atr_period", "vol_period", "regime_period", "buffer"}
    BY <1>3 DEF Read
  <2>3. p["lookback"] \in Int /\ Periods(p["lookback"]) \in Nat \ {0}
    BY <1>2, <1>3, <2>2 DEF PERIODS, MARGINS
  <2>4. p["atr_period"] \in Int /\ Periods(p["atr_period"]) \in Nat \ {0}
    BY <1>2, <1>3, <2>2 DEF PERIODS, MARGINS
  <2>5. p["vol_period"] \in Int /\ Periods(p["vol_period"]) \in Nat \ {0}
    BY <1>2, <1>3, <2>2 DEF PERIODS, MARGINS
  <2>6. p["regime_period"] \in Int /\ Periods(p["regime_period"]) \in Nat \ {0}
    BY <1>2, <1>3, <2>2 DEF PERIODS, MARGINS
  <2>7. p["buffer"] \in Nat
    BY <1>2, <1>3, <2>2 DEF PERIODS, MARGINS
  <2>8. Explained("momentum", b, p)
    BY <2>1, <2>3, <2>4, <2>5, <2>6, <2>7, MomentumExplained
  <2> QED
    BY <1>3, <2>8 DEF EXIT_SIGNAL
<1>4. CASE t = "squeeze_breakout"
  <2>1. squeezeBreakoutEntry(b, p)
    BY <1>4 DEF ENTRY
  <2>2. Read[t] = {"lookback", "bb_period", "atr_period", "vol_period", "regime_period", "buffer"}
    BY <1>4 DEF Read
  <2>3. p["lookback"] \in Int /\ Periods(p["lookback"]) \in Nat \ {0}
    BY <1>2, <1>4, <2>2 DEF PERIODS, MARGINS
  <2>4. p["bb_period"] \in Int /\ Periods(p["bb_period"]) \in Nat \ {0}
    BY <1>2, <1>4, <2>2 DEF PERIODS, MARGINS
  <2>5. p["atr_period"] \in Int /\ Periods(p["atr_period"]) \in Nat \ {0}
    BY <1>2, <1>4, <2>2 DEF PERIODS, MARGINS
  <2>6. p["vol_period"] \in Int /\ Periods(p["vol_period"]) \in Nat \ {0}
    BY <1>2, <1>4, <2>2 DEF PERIODS, MARGINS
  <2>7. p["regime_period"] \in Int /\ Periods(p["regime_period"]) \in Nat \ {0}
    BY <1>2, <1>4, <2>2 DEF PERIODS, MARGINS
  <2>8. p["buffer"] \in Nat
    BY <1>2, <1>4, <2>2 DEF PERIODS, MARGINS
  <2>9. Explained("squeeze_breakout", b, p)
    BY <2>1, <2>3, <2>4, <2>5, <2>6, <2>7, <2>8, SqueezeExplained
  <2> QED
    BY <1>4, <2>9 DEF EXIT_SIGNAL
<1>5. CASE t = "vol_expansion"
  <2>1. volExpansionEntry(b, p)
    BY <1>5 DEF ENTRY
  <2>2. Read[t] = {"long_atr", "breakout_lookback", "regime_period"}
    BY <1>5 DEF Read
  <2>3. p["long_atr"] \in Int /\ Periods(p["long_atr"]) \in Nat \ {0}
    BY <1>2, <1>5, <2>2 DEF PERIODS, MARGINS
  <2>4. p["breakout_lookback"] \in Int /\ Periods(p["breakout_lookback"]) \in Nat \ {0}
    BY <1>2, <1>5, <2>2 DEF PERIODS, MARGINS
  <2>5. p["regime_period"] \in Int /\ Periods(p["regime_period"]) \in Nat \ {0}
    BY <1>2, <1>5, <2>2 DEF PERIODS, MARGINS
  <2>6. Explained("vol_expansion", b, p)
    BY <2>1, <2>3, <2>4, <2>5, ExpansionExplained
  <2> QED
    BY <1>5, <2>6 DEF EXIT_SIGNAL
<1>6. CASE t = "rsi"
  <2>1. rsiEntry(b, p)
    BY <1>6 DEF ENTRY
  <2>2. Read[t] = {"regime_period"}
    BY <1>6 DEF Read
  <2>3. p["regime_period"] \in Int /\ Periods(p["regime_period"]) \in Nat \ {0}
    BY <1>2, <1>6, <2>2 DEF PERIODS, MARGINS
  <2>4. uptrend(b, Len(b), Periods(p.regime_period))
    BY <2>1 DEF rsiEntry
  <2>5. Explained("rsi", b, p)
    BY <2>1, <2>3, <2>4, RegimeExplained
  <2> QED
    BY <1>6, <2>5 DEF EXIT_SIGNAL
<1>7. CASE t = "fast_rsi"
  <2>1. rsiEntry(b, p)
    BY <1>7 DEF ENTRY
  <2>2. Read[t] = {"regime_period"}
    BY <1>7 DEF Read
  <2>3. p["regime_period"] \in Int /\ Periods(p["regime_period"]) \in Nat \ {0}
    BY <1>2, <1>7, <2>2 DEF PERIODS, MARGINS
  <2>4. uptrend(b, Len(b), Periods(p.regime_period))
    BY <2>1 DEF rsiEntry
  <2>5. Explained("fast_rsi", b, p)
    BY <2>1, <2>3, <2>4, RegimeExplained
  <2> QED
    BY <1>7, <2>5 DEF EXIT_SIGNAL
<1>8. CASE t = "tsmom"
  <2>1. tsmomEntry(b, p)
    BY <1>8 DEF ENTRY
  <2>2. Read[t] = {"regime_period"}
    BY <1>8 DEF Read
  <2>3. p["regime_period"] \in Int /\ Periods(p["regime_period"]) \in Nat \ {0}
    BY <1>2, <1>8, <2>2 DEF PERIODS, MARGINS
  <2>4. uptrend(b, Len(b), Periods(p.regime_period))
    BY <2>1 DEF tsmomEntry
  <2>5. Explained("tsmom", b, p)
    BY <2>1, <2>3, <2>4, RegimeExplained
  <2> QED
    BY <1>8, <2>5 DEF EXIT_SIGNAL
<1>9. CASE t = "sharpe_mom"
  <2>1. sharpeMomEntry(b, p)
    BY <1>9 DEF ENTRY
  <2>2. Read[t] = {"regime_period"}
    BY <1>9 DEF Read
  <2>3. p["regime_period"] \in Int /\ Periods(p["regime_period"]) \in Nat \ {0}
    BY <1>2, <1>9, <2>2 DEF PERIODS, MARGINS
  <2>4. uptrend(b, Len(b), Periods(p.regime_period))
    BY <2>1 DEF sharpeMomEntry
  <2>5. Explained("sharpe_mom", b, p)
    BY <2>1, <2>3, <2>4, RegimeExplained
  <2> QED
    BY <1>9, <2>5 DEF EXIT_SIGNAL
<1>10. CASE t = "donchian_trend"
  <2>1. donchianTrendEntry(b, p)
    BY <1>10 DEF ENTRY
  <2>2. Read[t] = {"regime_period", "entry_lookback", "exit_lookback"}
    BY <1>10 DEF Read
  <2>3. Periods(p["regime_period"]) \in Int
    BY <1>2, <1>10, <2>2 DEF PERIODS, MARGINS
  <2>4. p["entry_lookback"] \in Int /\ Periods(p["entry_lookback"]) \in Nat \ {0}
    BY <1>2, <1>10, <2>2 DEF PERIODS, MARGINS
  <2>5. p["exit_lookback"] \in Int /\ Periods(p["exit_lookback"]) \in Nat \ {0}
    BY <1>2, <1>10, <2>2 DEF PERIODS, MARGINS
  <2>6. Explained("donchian_trend", b, p) /\ ~donchianTrendExit(b, p)
    BY <2>1, <2>3, <2>4, <2>5, DonchianExplained
  <2> QED
    BY <1>10, <2>6 DEF EXIT_SIGNAL
<1>11. CASE t = "ma_crossover"
  <2>1. maCrossoverEntry(b, p)
    BY <1>11 DEF ENTRY
  <2>2. Read[t] = {"fast", "slow", "atr_period", "regime_period", "k_atr"}
    BY <1>11 DEF Read
  <2>3. p["fast"] \in Int /\ Periods(p["fast"]) \in Nat \ {0}
    BY <1>2, <1>11, <2>2 DEF PERIODS, MARGINS
  <2>4. p["slow"] \in Int /\ Periods(p["slow"]) \in Nat \ {0}
    BY <1>2, <1>11, <2>2 DEF PERIODS, MARGINS
  <2>5. p["atr_period"] \in Int /\ Periods(p["atr_period"]) \in Nat \ {0}
    BY <1>2, <1>11, <2>2 DEF PERIODS, MARGINS
  <2>6. p["regime_period"] \in Int /\ Periods(p["regime_period"]) \in Nat \ {0}
    BY <1>2, <1>11, <2>2 DEF PERIODS, MARGINS
  <2>7. p["k_atr"] \in Nat
    BY <1>2, <1>11, <2>2 DEF PERIODS, MARGINS
  <2>8. Periods(p.fast) <= Periods(p.slow)
    <3>1. ~(p.fast >= p.slow)
      BY <1>11 DEF paramRuleError
    <3> QED
      BY <2>3, <2>4, <2>5, <2>6, <2>7, <3>1, LongerIs
  <2>9. Explained("ma_crossover", b, p)
    BY <2>1, <2>3, <2>4, <2>5, <2>6, <2>7, <2>8, CrossoverExplained
  <2> QED
    BY <1>11, <2>9 DEF EXIT_SIGNAL
<1>12. CASE t = "trend_regime"
  <2>1. trendRegimeEntry(b, p)
    BY <1>12 DEF ENTRY
  <2>2. Read[t] = {"period", "slope_bars", "band"}
    BY <1>12 DEF Read
  <2>3. p["period"] \in Int /\ Periods(p["period"]) \in Nat \ {0}
    BY <1>2, <1>12, <2>2 DEF PERIODS, MARGINS
  <2>4. p["slope_bars"] \in Int /\ Periods(p["slope_bars"]) \in Nat \ {0}
    BY <1>2, <1>12, <2>2 DEF PERIODS, MARGINS
  <2>5. p["band"] \in Nat
    BY <1>2, <1>12, <2>2 DEF PERIODS, MARGINS
  <2>6. Explained("trend_regime", b, p) /\ ~trendRegimeExit(b, p)
    BY <2>1, <2>3, <2>4, <2>5, TrendRegimeExplained
  <2> QED
    BY <1>12, <2>6 DEF EXIT_SIGNAL
<1>13. CASE t = "ichimoku"
  <2>1. ichimokuEntry(b, p)
    BY <1>13 DEF ENTRY
  <2>2. Read[t] = {"tenkan", "kijun", "senkou_b", "confirm_bars"}
    BY <1>13 DEF Read
  <2>3. p["tenkan"] \in Int /\ Periods(p["tenkan"]) \in Nat \ {0}
    BY <1>2, <1>13, <2>2 DEF PERIODS, MARGINS
  <2>4. p["kijun"] \in Int /\ Periods(p["kijun"]) \in Nat \ {0}
    BY <1>2, <1>13, <2>2 DEF PERIODS, MARGINS
  <2>5. p["senkou_b"] \in Int /\ Periods(p["senkou_b"]) \in Nat \ {0}
    BY <1>2, <1>13, <2>2 DEF PERIODS, MARGINS
  <2>6. p["confirm_bars"] \in Int /\ Periods(p["confirm_bars"]) \in Nat \ {0}
    BY <1>2, <1>13, <2>2 DEF PERIODS, MARGINS
  <2>7. Periods(p.tenkan) <= Periods(p.kijun) /\ Periods(p.kijun) <= Periods(p.senkou_b)
    <3>1. ~(p.tenkan >= p.kijun) /\ ~(p.kijun > p.senkou_b)
      BY <1>13 DEF paramRuleError
    <3> QED
      BY <2>3, <2>4, <2>5, <2>6, <3>1, LongerIs
  <2>8. Explained("ichimoku", b, p) /\ ~ichimokuExit(b, p)
    BY <2>1, <2>3, <2>4, <2>5, <2>6, <2>7, IchimokuExplained
  <2> QED
    BY <1>13, <2>8 DEF EXIT_SIGNAL
<1>14. CASE t = "bb_breakout"
  <2>1. bbBreakoutEntry(b, p)
    BY <1>14 DEF ENTRY
  <2>2. Read[t] = {"period", "regime_period", "k", "exit_k"}
    BY <1>14 DEF Read
  <2>3. p["period"] \in Int /\ Periods(p["period"]) \in Nat \ {0}
    BY <1>2, <1>14, <2>2 DEF PERIODS, MARGINS
  <2>4. Periods(p["regime_period"]) \in Int
    BY <1>2, <1>14, <2>2 DEF PERIODS, MARGINS
  <2>5. p["k"] \in Int
    BY <1>2, <1>14, <2>2 DEF PERIODS, MARGINS
  <2>6. p["exit_k"] \in Int
    BY <1>2, <1>14, <2>2 DEF PERIODS, MARGINS
  <2>7. p.exit_k < p.k
    <3>1. ~(p.exit_k >= p.k)
      BY <1>14 DEF paramRuleError
    <3> QED
      BY <2>3, <2>4, <2>5, <2>6, <3>1
  <2>8. Explained("bb_breakout", b, p) /\ ~bbBreakoutExit(b, p)
    BY <2>1, <2>3, <2>4, <2>5, <2>6, <2>7, BandExplained
  <2> QED
    BY <1>14, <2>8 DEF EXIT_SIGNAL
<1>15. CASE t = "bb_reversion"
  <2>1. bbReversionEntry(b, p)
    BY <1>15 DEF ENTRY
  <2>2. Read[t] = {"period", "regime_period", "k"}
    BY <1>15 DEF Read
  <2>3. p["period"] \in Int /\ Periods(p["period"]) \in Nat \ {0}
    BY <1>2, <1>15, <2>2 DEF PERIODS, MARGINS
  <2>4. p["regime_period"] \in Int /\ Periods(p["regime_period"]) \in Nat \ {0}
    BY <1>2, <1>15, <2>2 DEF PERIODS, MARGINS
  <2>5. p["k"] \in Nat
    BY <1>2, <1>15, <2>2 DEF PERIODS, MARGINS
  <2>6. Explained("bb_reversion", b, p)
    BY <2>1, <2>3, <2>4, <2>5, ReversionExplained
  <2> QED
    BY <1>15, <2>6 DEF EXIT_SIGNAL
<1>16. CASE t = "supertrend"
  <2>1. supertrendEntry(b, p)
    BY <1>16 DEF ENTRY
  <2>2. Read[t] = {"atr_period", "regime_period", "mult"}
    BY <1>16 DEF Read
  <2>3. p["atr_period"] \in Int /\ Periods(p["atr_period"]) \in Nat \ {0}
    BY <1>2, <1>16, <2>2 DEF PERIODS, MARGINS
  <2>4. p["regime_period"] \in Int /\ Periods(p["regime_period"]) \in Nat \ {0}
    BY <1>2, <1>16, <2>2 DEF PERIODS, MARGINS
  <2>5. p["mult"] \in Int
    BY <1>2, <1>16, <2>2 DEF PERIODS, MARGINS
  <2>6. Explained("supertrend", b, p)
    BY <2>1, <2>3, <2>4, <2>5, SupertrendExplained
  <2> QED
    BY <1>16, <2>6 DEF EXIT_SIGNAL
<1>17. CASE t = "macd_trend"
  <2>1. macdTrendEntry(b, p)
    BY <1>17 DEF ENTRY
  <2>2. Read[t] = {"fast", "slow", "signal", "confirm_bars", "regime_period"}
    BY <1>17 DEF Read
  <2>3. p["fast"] \in Int /\ Periods(p["fast"]) \in Nat \ {0}
    BY <1>2, <1>17, <2>2 DEF PERIODS, MARGINS
  <2>4. p["slow"] \in Int /\ Periods(p["slow"]) \in Nat \ {0}
    BY <1>2, <1>17, <2>2 DEF PERIODS, MARGINS
  <2>5. p["signal"] \in Int /\ Periods(p["signal"]) \in Nat \ {0}
    BY <1>2, <1>17, <2>2 DEF PERIODS, MARGINS
  <2>6. p["confirm_bars"] \in Int /\ Periods(p["confirm_bars"]) \in Nat \ {0}
    BY <1>2, <1>17, <2>2 DEF PERIODS, MARGINS
  <2>7. p["regime_period"] \in Int /\ Periods(p["regime_period"]) \in Nat \ {0}
    BY <1>2, <1>17, <2>2 DEF PERIODS, MARGINS
  <2>8. Explained("macd_trend", b, p)
    BY <2>1, <2>3, <2>4, <2>5, <2>6, <2>7, MacdExplained
  <2> QED
    BY <1>17, <2>8 DEF EXIT_SIGNAL
<1> QED
  BY <1>1, <1>3, <1>4, <1>5, <1>6, <1>7, <1>8, <1>9, <1>10, <1>11, <1>12, <1>13, <1>14, <1>15, <1>16, <1>17 DEF BUILTIN_TEMPLATES, ACTIVE_TEMPLATES, RETIRED_TEMPLATES

\* A block that holds has the bars its series need.
LEMMA SeriesHasBars ==
  ASSUME NEW b, BarsOK(b), NEW r, BlockOK(r), evalRule(r, b), NEW j \in DOMAIN SeriesOf(r)
  PROVE  Len(b) >= SeriesOf(r)[j].bars
<1>1. Len(b) \in Nat
  BY ListsOf
<1>2. \A name, f : Series(name, f).bars = Periods(f)
  BY DEF Series
<1>3. CASE r.kind = "trend"
  <2>1. SeriesOf(r) = <<Series(<<"sma", r.f.period>>, r.f.period)>>
    BY <1>3 DEF SeriesOf
  <2>2. Len(b) >= Periods(r.f.period)
    BY <1>3 DEF evalRule, trendRule
  <2>3. j = 1
    BY <2>1
  <2> QED
    BY <1>2, <2>1, <2>2, <2>3
<1>4. CASE r.kind = "sma_cross"
  <2> DEFINE x == Periods(r.f.fast)
             y == Periods(r.f.slow)
  <2>1. SeriesOf(r) = <<Series(<<"sma", r.f.fast>>, r.f.fast), Series(<<"sma", r.f.slow>>, r.f.slow)>>
    BY <1>4 DEF SeriesOf
  <2>2. x \in Nat \ {0} /\ y \in Nat \ {0}
    BY <1>4, BlockFields, PeriodIs
  <2>3. PICK i \in 0 .. (Periods(r.f.within) - 1) : CrossedUp(b, Len(b) - i, x, y)
    BY <1>4 DEF evalRule, smaCrossRule
  <2>4. Len(b) - i - 1 >= Max({x, y})
    BY <2>3 DEF CrossedUp
  <2> HIDE DEF x, y
  <2>5. Max({x, y}) = IF x >= y THEN x ELSE y
    BY <2>2, Larger2
  <2>6. Len(b) >= x /\ Len(b) >= y
    <3>1. i \in Nat
      BY <2>3
    <3> QED
      BY <1>1, <2>2, <2>4, <2>5, <3>1
  <2>7. j \in {1, 2}
    BY <2>1
  <2>8. SeriesOf(r)[1].bars = x /\ SeriesOf(r)[2].bars = y
    BY <1>2, <2>1 DEF x, y
  <2> QED
    BY <2>6, <2>7, <2>8
<1>5. CASE r.kind = "breakout"
  <2>1. SeriesOf(r) = <<Series(<<"high", r.f.lookback>>, r.f.lookback + 1000)>>
    BY <1>5 DEF SeriesOf
  <2>2. Len(b) > Periods(r.f.lookback)
    BY <1>5 DEF evalRule, breakoutRule
  <2>3. Periods(r.f.lookback + 1000) = Periods(r.f.lookback) + 1 /\ Periods(r.f.lookback) \in Int
    <3>1. r.f.lookback \in Int
      BY <1>5, BlockFields
    <3> QED
      BY <3>1 DEF Periods
  <2>4. SeriesOf(r)[1].bars = Periods(r.f.lookback + 1000) /\ j = 1
    BY <1>2, <2>1
  <2> QED
    BY <1>1, <2>2, <2>3, <2>4
<1>6. CASE r.kind = "bollinger"
  <2>1. SeriesOf(r) = <<Series(<<"upper", r.f.k>>, r.f.period), Series(<<"lower", r.f.k>>, r.f.period)>>
    BY <1>6 DEF SeriesOf
  <2>2. Len(b) >= Periods(r.f.period)
    BY <1>6 DEF evalRule, bollingerRule
  <2>3. j \in {1, 2} /\ SeriesOf(r)[1].bars = Periods(r.f.period) /\ SeriesOf(r)[2].bars = Periods(r.f.period)
    BY <1>2, <2>1
  <2> QED
    BY <2>2, <2>3
<1>7. CASE r.kind \notin {"trend", "sma_cross", "breakout", "bollinger"}
  <2>1. SeriesOf(r) = <<>>
    BY <1>7 DEF SeriesOf
  <2> QED
    BY <2>1
<1> QED
  BY <1>3, <1>4, <1>5, <1>6, <1>7

\* What a user's own strategy enters, every series of its chart has the bars for.
LEMMA CustomExplained ==
  ASSUME NEW def, DefOK(def), NEW b, BarsOK(b), customEntryAt(def, b), NEW s \in customOverlays(def)
  PROVE  Len(b) >= s.bars
<1>1. PICK p \in SeriesPlaces(def) : s = SeriesAt(def, p)
  BY DEF customOverlays
<1>2. PICK k \in DOMAIN def.rules : p \in {k} \X DOMAIN SeriesOf(def.rules[k])
  BY <1>1 DEF SeriesPlaces
<1>3. p[1] = k /\ p[2] \in DOMAIN SeriesOf(def.rules[k])
  BY <1>2
<1>4. s = SeriesOf(def.rules[k])[p[2]]
  BY <1>1, <1>3 DEF SeriesAt
<1>5. evalRule(def.rules[k], b) /\ BlockOK(def.rules[k])
  BY <1>2 DEF customEntryAt, DefOK
<1> QED
  BY <1>3, <1>4, <1>5, SeriesHasBars

\* What the replay knows of its template and of its candles.
SimInputs ==
  /\ tpl \in SimTemplates /\ tuning \in SimParams[tpl] /\ ~paramRuleError(tpl, tuning)
  /\ bars \in Seq(Candles[tpl]) /\ bars # <<>>

\* They are candles and definitions the evaluators are proved about.
LEMMA InputsOK ==
  ASSUME SimInputs
  PROVE  BarsOK(bars) /\ (tpl = "custom" => DefOK(tuning))
<1>1. BarsOK(bars)
  <2>1. \A i \in 1 .. Len(bars) : bars[i] \in Candles[tpl]
    BY DEF SimInputs
  <2>2. \A c \in Candles[tpl] : CandleOK(c)
    BY SimulatorAssumption DEF SimInputs, CandleOK
  <2>3. bars \in Seq({bars[i] : i \in DOMAIN bars})
    <3>1. bars \in [1 .. Len(bars) -> Candles[tpl]] /\ Len(bars) \in Nat
      BY DEF SimInputs
    <3>2. \A i \in 1 .. Len(bars) : bars[i] \in {bars[j] : j \in DOMAIN bars}
      BY <3>1
    <3> QED
      BY <3>1, <3>2
  <2> QED
    BY <2>1, <2>2, <2>3 DEF BarsOK
<1>2. ASSUME tpl = "custom" PROVE DefOK(tuning)
  <2>1. /\ tuning.rules \in Seq(Range(tuning.rules)) /\ tuning.exits.atr \in Int
        /\ \A k \in DOMAIN tuning.rules : BlockOK(tuning.rules[k])
    BY <1>2, SimulatorAssumption DEF SimInputs
  <2>2. DOMAIN tuning.rules = 1 .. Len(tuning.rules) /\ Len(tuning.rules) \in Nat
    BY <2>1
  <2> QED
    BY <2>1, <2>2 DEF DefOK
<1> QED
  BY <1>1, <1>2

\* For every template: what it enters on is drawn, and it does not leave on the same close.
LEMMA InputsExplain == ASSUME SimInputs PROVE OverlayExplains /\ EntryExcludesExit
<1>1. BarsOK(bars) /\ (tpl = "custom" => DefOK(tuning))
  BY InputsOK
<1>2. ASSUME tpl = "custom", canEnter(bars) PROVE OverlayExplains /\ EntryExcludesExit
  <2>1. customEntryAt(tuning, bars)
    BY <1>2 DEF canEnter
  <2>2. \A s \in customOverlays(tuning) : Len(bars) >= s.bars
    BY <1>1, <1>2, <2>1, CustomExplained
  <2> QED
    BY <1>2, <2>2 DEF OverlayExplains, EntryExcludesExit, canExitSignal
<1>3. ASSUME tpl # "custom", canEnter(bars) PROVE OverlayExplains /\ EntryExcludesExit
  <2>1. ENTRY(tpl, bars, tuning)
    BY <1>3 DEF canEnter
  <2>2. Explained(tpl, bars, tuning) /\ ~EXIT_SIGNAL(tpl, bars, tuning)
    BY <1>1, <1>3, <2>1, EntryExplained DEF SimInputs
  <2> QED
    BY <1>3, <2>2 DEF OverlayExplains, EntryExcludesExit, canExitSignal, Explained
<1> QED
  BY <1>2, <1>3 DEF OverlayExplains, EntryExcludesExit

\* The builder's evaluator and the bot's agree on the history replayed.
LEMMA InputsInStep == ASSUME SimInputs PROVE LockStep
<1>1. BarsOK(bars) /\ (tpl = "custom" => DefOK(tuning))
  BY InputsOK
<1> QED
  BY <1>1, EvaluatorsAgree DEF LockStep

-----------------------------------------------------------------------------
(* What the replay reports: its folds and its recurring buys *)

\* Division by a number keeps the order, and undoes multiplication.
LEMMA QuotientIs ==
  ASSUME NEW k \in Nat \ {0}, NEW x \in Nat, NEW y \in Nat, x <= y
  PROVE  /\ x \div k \in Nat /\ y \div k \in Nat /\ x \div k <= y \div k
<1>1. /\ x \div k \in Nat /\ x % k \in Nat /\ x % k < k /\ x = k * (x \div k) + (x % k)
      /\ y \div k \in Nat /\ y % k \in Nat /\ y % k < k /\ y = k * (y \div k) + (y % k)
  BY Remainder
<1> DEFINE q == x \div k
           r == y \div k
<1>2. PICK u \in Nat, v \in Nat : u < k /\ v < k /\ x = k * q + u /\ y = k * r + v /\ q \in Nat /\ r \in Nat
  BY <1>1
<1> HIDE DEF q, r
<1>3. ASSUME q >= r + 1 PROVE FALSE
  <2>1. k * q = k * (r + 1) + k * (q - r - 1) /\ k * (q - r - 1) \in Nat
    BY <1>2, <1>3
  <2>2. k * (r + 1) = k * r + k
    BY <1>2
  <2> DEFINE a == k * q
             c == k * (r + 1)
             d == k * r
             f == k * (q - r - 1)
  <2>3. a = c + f /\ f \in Nat /\ c = d + k /\ x = a + u /\ y = d + v /\ d \in Nat
    BY <1>2, <2>1, <2>2
  <2> HIDE DEF a, c, d, f
  <2> QED
    BY <1>2, <2>3
<1>4. q <= r
  BY <1>2, <1>3
<1> QED
  BY <1>2, <1>4 DEF q, r

\* Equal windows: every number up to n is in one of the k, and in no other.
WindowStart(n, k, f) == (f * n) \div k

\* Each place lies in exactly one window.
LEMMA WindowOf ==
  ASSUME NEW n \in Nat, NEW k \in Nat \ {0}, NEW e \in 1 .. n
  PROVE  \E f \in 0 .. k - 1 :
           \A g \in 0 .. k - 1 : e > WindowStart(n, k, g) /\ e <= WindowStart(n, k, g + 1) <=> g = f
<1>1. \A f \in 0 .. k : f * n \in Nat /\ WindowStart(n, k, f) \in Nat
  BY QuotientIs DEF WindowStart
<1>2. ASSUME NEW f \in 0 .. k, NEW g \in 0 .. k, f <= g PROVE WindowStart(n, k, f) <= WindowStart(n, k, g)
  <2>1. f * n <= g * n /\ f * n \in Nat /\ g * n \in Nat
    <3>1. g * n = f * n + (g - f) * n /\ (g - f) * n \in Nat
      BY <1>2
    <3> QED
      BY <1>1, <3>1
  <2> DEFINE x == f * n
             y == g * n
  <2>2. x \in Nat /\ y \in Nat /\ x <= y
    BY <2>1
  <2> HIDE DEF x, y
  <2>3. x \div k <= y \div k
    BY <2>2, QuotientIs
  <2> QED
    BY <2>3 DEF x, y, WindowStart
<1>3. WindowStart(n, k, 0) = 0 /\ WindowStart(n, k, k) = n
  <2>1. 0 \div k = 0
    <3>1. (k * 0) \div k = 0
      BY Cancels
    <3> QED
      BY <3>1
  <2>2. (k * n) \div k = n
    BY Cancels
  <2> QED
    BY <2>1, <2>2 DEF WindowStart
<1> DEFINE T == {m \in Nat : m \in 0 .. k /\ e <= WindowStart(n, k, m)}
<1>4. PICK m \in T : \A j \in T : m <= j
  <2>1. k \in T /\ T \subseteq Nat
    BY <1>3
  <2> HIDE DEF T
  <2> QED
    BY <2>1, MinimalNat
<1>5. m # 0
  BY <1>3, <1>4
<1> DEFINE f == m - 1
<1>6. f \in 0 .. k - 1 /\ f \notin T /\ f \in Nat /\ f + 1 = m
  BY <1>4, <1>5
<1>7. e > WindowStart(n, k, f) /\ e <= WindowStart(n, k, f + 1)
  <2>1. f \in 0 .. k /\ ~(e <= WindowStart(n, k, f))
    BY <1>6
  <2>2. WindowStart(n, k, f) \in Nat
    BY <1>1, <2>1
  <2> QED
    BY <1>4, <1>6, <2>1, <2>2
<1>8. ASSUME NEW g \in 0 .. k - 1, e > WindowStart(n, k, g), e <= WindowStart(n, k, g + 1) PROVE g = f
  <2>0. g \in 0 .. k /\ g + 1 \in 0 .. k /\ f \in 0 .. k /\ f + 1 \in 0 .. k
    BY <1>6
  <2> HIDE DEF f, T
  <2>1. ASSUME g < f PROVE FALSE
    <3>1. WindowStart(n, k, g + 1) <= WindowStart(n, k, f)
      BY <1>2, <2>0, <2>1
    <3> QED
      BY <1>1, <1>7, <1>8, <2>0, <3>1
  <2>2. ASSUME f < g PROVE FALSE
    <3>1. WindowStart(n, k, f + 1) <= WindowStart(n, k, g)
      BY <1>2, <2>0, <2>2
    <3> QED
      BY <1>1, <1>7, <1>8, <2>0, <3>1
  <2> QED
    BY <2>0, <2>1, <2>2
<1> QED
  BY <1>6, <1>7, <1>8

\* The trades of a replay lie among its bars.
TradesInside ==
  /\ DOMAIN trades = 1 .. Len(trades) /\ Len(trades) \in Nat
  /\ \A k \in DOMAIN trades : trades[k].entry \in 1 .. Len(bars) /\ trades[k].exit \in 1 .. Len(bars)

\* What a trade makes of one unit is a fraction.
LEMMA GrowthIn ==
  ASSUME SimInputs, TradesInside, NEW k \in DOMAIN trades
  PROVE  Plus(Whole1(1), netOf(trades[k])) \in Fracs
<1> DEFINE x == bars[trades[k].exit].c
           y == bars[trades[k].entry].c
           o == Whole1(1)
<1>1. x \in Int /\ y \in Nat \ {0}
  <2>1. CandleOK(bars[trades[k].exit]) /\ CandleOK(bars[trades[k].entry])
    BY InputsOK DEF TradesInside, BarsOK
  <2> QED
    BY <2>1 DEF CandleOK
<1>2. \A v \in Fracs : v \in Int \X (Nat \ {0})
  BY DEF Fracs
<1>3. o \in Fracs
  BY WholeIn
<1>4. Frac(x, y) \in Fracs
  BY <1>1, FracIn
<1> HIDE DEF o
<1>5. Friction \in Int \X (Nat \ {0})
  BY SimulatorAssumption DEF IsShare
<1>6. Plus(o, Friction) \in Fracs
  BY <1>2, <1>3, <1>5, ArithmeticIn
<1>7. Minus(Frac(x, y), Plus(o, Friction)) \in Fracs
  BY <1>2, <1>4, <1>6, ArithmeticIn
<1>8. netOf(trades[k]) = Minus(Frac(x, y), Plus(o, Friction))
  BY DEF netOf, o
<1>9. Plus(o, netOf(trades[k])) \in Fracs
  BY <1>2, <1>3, <1>7, <1>8, ArithmeticIn
<1> QED
  BY <1>9 DEF o

\* Every trade is in one fold, and the folds compound to the total.
LEMMA FoldsPart == ASSUME SimInputs, TradesInside PROVE FoldsPartition
<1> DEFINE n == Len(bars)
           k == foldCount(n)
           S == DOMAIN trades
           ks == 0 .. k - 1
           In(i, f) == trades[i].entry > WindowStart(n, k, f) /\ trades[i].entry <= WindowStart(n, k, f + 1)
           h == [i \in S |-> CHOOSE f \in ks : \A g \in ks : In(i, g) <=> g = f]
           F == [i \in S |-> Plus(Whole1(1), netOf(trades[i]))]
<1>1. n \in Nat \ {0}
  BY DEF SimInputs
<1>2. k \in Nat \ {0}
  <2> DEFINE one == 1
             y == Max({one, n \div 2})
             z == Min({Folds, y})
  <2>1. one \in Int /\ n \div 2 \in Int /\ Folds \in Int
    BY <1>1, SimulatorAssumption
  <2>2. y \in Int
    <3> HIDE DEF one
    <3> QED
      BY <2>1, Larger2
  <2> HIDE DEF y
  <2>3. z \in Int
    BY <2>1, <2>2, Larger2
  <2> HIDE DEF z
  <2>4. Max({one, z}) = IF one >= z THEN one ELSE z
    <3> HIDE DEF one
    <3> QED
      BY <2>1, <2>3, Larger2
  <2>5. k = Max({one, z})
    BY DEF foldCount, z, y
  <2> HIDE DEF k
  <2> QED
    BY <2>3, <2>4, <2>5
<1>3. IsFiniteSet(S) /\ IsFiniteSet(ks) /\ Cardinality(S) = Len(trades)
  <2>1. S = 1 .. Len(trades) /\ Len(trades) \in Nat /\ 0 \in Int /\ 1 \in Int /\ k - 1 \in Int
    BY <1>2 DEF TradesInside
  <2> DEFINE m == Len(trades)
             t == k - 1
             one == 1
             zero == 0
  <2>2. m \in Nat /\ t \in Int /\ one \in Int /\ zero \in Int
    BY <2>1
  <2> HIDE DEF m, t, one, zero
  <2>3. IsFiniteSet(one .. m) /\ Cardinality(one .. m) = IF one > m THEN 0 ELSE m - one + 1
    BY <2>2, FS_Interval
  <2>4. IsFiniteSet(zero .. t)
    BY <2>2, FS_Interval
  <2>5. S = one .. m /\ ks = zero .. t
    BY <2>1 DEF one, m, zero, t
  <2>6. (IF one > m THEN 0 ELSE m - one + 1) = m
    BY <2>2 DEF one
  <2> HIDE DEF S, ks
  <2> QED
    BY <2>3, <2>4, <2>5, <2>6 DEF m
<1>4. ASSUME NEW i \in S
      PROVE  /\ h[i] \in ks
             /\ \A f \in ks : In(i, f) <=> h[i] = f
  <2>1. trades[i].entry \in 1 .. n
    BY DEF TradesInside
  <2>2. \E f \in ks : \A g \in ks : In(i, g) <=> g = f
    <3> HIDE DEF n, k
    <3> QED
      BY <1>1, <1>2, <2>1, WindowOf
  <2> HIDE DEF In, ks
  <2>3. h[i] = CHOOSE f \in ks : \A g \in ks : In(i, g) <=> g = f
    OBVIOUS
  <2> QED
    BY <2>2, <2>3
<1>5. ASSUME NEW f \in ks PROVE FoldTrades(f) = {i \in S : h[i] = f}
  <2>1. FoldTrades(f) = {i \in S : In(i, f)}
    BY DEF FoldTrades, WindowStart
  <2> HIDE DEF In, h, S, ks
  <2> QED
    BY <1>4, <2>1
<1>6. FoldIds = ks
  BY DEF FoldIds
<1> HIDE DEF In, h, S, ks, n, k
<1>7. SumOver([f \in FoldIds |-> Cardinality(FoldTrades(f))], FoldIds) = Len(trades)
  <2>1. Cardinality(S) = SumOver([f \in ks |-> Cardinality({i \in S : h[i] = f})], ks)
    BY <1>3, <1>4, CountFibres
  <2>2. [f \in ks |-> Cardinality({i \in S : h[i] = f})] = [f \in ks |-> Cardinality(FoldTrades(f))]
    BY <1>5
  <2> QED
    BY <1>3, <1>6, <2>1, <2>2
<1>8. \A i \in S : F[i] \in Fracs
  BY GrowthIn DEF S
<1>9. \A X \in SUBSET S : Growth(X) = ProductOfFractions(F, X)
  <2>1. ASSUME NEW X \in SUBSET S PROVE Growth(X) = ProductOfFractions(F, X)
    <3> DEFINE g == [i \in X |-> Plus(Whole1(1), netOf(trades[i]))]
    <3>1. Growth(X) = ProductOfFractions(g, X)
      BY DEF Growth
    <3>2. \A i \in X : g[i] = F[i]
      OBVIOUS
    <3>3. IsFiniteSet(X)
      BY <1>3, FS_Subset
    <3> HIDE DEF g, F
    <3> QED
      BY <3>1, <3>2, <3>3, ProductSame
  <2> QED
    BY <2>1
<1> HIDE DEF F
<1>10. ProductOfFractions([f \in FoldIds |-> foldNet(f)], FoldIds) = Growth(DOMAIN trades)
  <2>1. ProductOfFractions(F, S) =
          ProductOfFractions([f \in ks |-> ProductOfFractions(F, {i \in S : h[i] = f})], ks)
    BY <1>3, <1>4, <1>8, ProductFibres
  <2>2. \A f \in ks : foldNet(f) = ProductOfFractions(F, {i \in S : h[i] = f})
    BY <1>5, <1>9 DEF foldNet
  <2>3. [f \in ks |-> ProductOfFractions(F, {i \in S : h[i] = f})] = [f \in ks |-> foldNet(f)]
    BY <2>2
  <2>4. Growth(S) = ProductOfFractions(F, S)
    BY <1>9
  <2> QED
    BY <1>6, <2>1, <2>3, <2>4 DEF S
<1> QED
  BY <1>7, <1>10 DEF FoldsPartition

\* The average cost of recurring buys lies among the prices paid.
LEMMA CostAmong == ASSUME SimInputs PROVE AvgCostIsAPrice
<1>1. BarsOK(bars) /\ Len(bars) \in Nat \ {0}
  BY InputsOK DEF SimInputs
<1>2. \A i \in 1 .. Len(bars) : bars[i].c \in Nat \ {0}
  BY <1>1, ListsOf
<1>3. PICK a \in Nat \ {0}, g \in Nat \ {0} : BuyKeep = <<a, g>>
  BY SimulatorAssumption DEF IsShare
<1>4. Ratio(BuyKeep, a, g) /\ BuyKeep \in Int \X (Nat \ {0})
  <2>1. BuyKeep \in Int \X (Nat \ {0}) /\ BuyKeep[1] = a /\ BuyKeep[2] = g
    BY <1>3
  <2> QED
    BY <2>1, SelfRatio
<1> SUFFICES ASSUME NEW step \in 1 .. 3
             PROVE  LET kept == Times(avgCost(step), BuyKeep)
                        paid == {bars[i].c : i \in Buys(step)}
                    IN AtMost(Whole1(Min(paid)), kept) /\ AtMost(kept, Whole1(Max(paid)))
  BY DEF AvgCostIsAPrice
<1> DEFINE B == Buys(step)
           paid == {bars[i].c : i \in B}
           f == [i \in B |-> Times(BuyKeep, Frac(1, bars[i].c))]
           u == Units(step)
           n == Cardinality(B)
           lo == Min(paid)
           hi == Max(paid)
           one == 1
<1>5. B \subseteq 1 .. Len(bars) /\ IsFiniteSet(B) /\ 1 \in B
  <2>1. B \subseteq 1 .. Len(bars)
    BY DEF Buys
  <2>2. IsFiniteSet(1 .. Len(bars))
    <3> DEFINE v == Len(bars)
               w == 1
    <3>1. v \in Int /\ w \in Int
      BY <1>1
    <3> HIDE DEF v, w
    <3>2. IsFiniteSet(w .. v)
      BY <3>1, FS_Interval
    <3> QED
      BY <3>2 DEF v, w
  <2>3. 1 \in B
    BY <1>1 DEF Buys
  <2> HIDE DEF B
  <2> QED
    BY <2>1, <2>2, <2>3, FS_Subset
<1>6. IsFiniteSet(paid) /\ paid \subseteq Nat \ {0} /\ paid # {}
  <2> DEFINE m == [i \in B |-> bars[i].c]
  <2>1. m \in Surjection(B, paid)
    BY DEF Surjection
  <2>2. IsFiniteSet(paid)
    BY <1>5, <2>1, FS_Surjection
  <2>3. paid \subseteq Nat \ {0} /\ paid # {}
    BY <1>2, <1>5
  <2> QED
    BY <2>2, <2>3
<1>7. lo \in Nat \ {0} /\ hi \in Nat \ {0} /\ \A i \in B : lo <= bars[i].c /\ bars[i].c <= hi
  <2>1. paid \subseteq Int
    BY <1>6
  <2> HIDE DEF paid
  <2>2. /\ Max(paid) \in paid /\ (\A x \in paid : x <= Max(paid))
        /\ Min(paid) \in paid /\ (\A x \in paid : Min(paid) <= x)
    BY <1>6, <2>1, Extremes
  <2>3. lo \in Nat \ {0} /\ hi \in Nat \ {0}
    BY <1>6, <2>2
  <2>4. \A i \in B : bars[i].c \in paid
    BY DEF paid
  <2> QED
    BY <2>2, <2>3, <2>4
<1>8. n \in Nat \ {0}
  <2>1. n \in Nat
    BY <1>5, FS_CardinalityType
  <2>2. n # 0
    BY <1>5, FS_EmptySet
  <2> QED
    BY <2>1, <2>2
<1> HIDE DEF B, paid, lo, hi, n
<1>9. \A i \in B : bars[i].c \in Nat \ {0}
  BY <1>2, <1>5
<1>10. ASSUME NEW i \in B
       PROVE  /\ f[i] \in Int \X (Nat \ {0})
              /\ f[i][1] * (g * bars[i].c) = a * f[i][2]
  <2> DEFINE c == bars[i].c
             x == Frac(one, c)
  <2>1. c \in Nat \ {0} /\ one \in Int
    BY <1>9
  <2> HIDE DEF c, one
  <2>2. Ratio(x, one, c) /\ x \in Fracs
    BY <2>1, FracRatio, FracIn
  <2>3. x \in Int \X (Nat \ {0})
    BY <2>2 DEF Fracs
  <2> HIDE DEF x
  <2>4. Ratio(Times(BuyKeep, x), a * one, g * c) /\ Times(BuyKeep, x) \in Fracs
    BY <1>4, <2>2, <2>3, TimesRatio, ArithmeticIn
  <2>5. f[i] = Times(BuyKeep, x)
    BY DEF x, one, c
  <2> HIDE DEF f
  <2>6. f[i] \in Int \X (Nat \ {0})
    BY <2>4, <2>5 DEF Fracs
  <2>7. f[i][1] * (g * c) = (a * one) * f[i][2]
    BY <2>4, <2>5 DEF Ratio
  <2>8. a * one = a
    BY <1>3 DEF one
  <2> QED
    BY <2>6, <2>7, <2>8 DEF c
<1>11. u = SumOfFractions(f, B)
  BY DEF Units, B
<1> HIDE DEF f, u
\* Each buy gives at least what one at the highest price would, at most what one at the lowest.
<1>12. ASSUME NEW i \in B
       PROVE  a * f[i][2] <= f[i][1] * (g * hi) /\ f[i][1] * (g * lo) <= a * f[i][2]
  <2> DEFINE x == f[i][1]
             y == f[i][2]
             c == bars[i].c
  <2>1. x \in Int /\ y \in Nat \ {0} /\ c \in Nat \ {0} /\ x * (g * c) = a * y /\ lo <= c /\ c <= hi
    BY <1>7, <1>9, <1>10
  <2> HIDE DEF x, y, c
  <2>2. x > 0
    <3>1. a * y = a + a * (y - 1) /\ a * (y - 1) \in Nat
      BY <2>1
    <3>2. x * (g * c) > 0
      BY <2>1, <3>1
    <3>3. g * c \in Nat
      BY <2>1
    <3> DEFINE w == g * c
    <3>4. ASSUME x <= 0 PROVE x * w <= 0
      <4> HIDE DEF w
      <4>1. (-x) * w \in Nat /\ x * w = -((-x) * w)
        BY <2>1, <3>3, <3>4 DEF w
      <4> QED
        BY <4>1
    <3> QED
      BY <2>1, <3>2, <3>4
  <2>3. x * (g * hi) = x * (g * c) + x * (g * (hi - c)) /\ x * (g * (hi - c)) \in Nat
    <3>1. g * (hi - c) \in Nat
      BY <1>7, <2>1
    <3>2. g * hi = g * c + g * (hi - c)
      BY <1>7, <2>1
    <3> DEFINE d == g * (hi - c)
               e == g * c
    <3>3. e \in Nat /\ d \in Nat /\ x \in Nat
      BY <2>1, <2>2, <3>1
    <3> HIDE DEF d, e
    <3>4. x * (e + d) = x * e + x * d /\ x * d \in Nat
      BY <3>3
    <3> QED
      BY <3>2, <3>4 DEF d, e
  <2>4. x * (g * c) = x * (g * lo) + x * (g * (c - lo)) /\ x * (g * (c - lo)) \in Nat
    <3>1. g * (c - lo) \in Nat
      BY <1>7, <2>1
    <3>2. g * c = g * lo + g * (c - lo)
      BY <1>7, <2>1
    <3> DEFINE d == g * (c - lo)
               e == g * lo
    <3>3. e \in Nat /\ d \in Nat /\ x \in Nat
      BY <1>7, <2>1, <2>2, <3>1
    <3> HIDE DEF d, e
    <3>4. x * (e + d) = x * e + x * d /\ x * d \in Nat
      BY <3>3
    <3> QED
      BY <3>2, <3>4 DEF d, e
  <2> DEFINE s == x * (g * c)
             r == x * (g * lo)
             t == x * (g * hi)
             d1 == x * (g * (hi - c))
             d2 == x * (g * (c - lo))
  <2>5. s = a * y /\ t = s + d1 /\ s = r + d2 /\ d1 \in Nat /\ d2 \in Nat /\ s \in Int /\ r \in Int
    BY <1>7, <2>1, <2>3, <2>4
  <2>6. a * y <= t /\ r <= a * y
    <3> HIDE DEF s, r, t, d1, d2
    <3> QED
      BY <2>5
  <2> QED
    BY <2>6 DEF x, y
<1>13. /\ u \in Int \X (Nat \ {0})
       /\ n * a * u[2] <= u[1] * (g * hi)
       /\ u[1] * (g * lo) <= n * a * u[2]
  <2> DEFINE p == g * hi
             q == g * lo
  <2>1. p \in Nat \ {0} /\ q \in Nat \ {0} /\ a \in Int
    <3>1. g * hi = g + g * (hi - 1) /\ g * (hi - 1) \in Nat /\ g * lo = g + g * (lo - 1) /\ g * (lo - 1) \in Nat
      BY <1>7
    <3> QED
      BY <3>1
  <2>2. (\A i \in B : f[i] \in Int \X (Nat \ {0})) /\ \A i \in B : a * f[i][2] <= f[i][1] * p /\ f[i][1] * q <= a * f[i][2]
    BY <1>10, <1>12
  <2> HIDE DEF p, q
  <2>3. u \in Int \X (Nat \ {0}) /\ Cardinality(B) * a * u[2] <= u[1] * p
    BY <1>5, <1>11, <2>1, <2>2, FractionsBound
  <2>4. u[1] * q <= Cardinality(B) * a * u[2]
    BY <1>5, <1>11, <2>1, <2>2, FractionsBound
  <2> QED
    BY <2>3, <2>4 DEF p, q, n
<1>14. PICK x \in Int, y \in Nat \ {0} : u[1] = x /\ u[2] = y
  BY <1>13
<1>15. n * a * y <= x * (g * hi) /\ x * (g * lo) <= n * a * y
  BY <1>13, <1>14
<1>16. n * a * y \in Nat \ {0} /\ n * y * a = n * a * y
  <2>1. \A p, q \in Nat \ {0} : p * q \in Nat \ {0}
    <3>1. \A p, q \in Nat \ {0} : p * q = p + p * (q - 1) /\ p * (q - 1) \in Nat
      OBVIOUS
    <3> QED
      BY <3>1
  <2> QED
    BY <1>3, <1>8, <1>14, <2>1
<1>17. x \in Nat \ {0}
  <2> DEFINE w == g * hi
  <2>1. x * w > 0 /\ w \in Nat
    BY <1>7, <1>15, <1>16
  <2>2. ASSUME x <= 0 PROVE x * w <= 0
    <3> HIDE DEF w
    <3>1. (-x) * w \in Nat /\ x * w = -((-x) * w)
      BY <2>1, <2>2
    <3> QED
      BY <3>1
  <2> QED
    BY <2>1, <2>2
<1> DEFINE kept == Times(Times(Whole1(n), <<y, x>>), BuyKeep)
           N == n * a * y
           G == x * g
<1>18. avgCost(step) = Times(Whole1(n), <<y, x>>)
  BY <1>14 DEF avgCost, Invested, n, B, u
<1>19. Ratio(kept, n * y * a, one * x * g)
  <2>1. Ratio(<<y, x>>, y, x)
    BY <1>17 DEF Ratio
  <2>2. Ratio(Whole1(n), n, one)
    BY <1>8, WholeRatio
  <2> HIDE DEF one
  <2>3. Ratio(Times(Whole1(n), <<y, x>>), n * y, one * x)
    BY <2>1, <2>2, TimesRatio
  <2> QED
    BY <1>4, <2>3, TimesRatio
<1>20. one * x * g = G /\ n * y * a = N /\ G \in Nat \ {0}
  <2>1. x * g = x + x * (g - 1) /\ x * (g - 1) \in Nat
    BY <1>17
  <2> QED
    BY <1>16, <1>17, <2>1
<1>21. Ratio(Whole1(lo), lo, one) /\ Ratio(Whole1(hi), hi, one)
  BY <1>7, WholeRatio
<1>22. x * (g * hi) = hi * G /\ x * (g * lo) = lo * G
  BY <1>7, <1>17
<1>23. N <= hi * G /\ lo * G <= N
  BY <1>15, <1>22
<1>24. N \in Nat /\ hi * G \in Nat /\ lo * G \in Nat
  BY <1>7, <1>16, <1>20
<1> HIDE DEF N, G, kept
<1>25. Less(kept, Whole1(lo)) <=> N * one < lo * G
  <2> HIDE DEF one
  <2> QED
    BY <1>19, <1>20, <1>21, LessRatio
<1>26. Less(Whole1(hi), kept) <=> hi * G < N * one
  <2> HIDE DEF one
  <2> QED
    BY <1>19, <1>20, <1>21, LessRatio
<1>27. N * one = N
  BY <1>24
<1>28. AtMost(Whole1(lo), kept) /\ AtMost(kept, Whole1(hi))
  BY <1>23, <1>24, <1>25, <1>26, <1>27 DEF AtMost
<1>29. Times(avgCost(step), BuyKeep) = kept
  BY <1>18 DEF kept
<1> QED
  BY <1>28, <1>29 DEF lo, hi, paid, B

-----------------------------------------------------------------------------
(***************************************************************************)
(* The replay.  Whatever the rules of a template say of a candle, every    *)
(* bar counted as exposure belongs to the one position open then: a trade  *)
(* is over before the next begins, so the bars counted are the sum of the  *)
(* times they were held, and the hold is cut off at its limit because the  *)
(* bar before the limit was still inside it.                               *)
(***************************************************************************)

ClosedTrade == [entry : Nat, exit : Nat,
                reason : {"stop", "target", "trail", "time", "signal"}]

HeldOf(ts) == [k \in DOMAIN ts |-> ts[k].exit - ts[k].entry]

ReplayTypes ==
  /\ tpl \in SimTemplates /\ tuning \in SimParams[tpl]
  /\ bars \in Seq(Candles[tpl]) /\ Len(bars) \in 1 .. Length[tpl]
  /\ inPos \in BOOLEAN /\ entryIdx \in 0 .. Len(bars) /\ peak \in Nat
  /\ barsInPos \in 0 .. Len(bars) /\ trades \in Seq(ClosedTrade)
  /\ inPos => entryIdx >= 2

\* Trades begin after the first bar, one after the other, and all are over.
InOrder ==
  /\ \A k \in 1 .. Len(trades) :
       /\ 2 <= trades[k].entry /\ trades[k].entry < trades[k].exit
       /\ trades[k].exit <= Len(bars)
       /\ inPos => trades[k].exit < entryIdx
  /\ \A k \in 1 .. Len(trades) - 1 : trades[k].exit < trades[k + 1].entry

\* No trade outlives the longest hold, nor does the open one.
WithinHold ==
  exits.hold > 0 =>
    /\ \A k \in 1 .. Len(trades) : trades[k].exit - trades[k].entry <= exits.hold
    /\ inPos => Len(bars) - entryIdx < exits.hold

Exposed ==
  barsInPos = SumOver(HeldOf(trades), 1 .. Len(trades))
              + IF inPos THEN Len(bars) - entryIdx + 1 ELSE 0

ReplayInv == ReplayTypes /\ InOrder /\ WithinHold /\ Exposed

\* The bars and their number, one candle later.
LEMMA BarsGrow ==
  ASSUME ReplayTypes, NEW c \in Candles[tpl], Next1(c)
  PROVE  /\ UNCHANGED <<tpl, tuning>> /\ bars' \in Seq(Candles[tpl])
         /\ Len(bars) \in Nat /\ Len(bars') = Len(bars) + 1
         /\ Len(bars') \in 1 .. Length[tpl]
         /\ c.c \in Nat /\ exits.hold \in Nat /\ exits' = exits
<1>1. Length[tpl] \in Nat /\ c.c \in Nat
  BY SimulatorAssumption DEF ReplayTypes
<1>2. exits.hold \in Nat
  BY SimulatorAssumption DEF ReplayTypes, exits
<1> QED
  BY <1>1, <1>2 DEF ReplayTypes, Next1, exits

\* The reason of an exit is one of five.
LEMMA ReasonOfFive ==
  ASSUME NEW b, NEW e, NEW h, exitReason(b, e, h) # "none"
  PROVE  exitReason(b, e, h) \in {"stop", "target", "trail", "time", "signal"}
<1> DEFINE s == Stops(b, e)
           t == Targets(b, e)
           r == Trails(b, h)
           o == OutOfTime(b, e)
           x == canExitSignal(b)
<1>1. exitReason(b, e, h) = CASE s -> "stop" [] ~s /\ t -> "target" [] ~s /\ ~t /\ r -> "trail"
        [] OTHER -> IF o THEN "time" ELSE IF x THEN "signal" ELSE "none"
  BY DEF exitReason
<1> HIDE DEF s, t, r, o, x
<1> QED
  BY <1>1

\* A position that is kept is not out of time.
LEMMA KeptInTime ==
  ASSUME NEW b, NEW e, NEW h, exitReason(b, e, h) = "none"
  PROVE  ~OutOfTime(b, e)
<1> DEFINE s == Stops(b, e)
           t == Targets(b, e)
           r == Trails(b, h)
           o == OutOfTime(b, e)
           x == canExitSignal(b)
<1>1. exitReason(b, e, h) = CASE s -> "stop" [] ~s /\ t -> "target" [] ~s /\ ~t /\ r -> "trail"
        [] OTHER -> IF o THEN "time" ELSE IF x THEN "signal" ELSE "none"
  BY DEF exitReason
<1> HIDE DEF s, t, r, o, x
<1>2. ~o
  BY <1>1
<1> QED
  BY <1>2 DEF o

\* The peak stays a price.
LEMMA PeakIsPrice == ASSUME NEW p \in Nat, NEW q \in Nat PROVE Max({p, q}) \in Nat
<1>1. \E x \in {p, q} : \A y \in {p, q} : x >= y
  BY SMT
<1> QED
  BY <1>1 DEF Max

\* What the trades held, when one more is closed.
LEMMA OneMoreHeld ==
  ASSUME NEW ts \in Seq(ClosedTrade), NEW t \in ClosedTrade
  PROVE  SumOver(HeldOf(Append(ts, t)), 1 .. Len(ts) + 1)
           = SumOver(HeldOf(ts), 1 .. Len(ts)) + (t.exit - t.entry)
<1> DEFINE n == Len(ts)
           us == Append(ts, t)
           f == HeldOf(us)
           g == HeldOf(ts)
<1>1. n \in Nat /\ DOMAIN ts = 1 .. n /\ DOMAIN us = 1 .. n + 1
  OBVIOUS
<1>2. \A k \in 1 .. n : us[k] = ts[k] /\ ts[k] \in ClosedTrade
  OBVIOUS
<1>3. us[n + 1] = t
  OBVIOUS
<1>4. \A k \in 1 .. n : f[k] = g[k] /\ f[k] \in Int /\ g[k] \in Int
  BY <1>1, <1>2 DEF HeldOf, ClosedTrade
<1>5. f[n + 1] = t.exit - t.entry /\ f[n + 1] \in Int
  BY <1>1, <1>3 DEF HeldOf, ClosedTrade
<1> HIDE DEF n, us, f, g
<1>6. IsFiniteSet(1 .. n + 1) /\ IsFiniteSet(1 .. n)
  BY <1>1, FS_Interval
<1>7. \A k \in 1 .. n + 1 : f[k] \in Int
  <2>1. \A k \in 1 .. n + 1 : k \in 1 .. n \/ k = n + 1
    BY <1>1
  <2> QED
    BY <1>4, <1>5, <2>1
<1>8. n + 1 \in 1 .. n + 1 /\ (1 .. n + 1) \ {n + 1} = 1 .. n
  BY <1>1
<1>9. SumOver(f, 1 .. n + 1) = f[n + 1] + SumOver(f, 1 .. n)
  <2> DEFINE S == 1 .. n + 1
             a == n + 1
  <2>1. IsFiniteSet(S) /\ (\A k \in S : f[k] \in Int) /\ a \in S /\ S \ {a} = 1 .. n
    BY <1>6, <1>7, <1>8
  <2> HIDE DEF S, a
  <2>2. SumOver(f, S) = f[a] + SumOver(f, S \ {a})
    BY <2>1, SumTakes
  <2>3. SumOver(f, S) = f[a] + SumOver(f, 1 .. n)
    BY <2>1, <2>2
  <2> QED
    BY <2>3 DEF S, a
<1>10. SumOver(f, 1 .. n) = SumOver(g, 1 .. n)
  BY <1>4, <1>6, SumSame
<1>11. SumOver(g, 1 .. n) \in Int
  BY <1>4, <1>6, SumInt
<1>12. SumOver(f, 1 .. n + 1) = SumOver(g, 1 .. n) + (t.exit - t.entry)
  BY <1>5, <1>9, <1>10, <1>11
<1> QED
  BY <1>12 DEF n, us, f, g

\* What the trades held is a number.
LEMMA HeldIsInt ==
  ASSUME NEW ts \in Seq(ClosedTrade)
  PROVE  SumOver(HeldOf(ts), 1 .. Len(ts)) \in Int
<1>1. \A k \in 1 .. Len(ts) : HeldOf(ts)[k] \in Int
  <2>1. DOMAIN ts = 1 .. Len(ts) /\ \A k \in 1 .. Len(ts) : ts[k] \in ClosedTrade
    OBVIOUS
  <2> QED
    BY <2>1 DEF HeldOf, ClosedTrade
<1>2. IsFiniteSet(1 .. Len(ts))
  BY FS_Interval
<1> QED
  BY <1>1, <1>2, SumInt

\* The first candle is not traded on.
LEMMA ReplayStarts == ASSUME SimInit PROVE ReplayInv
<1>1. PICK c \in Candles[tpl] : bars = <<c>>
  BY DEF SimInit
<1>2. tpl \in SimTemplates /\ Length[tpl] \in Nat \ {0}
  BY SimulatorAssumption DEF SimInit
<1>3. Len(bars) = 1 /\ bars \in Seq(Candles[tpl])
  <2>1. ASSUME NEW S, NEW x \in S PROVE Len(<<x>>) = 1 /\ <<x>> \in Seq(S)
    OBVIOUS
  <2> QED
    BY <1>1, <2>1
<1>4. trades = <<>> /\ Len(trades) = 0 /\ 1 .. Len(trades) = {} /\ trades \in Seq(ClosedTrade)
  BY DEF SimInit
<1>5. SumOver(HeldOf(trades), 1 .. Len(trades)) = 0
  BY <1>4, SumEmpty
<1>6. inPos = FALSE /\ entryIdx = 0 /\ peak = 0 /\ barsInPos = 0
  BY DEF SimInit
<1>7. ReplayTypes
  <2>1. Len(bars) \in 1 .. Length[tpl] /\ entryIdx \in 0 .. Len(bars) /\ peak \in Nat
        /\ barsInPos \in 0 .. Len(bars)
    BY <1>2, <1>3, <1>6
  <2>2. tuning \in SimParams[tpl]
    BY DEF SimInit
  <2> QED
    BY <1>2, <1>3, <1>4, <1>6, <2>1, <2>2, Zenon DEF ReplayTypes
<1>8. InOrder /\ WithinHold
  <2>1. 1 .. Len(trades) - 1 = {}
    BY <1>4
  <2> QED
    BY <1>4, <1>6, <2>1 DEF InOrder, WithinHold
<1>9. Exposed
  BY <1>5, <1>6 DEF Exposed
<1> QED
  BY <1>7, <1>8, <1>9 DEF ReplayInv

\* A candle without a trade: nothing is open, nothing is counted.
LEMMA WaitKeeps == ASSUME ReplayInv, NEW c \in Candles[tpl], Wait(c) PROVE ReplayInv'
<1>1. /\ ReplayTypes /\ InOrder /\ WithinHold /\ Exposed /\ ~inPos
      /\ UNCHANGED <<inPos, entryIdx, peak, barsInPos, trades>>
  BY DEF ReplayInv, Wait
<1>2. /\ UNCHANGED <<tpl, tuning>> /\ bars' \in Seq(Candles[tpl])
      /\ Len(bars) \in Nat /\ Len(bars') = Len(bars) + 1
      /\ Len(bars') \in 1 .. Length[tpl] /\ exits' = exits
  BY <1>1, BarsGrow DEF Wait
<1>3. ReplayTypes'
  BY <1>1, <1>2 DEF ReplayTypes
<1>4. \A k \in 1 .. Len(trades) : trades[k] \in ClosedTrade
  BY <1>1 DEF ReplayTypes
<1>5. InOrder' /\ WithinHold'
  BY <1>1, <1>2, <1>4 DEF InOrder, WithinHold, ClosedTrade
<1>6. Exposed'
  BY <1>1 DEF Exposed
<1> QED
  BY <1>3, <1>5, <1>6 DEF ReplayInv

\* An entry: the trades before it are over.
LEMMA EnterKeeps == ASSUME ReplayInv, NEW c \in Candles[tpl], Enter(c) PROVE ReplayInv'
<1>1. /\ ReplayTypes /\ InOrder /\ WithinHold /\ Exposed /\ ~inPos
      /\ inPos' = TRUE /\ entryIdx' = Len(bars') /\ peak' = c.c
      /\ barsInPos' = barsInPos + 1 /\ trades' = trades
  BY DEF ReplayInv, Enter
<1>2. /\ UNCHANGED <<tpl, tuning>> /\ bars' \in Seq(Candles[tpl])
      /\ Len(bars) \in Nat /\ Len(bars') = Len(bars) + 1 /\ Len(bars) >= 1
      /\ Len(bars') \in 1 .. Length[tpl] /\ exits' = exits
      /\ c.c \in Nat /\ exits.hold \in Nat
  BY <1>1, BarsGrow DEF Enter, ReplayTypes
<1>3. ReplayTypes'
  BY <1>1, <1>2 DEF ReplayTypes
<1>4. \A k \in 1 .. Len(trades) : trades[k] \in ClosedTrade
  BY <1>1 DEF ReplayTypes
<1>5. InOrder' /\ WithinHold'
  <2>1. \A k \in 1 .. Len(trades) : trades[k].entry \in Nat /\ trades[k].exit \in Nat
    BY <1>4 DEF ClosedTrade
  <2>2. InOrder'
    BY <1>1, <1>2, <2>1 DEF InOrder
  <2>3. Len(bars') - entryIdx' = 0
    BY <1>1, <1>2
  <2>4. exits.hold > 0 =>
          \A k \in 1 .. Len(trades) : trades[k].exit - trades[k].entry <= exits.hold
    BY <1>1 DEF WithinHold
  <2> QED
    BY <1>1, <1>2, <2>2, <2>3, <2>4 DEF WithinHold
<1>6. Exposed'
  <2>1. barsInPos = SumOver(HeldOf(trades), 1 .. Len(trades)) + 0
    BY <1>1 DEF Exposed
  <2>2. SumOver(HeldOf(trades'), 1 .. Len(trades')) = SumOver(HeldOf(trades), 1 .. Len(trades))
    BY <1>1
  <2>3. Len(bars') - entryIdx' + 1 = 1 /\ barsInPos \in Nat
    BY <1>1, <1>2 DEF ReplayTypes
  <2>4. SumOver(HeldOf(trades), 1 .. Len(trades)) \in Int
    BY <1>1, HeldIsInt DEF ReplayTypes
  <2>5. barsInPos' = SumOver(HeldOf(trades'), 1 .. Len(trades')) + (Len(bars') - entryIdx' + 1)
    BY <1>1, <2>1, <2>2, <2>3, <2>4
  <2> QED
    BY <1>1, <2>5 DEF Exposed
<1> QED
  BY <1>3, <1>5, <1>6 DEF ReplayInv

\* A bar inside a position: one more is counted, and it is before the limit.
LEMMA HoldKeeps == ASSUME ReplayInv, NEW c \in Candles[tpl], Hold(c) PROVE ReplayInv'
<1>1. /\ ReplayTypes /\ InOrder /\ WithinHold /\ Exposed /\ inPos
      /\ peak' = Max({peak, c.c}) /\ barsInPos' = barsInPos + 1
      /\ UNCHANGED <<inPos, entryIdx, trades>>
      /\ exitReason(bars', entryIdx, peak') = "none"
  BY DEF ReplayInv, Hold
<1>2. /\ UNCHANGED <<tpl, tuning>> /\ bars' \in Seq(Candles[tpl])
      /\ Len(bars) \in Nat /\ Len(bars') = Len(bars) + 1 /\ Len(bars) >= 1
      /\ Len(bars') \in 1 .. Length[tpl] /\ exits' = exits
      /\ c.c \in Nat /\ exits.hold \in Nat
  BY <1>1, BarsGrow DEF Hold, ReplayTypes
<1>3. ReplayTypes'
  <2>1. peak' \in Nat
    BY <1>1, <1>2, PeakIsPrice DEF ReplayTypes
  <2> QED
    BY <1>1, <1>2, <2>1 DEF ReplayTypes
<1>4. \A k \in 1 .. Len(trades) : trades[k] \in ClosedTrade
  BY <1>1 DEF ReplayTypes
<1>5. InOrder'
  BY <1>1, <1>2, <1>4 DEF InOrder, ClosedTrade
<1>6. WithinHold'
  <2>1. PICK b, h : b = bars' /\ h = peak'
    OBVIOUS
  <2>2. ~OutOfTime(b, entryIdx)
    BY <1>1, <2>1, KeptInTime
  <2>3. exits.hold > 0 => Len(b) - entryIdx < exits.hold
    BY <1>1, <1>2, <2>1, <2>2 DEF OutOfTime, ReplayTypes
  <2> QED
    BY <1>1, <1>2, <2>1, <2>3 DEF WithinHold
<1>7. Exposed'
  <2>1. barsInPos = SumOver(HeldOf(trades), 1 .. Len(trades)) + (Len(bars) - entryIdx + 1)
    BY <1>1 DEF Exposed
  <2>2. SumOver(HeldOf(trades'), 1 .. Len(trades')) = SumOver(HeldOf(trades), 1 .. Len(trades))
    BY <1>1
  <2>3. SumOver(HeldOf(trades), 1 .. Len(trades)) \in Int /\ entryIdx \in Int
    BY <1>1, HeldIsInt DEF ReplayTypes
  <2>4. barsInPos' = SumOver(HeldOf(trades'), 1 .. Len(trades')) + (Len(bars') - entryIdx' + 1)
    BY <1>1, <1>2, <2>1, <2>2, <2>3
  <2> QED
    BY <1>1, <2>4 DEF Exposed
<1> QED
  BY <1>3, <1>5, <1>6, <1>7 DEF ReplayInv

\* An exit: what was counted of the open position is what the trade was held.
LEMMA LeaveKeeps == ASSUME ReplayInv, NEW c \in Candles[tpl], Leave(c) PROVE ReplayInv'
<1>1. /\ ReplayTypes /\ InOrder /\ WithinHold /\ Exposed /\ inPos
      /\ inPos' = FALSE /\ entryIdx' = 0 /\ peak' = 0 /\ barsInPos' = barsInPos
  BY DEF ReplayInv, Leave
<1>2. /\ UNCHANGED <<tpl, tuning>> /\ bars' \in Seq(Candles[tpl])
      /\ Len(bars) \in Nat /\ Len(bars') = Len(bars) + 1 /\ Len(bars) >= 1
      /\ Len(bars') \in 1 .. Length[tpl] /\ exits' = exits /\ exits.hold \in Nat
  BY <1>1, BarsGrow DEF Leave, ReplayTypes
<1>3. PICK t \in ClosedTrade : /\ trades' = Append(trades, t)
                               /\ t.entry = entryIdx /\ t.exit = Len(bars) + 1
  <2>1. PICK b : b = bars'
    OBVIOUS
  <2> DEFINE r == exitReason(b, entryIdx, Max({peak, c.c}))
             t == [entry |-> entryIdx, exit |-> Len(b), reason |-> r]
  <2>2. r # "none" /\ trades' = Append(trades, t)
    BY <2>1 DEF Leave
  <2>3. r \in {"stop", "target", "trail", "time", "signal"}
    BY <2>2, ReasonOfFive
  <2> HIDE DEF r
  <2>4. t \in ClosedTrade /\ t.entry = entryIdx /\ t.exit = Len(bars) + 1
    BY <1>1, <1>2, <2>1, <2>3 DEF ClosedTrade, ReplayTypes
  <2> HIDE DEF t
  <2> QED
    BY <2>2, <2>4
<1>4. /\ trades \in Seq(ClosedTrade) /\ Len(trades) \in Nat /\ trades' \in Seq(ClosedTrade)
      /\ Len(trades') = Len(trades) + 1 /\ trades'[Len(trades) + 1] = t
      /\ \A k \in 1 .. Len(trades) : trades'[k] = trades[k] /\ trades[k] \in ClosedTrade
  BY <1>1, <1>3 DEF ReplayTypes
<1>5. ReplayTypes'
  <2>1. /\ entryIdx' \in 0 .. Len(bars') /\ peak' \in Nat
        /\ barsInPos' \in 0 .. Len(bars')
    BY <1>1, <1>2 DEF ReplayTypes
  <2>2. tpl' \in SimTemplates /\ bars' \in Seq(Candles[tpl'])
        /\ Len(bars') \in 1 .. Length[tpl'] /\ tuning' \in SimParams[tpl']
    BY <1>1, <1>2 DEF ReplayTypes
  <2> QED
    BY <1>1, <1>4, <2>1, <2>2, Zenon DEF ReplayTypes
<1>6. t.entry \in Nat /\ t.exit \in Nat /\ 2 <= t.entry /\ t.entry < t.exit
  BY <1>1, <1>2, <1>3 DEF ReplayTypes, ClosedTrade
<1>7. ASSUME NEW k \in 1 .. Len(trades) + 1
      PROVE  2 <= trades'[k].entry /\ trades'[k].entry < trades'[k].exit
             /\ trades'[k].exit <= Len(bars')
  <2>1. CASE k = Len(trades) + 1
    BY <1>2, <1>3, <1>4, <1>6, <2>1
  <2>2. CASE k # Len(trades) + 1
    <3>1. k \in 1 .. Len(trades)
      BY <1>4, <2>2
    <3>2. /\ 2 <= trades[k].entry /\ trades[k].entry < trades[k].exit
          /\ trades[k].exit <= Len(bars)
      BY <1>1, <3>1 DEF InOrder
    <3>3. trades[k].exit \in Nat /\ trades'[k] = trades[k]
      BY <1>4, <3>1 DEF ClosedTrade
    <3> QED
      BY <1>2, <3>2, <3>3
  <2> QED
    BY <2>1, <2>2
<1>8. ASSUME NEW k \in 1 .. Len(trades)
      PROVE  trades'[k].exit < trades'[k + 1].entry
  <2>1. CASE k = Len(trades)
    BY <1>1, <1>3, <1>4, <2>1 DEF InOrder
  <2>2. CASE k # Len(trades)
    <3>1. k \in 1 .. Len(trades) - 1 /\ k + 1 \in 1 .. Len(trades)
      BY <1>4, <2>2
    <3> QED
      BY <1>1, <1>4, <3>1 DEF InOrder
  <2> QED
    BY <2>1, <2>2
<1>9. InOrder'
  <2>1. Len(trades') - 1 = Len(trades)
    BY <1>4
  <2> QED
    BY <1>1, <1>4, <1>7, <1>8, <2>1 DEF InOrder
<1>10. WithinHold'
  <2>1. ASSUME exits.hold > 0, NEW k \in 1 .. Len(trades) + 1
        PROVE  trades'[k].exit - trades'[k].entry <= exits.hold
    <3>1. CASE k = Len(trades) + 1
      <4>1. Len(bars) - entryIdx < exits.hold /\ entryIdx \in Int
        BY <1>1, <2>1 DEF WithinHold, ReplayTypes
      <4> QED
        BY <1>2, <1>3, <1>4, <3>1, <4>1
    <3>2. CASE k # Len(trades) + 1
      <4>1. k \in 1 .. Len(trades)
        BY <1>4, <3>2
      <4> QED
        BY <1>1, <1>4, <2>1, <4>1 DEF WithinHold
    <3> QED
      BY <3>1, <3>2
  <2> QED
    BY <1>1, <1>2, <1>4, <2>1 DEF WithinHold
<1>11. Exposed'
  <2>1. barsInPos = SumOver(HeldOf(trades), 1 .. Len(trades)) + (Len(bars) - entryIdx + 1)
    BY <1>1 DEF Exposed
  <2>2. SumOver(HeldOf(trades'), 1 .. Len(trades) + 1)
          = SumOver(HeldOf(trades), 1 .. Len(trades)) + (t.exit - t.entry)
    BY <1>3, <1>4, OneMoreHeld
  <2>3. SumOver(HeldOf(trades), 1 .. Len(trades)) \in Int /\ entryIdx \in Int
    BY <1>1, HeldIsInt DEF ReplayTypes
  <2>4. SumOver(HeldOf(trades'), 1 .. Len(trades')) = SumOver(HeldOf(trades'), 1 .. Len(trades) + 1)
    BY <1>4
  <2>5. barsInPos' = SumOver(HeldOf(trades'), 1 .. Len(trades')) + 0
    BY <1>1, <1>2, <1>3, <2>1, <2>2, <2>3, <2>4
  <2> QED
    BY <1>1, <2>5 DEF Exposed
<1> QED
  BY <1>5, <1>9, <1>10, <1>11 DEF ReplayInv

\* Every candle keeps the invariant of the replay.
LEMMA ReplaySteps == ASSUME ReplayInv, [SimNext]_simVars PROVE ReplayInv'
<1>1. CASE SimNext
  BY <1>1, WaitKeeps, EnterKeeps, HoldKeeps, LeaveKeeps DEF SimNext
<1>2. CASE UNCHANGED simVars
  BY <1>2 DEF simVars, ReplayInv, ReplayTypes, InOrder, WithinHold, Exposed, exits
<1> QED
  BY <1>1, <1>2

\* Only parameters that the cross-field rules accept are replayed, and they stay the same.
Tuned == tuning \in SimParams[tpl] /\ ~paramRuleError(tpl, tuning)

SimInv == ReplayInv /\ Tuned

\* The replay starts in its invariant, and every candle keeps it.
LEMMA SimStarts == ASSUME SimInit PROVE SimInv
<1>1. Tuned
  BY DEF SimInit, Tuned
<1> QED
  BY <1>1, ReplayStarts DEF SimInv
LEMMA SimSteps == ASSUME SimInv, [SimNext]_simVars PROVE SimInv'
<1>1. ReplayInv'
  BY ReplaySteps DEF SimInv
<1>2. UNCHANGED <<tpl, tuning>>
  <2>1. CASE SimNext
    BY <2>1 DEF SimNext, Enter, Wait, Hold, Leave, Next1
  <2>2. CASE UNCHANGED simVars
    BY <2>2 DEF simVars
  <2> QED
    BY <2>1, <2>2
<1>3. Tuned'
  BY <1>2 DEF SimInv, Tuned
<1> QED
  BY <1>1, <1>3 DEF SimInv

\* The invariant gives the types and the exposure that is reported ...
LEMMA ExposureAdds == ASSUME SimInv PROVE SimTypeOK /\ ExposureIsHolding
<1>1. ReplayTypes /\ InOrder /\ WithinHold /\ Exposed
  BY DEF SimInv, ReplayInv
<1>2. /\ DOMAIN trades = 1 .. Len(trades) /\ Len(trades) \in Nat
      /\ \A k \in 1 .. Len(trades) : trades[k] \in ClosedTrade
  BY <1>1 DEF ReplayTypes
<1>3. SimTypeOK
  BY <1>1, <1>2 DEF ReplayTypes, InOrder, SimTypeOK, ClosedTrade
<1>4. barsInPos = MapThenSumSet(LAMBDA k : HeldOf(trades)[k], DOMAIN trades)
                  + IF inPos THEN Len(bars) - entryIdx + 1 ELSE 0
  BY <1>1, <1>2 DEF Exposed, SumOver
<1>5. HeldOf(trades) = [k \in DOMAIN trades |-> trades[k].exit - trades[k].entry]
  BY DEF HeldOf
<1>6. \A k \in DOMAIN trades : HeldOf(trades)[k] = trades[k].exit - trades[k].entry
  BY DEF HeldOf
<1>7. inPos /\ trades # <<>> => trades[Len(trades)].exit < entryIdx
  <2>1. trades # <<>> => Len(trades) \in 1 .. Len(trades)
    BY <1>1, <1>2 DEF ReplayTypes
  <2> QED
    BY <1>1, <2>1 DEF InOrder
<1>8. \A k \in 1 .. Len(trades) - 1 : trades[k].exit < trades[k + 1].entry
  BY <1>1 DEF InOrder
<1>9. exits.hold > 0 => /\ \A k \in DOMAIN trades : HeldOf(trades)[k] <= exits.hold
                        /\ inPos => Len(bars) - entryIdx < exits.hold
  BY <1>1, <1>2, <1>6 DEF WithinHold
<1>10. ExposureIsHolding
  BY <1>4, <1>7, <1>8, <1>9 DEF ExposureIsHolding, HeldOf
<1> QED
  BY <1>3, <1>10

\* ... and what the replay's other reports are proved from.
LEMMA InputsOfReplay == ASSUME SimInv PROVE SimInputs /\ TradesInside
<1>1. ReplayTypes /\ InOrder /\ Tuned
  BY DEF SimInv, ReplayInv
<1>2. SimInputs
  <2>1. bars # <<>>
    BY <1>1 DEF ReplayTypes
  <2> QED
    BY <1>1, <2>1 DEF ReplayTypes, Tuned, SimInputs
<1>3. /\ DOMAIN trades = 1 .. Len(trades) /\ Len(trades) \in Nat
      /\ \A k \in 1 .. Len(trades) : trades[k] \in ClosedTrade
      /\ Len(bars) \in Nat
  BY <1>1 DEF ReplayTypes
<1>4. ASSUME NEW k \in DOMAIN trades
      PROVE  trades[k].entry \in 1 .. Len(bars) /\ trades[k].exit \in 1 .. Len(bars)
  <2>1. trades[k].entry \in Nat /\ trades[k].exit \in Nat
    BY <1>3 DEF ClosedTrade
  <2>2. 2 <= trades[k].entry /\ trades[k].entry < trades[k].exit /\ trades[k].exit <= Len(bars)
    BY <1>1, <1>3 DEF InOrder
  <2> QED
    BY <1>3, <2>1, <2>2
<1> QED
  BY <1>2, <1>3, <1>4 DEF TradesInside

\* Whatever is replayed: what the preview reports of it adds up, its chart explains the entries,
\* no close is entered and left at once, and a custom strategy trades as it was previewed.
LEMMA ReplayIsHonest ==
  ASSUME SimInv
  PROVE  /\ SimTypeOK /\ ExposureIsHolding /\ OverlayExplains /\ EntryExcludesExit
         /\ FoldsPartition /\ AvgCostIsAPrice /\ LockStep
BY ExposureAdds, InputsOfReplay, InputsExplain, InputsInStep, FoldsPart, CostAmong

\* The same of the replay on its own.
THEOREM ReplayInvCorrect == SimSpec => []SimInv
<1>1. SimInit => SimInv
  BY SimStarts
<1>2. SimInv /\ [SimNext]_simVars => SimInv'
  BY SimSteps
<1> QED
  BY <1>1, <1>2, PTL DEF SimSpec
=============================================================================
