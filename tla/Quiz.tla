-------------------------------- MODULE Quiz --------------------------------
(***************************************************************************)
(* The beginners' quiz (lib/quiz.ts, components/StrategyQuiz.tsx): five    *)
(* questions whose answers add weight to templates, and the match shown    *)
(* when the last is answered.                                              *)
(***************************************************************************)
EXTENDS Templates, SequencesExt, FiniteSetsExt

\* The questions in order; an option is the weight it adds to each template.
Often == <<[trend_regime |-> 3, tsmom |-> 3, donchian_trend |-> 2, supertrend |-> 1],
           [momentum |-> 3, bb_breakout |-> 2, macd_trend |-> 2, vol_expansion |-> 1],
           [bb_breakout |-> 2, donchian_trend |-> 2, vol_expansion |-> 1, tsmom |-> 1]>>
SlipsBack == <<[tsmom |-> 3, trend_regime |-> 2, donchian_trend |-> 2, momentum |-> 1],
               [supertrend |-> 3, bb_breakout |-> 2, macd_trend |-> 1],
               [vol_expansion |-> 2, bb_breakout |-> 2]>>
Dip == <<[bb_breakout |-> 3, supertrend |-> 2, donchian_trend |-> 1],
         [tsmom |-> 2, momentum |-> 2, macd_trend |-> 2, vol_expansion |-> 2],
         [trend_regime |-> 3, tsmom |-> 3, donchian_trend |-> 1]>>
Sentence == <<[donchian_trend |-> 3, trend_regime |-> 2, supertrend |-> 1],
              [vol_expansion |-> 3, bb_breakout |-> 2],
              [tsmom |-> 3, momentum |-> 2, macd_trend |-> 1]>>
HandsOn == <<[trend_regime |-> 3, tsmom |-> 2, donchian_trend |-> 2, supertrend |-> 1],
             [momentum |-> 2, vol_expansion |-> 2, macd_trend |-> 2],
             [bb_breakout |-> 2, supertrend |-> 2, macd_trend |-> 1]>>
QUIZ == <<Often, SlipsBack, Dip, Sentence, HandsOn>>

\* Ties break toward the slower templates.
TIE_ORDER == <<"trend_regime", "tsmom", "donchian_trend", "supertrend", "bb_breakout", "macd_trend",
               "momentum", "vol_expansion">>
QuizKeys == Range(TIE_ORDER)

VARIABLE quizAnswers    \* the options chosen so far

WeightOf(o, k) == IF k \in DOMAIN o THEN o[k] ELSE 0
quizScore(as, k) ==
    LET added == [j \in DOMAIN as |-> WeightOf(QUIZ[j][as[j]], k)]
    IN MapThenSumSet(LAMBDA j : added[j], DOMAIN as)

\* Mutant of Ahead: the last of the tied templates wins.
AheadOfTies(as, j, k) ==
    LET a == quizScore(as, TIE_ORDER[j])
        b == quizScore(as, TIE_ORDER[k])
    IN \/ a > b
       \/ a = b /\ j > k
Ahead(as, j, k) ==
    LET a == quizScore(as, TIE_ORDER[j])
        b == quizScore(as, TIE_ORDER[k])
    IN \/ a > b
       \/ a = b /\ j < k

Place(as, j) == 1 + Cardinality({k \in DOMAIN TIE_ORDER : Ahead(as, k, j)})
recommend(as) ==
    [key |-> TIE_ORDER[CHOOSE j \in DOMAIN TIE_ORDER : Place(as, j) = 1],
     runnerUp |-> TIE_ORDER[CHOOSE j \in DOMAIN TIE_ORDER : Place(as, j) = 2]]

-----------------------------------------------------------------------------
quizDone == Len(quizAnswers) >= Len(QUIZ)
ShownOptions == IF quizDone THEN {} ELSE DOMAIN QUIZ[Len(quizAnswers) + 1]
ShownMatch == IF quizDone THEN {recommend(quizAnswers)} ELSE {}

QuizInit == quizAnswers = <<>>
pick(k) == k \in ShownOptions /\ quizAnswers' = Append(quizAnswers, k)
back == ~quizDone /\ quizAnswers # <<>> /\ quizAnswers' = Front(quizAnswers)
reset == quizDone /\ quizAnswers' = <<>>
QuizNext == (\E k \in 1..3 : pick(k)) \/ back \/ reset

-----------------------------------------------------------------------------
\* The match is a template the cards offer, no other scores more, and one that scores as much
\* is faster; the runner-up is another one.
MatchIsBest ==
    \A r \in ShownMatch :
        /\ r.key \in ACTIVE_TEMPLATES /\ r.runnerUp \in QuizKeys \ {r.key}
        /\ \A j \in DOMAIN TIE_ORDER :
             LET mine == quizScore(quizAnswers, r.key)
                 other == quizScore(quizAnswers, TIE_ORDER[j])
             IN \/ other < mine
                \/ other = mine /\ r.key \in Range(SubSeq(TIE_ORDER, 1, j))

=============================================================================
