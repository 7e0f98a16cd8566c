------------------------------- MODULE Finder -------------------------------
(***************************************************************************)
(* "Compare the strategies" (components/BestStrategyFinder.tsx): one fetch *)
(* of daily candles per coin, all of them simulated, ranked, and the best  *)
(* ticked; what is ticked is added in one server action. A comparison and  *)
(* an addition may run at the same time.                                   *)
(***************************************************************************)
EXTENDS Integers, Sequences, FiniteSets, SequencesExt, Lists

CONSTANTS
    Coins2,       \* the markets compared
    Ranges,       \* lookbacks offered, in days
    FirstRange,   \* the one selected first
    Scores,       \* coin -> days -> what the simulations give: sets of
                  \*   [template, net, closed, winRate], empty when candles are too few
    FinderClicks, \* bound: clicks
    FinderFaults  \* bound: calls that throw

MIN_EVIDENCE == 3

VARIABLES
    days, err,      \* the select, and whether an error is shown
    comparing,      \* the comparison under way: [on, days, left, got]
    rows, ranDays,  \* the ranking shown, <<>> for none, and the range it was run for
    sel,            \* combinations ticked
    adding,         \* the addition under way: [on, items, left]
    added,          \* rows of user_strategies inserted: sequence of combinations
    finderClicks, finderFaults,
    ticked          \* history: combinations ticked, by the ranking or by the user, one entry a tick

fvars == <<days, err, comparing, rows, ranDays, sel, adding, added, finderClicks, finderFaults, ticked>>

NotRunning == [on |-> FALSE]
busy == comparing.on
KeyOf(r) == [template |-> r.template, market |-> r.market]

-----------------------------------------------------------------------------
(* What the buttons allow *)

ShownCompare == IF busy THEN {} ELSE {"range", "compare"}
ShownTable == IF rows = <<>> THEN {} ELSE {KeyOf(rows[i]) : i \in DOMAIN rows}
\* Mutant of ShownAdd: the button stays on while an addition runs.
AddWhileAdding == IF rows = <<>> \/ sel = {} THEN {} ELSE {"add"}
ShownAdd == IF rows = <<>> \/ adding.on \/ sel = {} THEN {} ELSE {"add"}

FClick == finderClicks < FinderClicks /\ finderClicks' = finderClicks + 1

FInit ==
    /\ days = FirstRange /\ err = FALSE /\ comparing = NotRunning /\ rows = <<>>
    /\ ranDays = FirstRange /\ sel = {} /\ adding = NotRunning /\ added = <<>>
    /\ finderClicks = 0 /\ finderFaults = 0 /\ ticked = <<>>

setDays(d) ==
    /\ "range" \in ShownCompare /\ d # days /\ FClick /\ days' = d
    /\ UNCHANGED <<err, comparing, rows, ranDays, sel, adding, added, finderFaults, ticked>>

run ==
    /\ "compare" \in ShownCompare /\ FClick
    /\ comparing' = [on |-> TRUE, days |-> days, left |-> Coins2, got |-> {}]
    /\ err' = FALSE /\ rows' = <<>> /\ sel' = {}
    /\ UNCHANGED <<days, ranDays, adding, added, finderFaults, ticked>>

\* Coins answer in any order; an answer without candles counts as too few of them.
CoinAnswers(m) ==
    /\ busy /\ m \in comparing.left
    /\ \E served \in BOOLEAN :
        /\ ~served => finderFaults < FinderFaults
        /\ finderFaults' = finderFaults + (IF served THEN 0 ELSE 1)
        /\ comparing' = [comparing EXCEPT !.left = @ \ {m},
             !.got = @ \cup (IF served THEN {[template |-> s.template, market |-> m, net |-> s.net,
                                              closed |-> s.closed, winRate |-> s.winRate,
                                              eligible |-> s.closed >= MIN_EVIDENCE]
                                             : s \in Scores[m][comparing.days]}
                             ELSE {})]
    /\ UNCHANGED <<days, err, rows, ranDays, sel, adding, added, finderClicks, ticked>>

\* One request that breaks fails the whole comparison.
CoinBreaks ==
    /\ busy /\ comparing.left # {} /\ finderFaults < FinderFaults
    /\ finderFaults' = finderFaults + 1
    /\ comparing' = NotRunning /\ err' = TRUE
    /\ UNCHANGED <<days, rows, ranDays, sel, adding, added, finderClicks, ticked>>

\* Mutant of Ranks: the net return alone ranks.
RanksByNet(a, b) == a.net >= b.net
\* Eligible first, then the net return, then the win rate.
Ranks(a, b) ==
    IF a.eligible # b.eligible THEN a.eligible
    ELSE a.net > b.net \/ (a.net = b.net /\ a.winRate >= b.winRate)

\* All have answered: ranked in some order equals leave open, the best eligible one ticked.
Ranked ==
    /\ busy /\ comparing.left = {} /\ comparing' = NotRunning
    /\ IF comparing.got = {} THEN err' = TRUE /\ UNCHANGED <<rows, ranDays, sel, ticked>>
       ELSE /\ \E r \in SetToSeqs(comparing.got) :
                 /\ \A i, j \in DOMAIN r : i < j => Ranks(r[i], r[j])
                 /\ rows' = r
            /\ sel' = {KeyOf(rows'[i]) : i \in {k \in DOMAIN rows' :
                          rows'[k].eligible /\ \A j \in 1..(k - 1) : ~rows'[j].eligible}}
            /\ ranDays' = comparing.days /\ ticked' = ticked \o SetToSeq(sel') /\ UNCHANGED err
    /\ UNCHANGED <<days, adding, added, finderClicks, finderFaults>>

toggle(k) ==
    /\ k \in ShownTable /\ FClick
    /\ sel' = IF k \in sel THEN sel \ {k} ELSE sel \cup {k}
    /\ ticked' = IF k \in sel THEN ticked ELSE Append(ticked, k)
    /\ UNCHANGED <<days, err, comparing, rows, ranDays, adding, added, finderFaults>>

addSelected ==
    /\ "add" \in ShownAdd /\ FClick
    /\ adding' = [on |-> TRUE, left |-> Only([i \in DOMAIN rows |-> KeyOf(rows[i])], sel)]
    /\ UNCHANGED <<days, err, comparing, rows, ranDays, sel, added, finderFaults, ticked>>

\* addStrategiesAction inserts one after the other, and may stop half way.
Inserts ==
    /\ adding.on /\ adding.left # <<>>
    /\ added' = Append(added, Head(adding.left)) /\ adding' = [adding EXCEPT !.left = Tail(@)]
    /\ UNCHANGED <<days, err, comparing, rows, ranDays, sel, finderClicks, finderFaults, ticked>>
InsertThrows ==
    /\ adding.on /\ adding.left # <<>> /\ finderFaults < FinderFaults
    /\ finderFaults' = finderFaults + 1 /\ adding' = NotRunning
    /\ UNCHANGED <<days, err, comparing, rows, ranDays, sel, added, finderClicks, ticked>>

\* Success unticks everything, ticks set meanwhile included.
AddEnds ==
    /\ adding.on /\ adding.left = <<>> /\ adding' = NotRunning /\ sel' = {}
    /\ UNCHANGED <<days, err, comparing, rows, ranDays, added, finderClicks, finderFaults, ticked>>

FNext ==
    \/ run \/ CoinBreaks \/ Ranked \/ addSelected \/ Inserts \/ InsertThrows \/ AddEnds
    \/ \E d \in Ranges : setDays(d)
    \/ \E m \in Coins2 : CoinAnswers(m)
    \/ \E k \in ShownTable : toggle(k)

FSpec == FInit /\ [][FNext]_fvars

-----------------------------------------------------------------------------
(* Properties *)

FTypeOK ==
    /\ {days, ranDays} \subseteq Ranges /\ err \in BOOLEAN /\ sel \subseteq ShownTable
    /\ busy => comparing.days = days /\ rows = <<>>

\* The ranking on the screen was computed over the range its label names, no combination with
\* too few trades stands above one with enough, and nothing ticked is missing from it.
RankingIsOfRange ==
    rows # <<>> =>
        /\ \A i \in DOMAIN rows : \E s \in Scores[rows[i].market][ranDays] :
                s.template = rows[i].template /\ s.net = rows[i].net
        /\ \A i, j \in DOMAIN rows : i < j /\ rows[j].eligible => rows[i].eligible
        /\ sel \subseteq ShownTable

\* A combination is added no more often than it was ticked, but for one repetition by each
\* failure, whatever runs at the same time: a successful addition leaves nothing to add again.
Times1(k, s) == Cardinality({i \in DOMAIN s : s[i] = k})
AddedAsTicked == \A k \in Range(added) : Times1(k, added) <= Times1(k, ticked) + finderFaults

=============================================================================
