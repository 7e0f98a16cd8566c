------------------------------ MODULE AutoPick ------------------------------
(***************************************************************************)
(* "Choose the best strategies for me" (components/StrategyAutoPick.tsx):  *)
(* three questions, a plan drawn from the user's rows and the catalog, and *)
(* two ways to apply it, each a series of server actions that can fail     *)
(* half way. The plan is computed from the rows of the last refresh; what  *)
(* an application does is fixed when it starts.                            *)
(***************************************************************************)
EXTENDS Templates, SequencesExt, FiniteSetsExt, Lists

CONSTANTS
    PickExchange,     \* the linked exchange
    Live,             \* live results: [template, market] -> [pnl, closed]; absent is none
    FirstRows,        \* bound: lists of rows the user starts with
    PickIds,          \* bound: row ids
    PickFailures,     \* bound: server calls that throw
    PickMoves         \* bound: clicks

\* A row of the user's: the worker's templates and the custom ones.
StrategyRow ==
    [id : PickIds, template : DOMAIN TEMPLATE_CONFIG \cup {"custom"}, market : Markets,
     enabled : BOOLEAN]

\* Rows have ids of their own, and what they earned is a number.
ASSUME PickAssumption ==
    /\ PickIds \subseteq Nat
    /\ \A rows \in FirstRows :
         /\ rows \in Seq(StrategyRow)
         /\ \A i, j \in DOMAIN rows : rows[i].id = rows[j].id => i = j
    /\ \A k \in DOMAIN Live : Live[k].pnl \in Int

SLOW == {"trend_regime", "tsmom", "donchian_trend"}
ACTIVE == {"momentum", "vol_expansion", "macd_trend", "supertrend", "bb_breakout"}
STEADY == {"supertrend", "trend_regime", "bb_breakout"}
MIN_CLOSED == 3
COIN_CAPS == <<1, 3, 6>>
QuestionCount == 3

\* The catalog's order, and its backtested net returns in tenths of a per cent.
Catalog == <<"bb_breakout", "donchian_trend", "vol_expansion", "momentum", "tsmom", "trend_regime",
             "supertrend", "macd_trend">>
backtestNet ==
    [bb_breakout |-> 5994, donchian_trend |-> 3399, sharpe_mom |-> 1489, macd_trend |-> 2714,
     trend_regime |-> 600, ichimoku |-> 403, tsmom |-> 2288, momentum |-> 1453,
     squeeze_breakout |-> 2305, ma_crossover |-> 843, vol_expansion |-> 2124, supertrend |-> 2104,
     rsi |-> -35, fast_rsi |-> -68, bb_reversion |-> -542]

VARIABLES
    userRows,    \* user_strategies in their order: <<[id, template, market, enabled]>>
    pageRows,    \* the rows the page was last rendered with
    panel,       \* [open, answers]: answers number options from 0
    applying,    \* the application under way, or idle
    pickFailures, pickMoves,
    outcome      \* history: the last application, from what to what, and how it ended

avars == <<userRows, pageRows, panel, applying, pickFailures, pickMoves, outcome>>

Idle == [on |-> FALSE]
Key(r) == [template |-> r.template, market |-> r.market]

-----------------------------------------------------------------------------
(* buildPlan *)

NeverPicked == EXPERIMENTAL_TEMPLATES \cup RETIRED_TEMPLATES

liveOf(r) == IF Key(r) \in DOMAIN Live THEN Live[Key(r)] ELSE [pnl |-> 0, closed |-> 0]

\* The user's rows by template and market, the last of equals standing for them, then the
\* catalog on its own markets.
OwnKeys(rows) ==
    LET firsts == {i \in DOMAIN rows : /\ rows[i].template \notin NeverPicked
                                       /\ \A j \in 1..(i - 1) : Key(rows[j]) # Key(rows[i])}
        at == Only([i \in DOMAIN rows |-> i], firsts)
    IN [n \in DOMAIN at |-> Key(rows[at[n]])]
CatalogKey(t) == [template |-> t, market |-> marketFor(PickExchange, TEMPLATE_CONFIG[t].market)]
LastOf(rows, key) == rows[Max({i \in DOMAIN rows : Key(rows[i]) = key})]
Own(rows, key) ==
    LET r == LastOf(rows, key)
    IN [key |-> key, existing |-> {r}, pnl |-> liveOf(r).pnl,
        hasData |-> liveOf(r).closed >= MIN_CLOSED]
candidates(rows) ==
    LET own == OwnKeys(rows)
        listed == [i \in DOMAIN Catalog |-> CatalogKey(Catalog[i])]
        rest == Only(listed, Range(listed) \ Range(own))
    IN [i \in DOMAIN own |-> Own(rows, own[i])]
       \o [i \in DOMAIN rest |-> [key |-> rest[i], existing |-> {}, pnl |-> 0, hasData |-> FALSE]]

HasBacktest(c) == c.key.template \in DOMAIN backtestNet
Before(a, b) ==
    IF a.hasData # b.hasData THEN a.hasData
    ELSE IF a.hasData THEN a.pnl > b.pnl
    ELSE /\ HasBacktest(a)
         /\ HasBacktest(b) => backtestNet[a.key.template] > backtestNet[b.key.template]

\* Profit first, then temperament, in quarters of a point.
rankOf(cs, i) ==
    Cardinality({j \in DOMAIN cs :
        IF j < i THEN ~Before(cs[i], cs[j]) ELSE Before(cs[j], cs[i])})
points(cs, i, answers) ==
    LET size == Len(cs)
        t == cs[i].key.template
        leaning(likes, dislikes) ==
            IF t \in likes THEN 2 * size ELSE IF t \in dislikes THEN -size ELSE 0
    IN 4 * (size - rankOf(cs, i)) * (IF answers[2] = 0 THEN 2 ELSE 1)
       + (IF answers[1] = 0 THEN leaning(SLOW, ACTIVE) ELSE 0)
       + (IF answers[1] = 1 THEN leaning(ACTIVE, SLOW) ELSE 0)
       + (IF answers[2] = 1 THEN (IF t \in STEADY THEN 3 * size ELSE -size) ELSE 0)
       + (IF answers[2] = 2 /\ t \in STEADY THEN size ELSE 0)

\* What decides between candidates, by their place in the list.
scoresOf(cs, answers) ==
    [i \in DOMAIN cs |-> [market |-> cs[i].key.market, rank |-> rankOf(cs, i),
                          points |-> points(cs, i, answers)]]

\* The best of each coin, then the best coins; equals keep the order of the profit ranking.
Better(a, b, rankA, rankB) ==
    a.points > b.points \/ (a.points = b.points /\ rankA < rankB)
winners(sc) ==
    {i \in DOMAIN sc : \A j \in DOMAIN sc \ {i} :
        sc[j].market = sc[i].market => Better(sc[i], sc[j], sc[i].rank, sc[j].rank)}
coinRank(sc, i) == Min({sc[j].rank : j \in {k \in DOMAIN sc : sc[k].market = sc[i].market}})
ahead(sc, W, i) == {j \in W : Better(sc[j], sc[i], coinRank(sc, j), coinRank(sc, i))}
bestOf(cs, sc, W, coins) ==
    [n \in 1..Min({coins, Cardinality(W)}) |->
        cs[CHOOSE i \in W : Cardinality(ahead(sc, W, i)) = n - 1]]
recommended(cs, sc, coins) == bestOf(cs, sc, winners(sc), coins)

\* What is not recommended goes.
planOf(rows, recs) ==
    LET keep == UNION {{r.id : r \in c.existing} : c \in Range(recs)}
    IN [recs |-> recs, remove |-> Only(rows, {r \in Range(rows) : r.id \notin keep})]
planFrom(rows, cs, answers) ==
    planOf(rows, recommended(cs, scoresOf(cs, answers), COIN_CAPS[answers[3] + 1]))
buildPlan(rows, answers) == planFrom(rows, candidates(rows), answers)

-----------------------------------------------------------------------------
(* The panel *)

answered == Len(panel.answers) >= QuestionCount
plan == buildPlan(pageRows, panel.answers)
keysOf(recs) == [n \in DOMAIN recs |-> recs[n].key]
toAdd(p) == keysOf(Only(p.recs, {c \in Range(p.recs) : c.existing = {}}))
toEnable(p) ==
    LET off == Only(p.recs, {c \in Range(p.recs) : \E r \in c.existing : ~r.enabled})
    IN [n \in DOMAIN off |-> (CHOOSE r \in off[n].existing : TRUE).id]
pickPending == applying.on

\* The panel stays usable while an application runs, except its two buttons.
ShownPanel ==
    IF ~panel.open THEN {"open"}
    ELSE {"close"} \cup IF answered THEN {"start over"} \cup (IF pickPending THEN {} ELSE {"add"})
                                          \cup (IF pickPending \/ pageRows = <<>> THEN {} ELSE {"replace"})
                        ELSE {"option"} \cup (IF panel.answers = <<>> THEN {} ELSE {"back"})

AInit ==
    /\ userRows \in FirstRows /\ pageRows = userRows
    /\ panel = [open |-> FALSE, answers |-> <<>>] /\ applying = Idle
    /\ pickFailures = 0 /\ pickMoves = 0
    /\ outcome = [ended |-> "never"]

AClick == pickMoves < PickMoves /\ pickMoves' = pickMoves + 1
SetPanel(p) == AClick /\ panel' = p /\ UNCHANGED <<userRows, pageRows, applying, pickFailures, outcome>>

open == "open" \in ShownPanel /\ SetPanel([panel EXCEPT !.open = TRUE])
close == "close" \in ShownPanel /\ SetPanel([open |-> FALSE, answers |-> <<>>])
answer(k) == "option" \in ShownPanel /\ SetPanel([panel EXCEPT !.answers = Append(@, k)])
back == "back" \in ShownPanel /\ SetPanel([panel EXCEPT !.answers = Front(@)])
startOver == "start over" \in ShownPanel /\ SetPanel([panel EXCEPT !.answers = <<>>])

Start(p, remove) ==
    /\ AClick
    /\ applying' = [on |-> TRUE, add |-> toAdd(p), enable |-> toEnable(p), remove |-> remove]
    /\ outcome' = [ended |-> "not yet", was |-> userRows, recs |-> Range(keysOf(p.recs)),
                 replace |-> remove # <<>>, clean |-> pageRows = userRows]
    /\ UNCHANGED <<userRows, pageRows, panel, pickFailures>>
Replacing(p) == Start(p, [n \in DOMAIN p.remove |-> p.remove[n].id])

applyAdd == "add" \in ShownPanel /\ Start(plan, <<>>)

\* Confirmed when something is removed; the rows to remove are those of the click.
applyReplace == "replace" \in ShownPanel /\ Replacing(plan)

-----------------------------------------------------------------------------
(* The server actions, in order *)

\* addStrategiesAction: checked as a whole, inserted one by one, the page refreshed at the end.
AddOne ==
    /\ pickPending /\ applying.add # <<>> /\ PickIds # {r.id : r \in Range(userRows)}
    /\ LET id == Min(PickIds \ {r.id : r \in Range(userRows)})
           key == Head(applying.add)
       IN userRows' = Append(userRows, [id |-> id, template |-> key.template,
                                        market |-> key.market, enabled |-> TRUE])
    /\ applying' = [applying EXCEPT !.add = Tail(@)]
    /\ pageRows' = IF Len(applying.add) = 1 THEN userRows' ELSE pageRows
    /\ UNCHANGED <<panel, pickFailures, pickMoves, outcome>>

\* Mutant of EnableOne: the toggle's answer is taken for the state asked for.
ToggleBlindly ==
    /\ pickPending /\ applying.add = <<>> /\ applying.enable # <<>>
    /\ applying' = [applying EXCEPT !.enable = Tail(@)]
    /\ UNCHANGED <<userRows, pageRows, panel, pickFailures, pickMoves, outcome>>

\* toggleStrategyAction, one after the other.
EnableOne ==
    /\ pickPending /\ applying.add = <<>> /\ applying.enable # <<>>
    /\ userRows' = [i \in DOMAIN userRows |-> IF userRows[i].id = Head(applying.enable)
                        THEN [userRows[i] EXCEPT !.enabled = TRUE] ELSE userRows[i]]
    /\ pageRows' = userRows'
    /\ applying' = [applying EXCEPT !.enable = Tail(@)]
    /\ UNCHANGED <<panel, pickFailures, pickMoves, outcome>>

Removes ==
    /\ userRows' = Only(userRows, {r \in Range(userRows) : r.id # Head(applying.remove)})
    /\ pageRows' = userRows'
    /\ applying' = [applying EXCEPT !.remove = Tail(@)]
    /\ UNCHANGED <<panel, pickFailures, pickMoves, outcome>>

\* Mutant of RemoveOne: removed before the recommended are in place.
RemoveEarly == pickPending /\ applying.remove # <<>> /\ Removes

\* removeStrategyAction, last.
RemoveOne ==
    pickPending /\ applying.add = <<>> /\ applying.enable = <<>> /\ applying.remove # <<>> /\ Removes

\* Success closes the panel, whatever it shows by then.
Applied ==
    /\ pickPending /\ applying.add = <<>> /\ applying.enable = <<>> /\ applying.remove = <<>>
    /\ applying' = Idle /\ panel' = [open |-> FALSE, answers |-> <<>>]
    /\ outcome' = [outcome EXCEPT !.ended = "done"]
    /\ UNCHANGED <<userRows, pageRows, pickFailures, pickMoves>>

\* A call throws: nothing after it runs, and the page keeps its rows.
ApplyFails ==
    /\ pickPending /\ pickFailures < PickFailures /\ pickFailures' = pickFailures + 1
    /\ applying.add \o applying.enable \o applying.remove # <<>>
    /\ applying' = Idle /\ outcome' = [outcome EXCEPT !.ended = "failed"]
    /\ UNCHANGED <<userRows, pageRows, panel, pickMoves>>

ANext ==
    \/ open \/ close \/ back \/ startOver \/ applyAdd \/ applyReplace
    \/ \E k \in 0..2 : answer(k)
    \/ AddOne \/ EnableOne \/ RemoveOne \/ Applied \/ ApplyFails

ASpec == AInit /\ [][ANext]_avars

-----------------------------------------------------------------------------
(* Properties *)

ATypeOK ==
    /\ Len(userRows) = Cardinality({r.id : r \in Range(userRows)})
    /\ {r.id : r \in Range(userRows)} \subseteq PickIds /\ Len(panel.answers) <= QuestionCount
    /\ pickPending => Range(applying.add) \subseteq [template : ACTIVE_TEMPLATES, market : Markets]
                  /\ Range(applying.enable \o applying.remove) \subseteq PickIds

\* Applying a plan leaves every recommended strategy in place and enabled; adding touches no
\* other row, and replacing leaves nothing but the recommended ones.
AppliedAsRecommended ==
    outcome.ended = "done" /\ ~pickPending =>
        LET now == {[k |-> Key(r), on |-> r.enabled] : r \in Range(userRows)}
        IN /\ \A k \in outcome.recs : [k |-> k, on |-> TRUE] \in now
           /\ outcome.replace /\ outcome.clean => {r.k : r \in now} = outcome.recs
           /\ ~outcome.replace => \A r \in Range(outcome.was) :
                Key(r) \notin outcome.recs => r \in Range(userRows)

\* A replacement that fails half way has not yet removed anything unless all that is
\* recommended is already in place: the user is never left with less than one of the two.
NeverLeftWithout ==
    outcome.ended \in {"not yet", "failed"} =>
        \/ \A r \in Range(outcome.was) : \E s \in Range(userRows) : s.id = r.id
        \/ \A k \in outcome.recs : \E s \in Range(userRows) : Key(s) = k /\ s.enabled
=============================================================================
