---------------------------- MODULE StrategyPage ----------------------------
(***************************************************************************)
(* The strategies page of one user (components/StrategyManager.tsx) and    *)
(* the server actions behind it (app/actions.ts, lib/queries.ts): cards,   *)
(* parameters and coins, adding to several coins at once, the list with    *)
(* its tick boxes, and the capital split. The page works on the rows of    *)
(* its last refresh; every server action is split at each database call;   *)
(* another tab changes the same rows. A control that is not shown, or is   *)
(* shown disabled, cannot be used: the Shown operators follow the markup.  *)
(***************************************************************************)
EXTENDS Templates, SequencesExt

CONSTANTS Exchange,       \* the linked exchange
          TryTemplates,   \* bound: cards the user tries
          TryValues,      \* bound: numbers the user types, in thousandths
          TryMarkets,     \* bound: markets the user picks or types
          TryWeights,     \* bound: weights the user types
          Ids,            \* bound: row ids randomUUID produces
          MaxFailures,    \* bound: server calls that throw
          MaxOther,       \* bound: changes made in another tab
          MaxMoves        \* bound: clicks and keystrokes

\* The cards shown are those a user can pick; what is typed is a number.
ASSUME PageAssumption ==
    /\ TryTemplates \subseteq PickableTemplate /\ TryMarkets \subseteq Markets
    /\ TryValues \subseteq Int /\ TryWeights \subseteq Nat

VARIABLES rows,        \* user_strategies: id -> row
          shorting,    \* the Settings opt-in
          listed,      \* the rows the page was last rendered with
          card,        \* the template, its edits and the coins ticked for it
          selected,    \* ticked rows
          err,         \* an error is shown
          job,         \* the server action in flight
          split,       \* edits of the capital split
          splitJob,    \* weights being saved, or none
          failures, other, moves,   \* bounds
          previewed,   \* history: id -> what the preview of the card showed when the row was added
          confirmed    \* history: rows the user confirmed to remove

pageVars == <<rows, shorting, listed, card, selected, err, job, split, splitJob,
          failures, other, moves, previewed, confirmed>>

Empty == [i \in {} |-> 0]
NoJob == [op |-> "none"]
OpenCard(t) ==
    [tpl |-> t, edits |-> NoParams, markets |-> <<marketFor(Exchange, TEMPLATE_CONFIG[t].market)>>]

PageInit ==
    /\ rows = Empty /\ listed = Empty
    /\ shorting \in BOOLEAN
    /\ card \in {OpenCard(t) : t \in TryTemplates}
    /\ selected = {} /\ err = FALSE
    /\ job = NoJob /\ split = Empty /\ splitJob = Empty
    /\ failures = 0 /\ other = 0 /\ moves = 0
    /\ previewed = Empty /\ confirmed = {}

-----------------------------------------------------------------------------
(* What the page computes from its state *)

cfg == TEMPLATE_CONFIG[card.tpl]

\* Stock values with the edits over them, as the inputs show them.
InputsOf(c) == [k \in KeysIn(c) |-> IF k \in DOMAIN card.edits THEN card.edits[k] ELSE c.params[k]]
paramValues == InputsOf(cfg)

\* Mutant of diffsOf: what was typed is sent and simulated as it is.
DiffsUnclamped(c) == Genuine(c, InputsOf(c))

\* Genuine differences, clamped: what the preview simulates and the server is sent.
diffsOf(c) == LET values == InputsOf(c)
              IN Genuine(c, [k \in KeysIn(c) |-> Within(SpecIn(c, k), values[k])])
diffs == diffsOf(cfg)

customised == DOMAIN diffs # {}
BreaksRule(c, d) == paramRuleError(card.tpl, mergedParams(c, d))
ruleErr == BreaksRule(cfg, diffs)
tplShort == card.tpl \in SHORT_CAPABLE_TEMPLATES
shortLocked == tplShort /\ ~shorting
pending == job # NoJob
allSelected == DOMAIN listed # {} /\ Cardinality(selected) = Cardinality(DOMAIN listed)

\* The pane beside the parameters: a simulation only where the browser can run one.
Pane == IF tplShort THEN "long only"
        ELSE IF card.tpl \in EXPERIMENTAL_TEMPLATES THEN "engine only"
        ELSE IF card.markets # <<>> THEN "preview" ELSE "no market"

\* The parameters the preview runs with: stock while a rule is broken.
PreviewedIn(c, d) == mergedParams(c, IF BreaksRule(c, d) THEN NoParams ELSE d)
Previewed == PreviewedIn(cfg, diffs)

\* Cards and coins can be changed at any time; adding needs a coin, a legal set and the opt-in.
ShownCards == {"card"}
ShownCoins == {"coin", "typed coin"}
ShownParams == {"param"} \cup (IF customised THEN {"reset"} ELSE {})
ShownAdd == IF pending \/ card.markets = <<>> \/ ruleErr \/ shortLocked THEN {} ELSE {"add"}

\* The tools above the list: nothing without rows, removal only while some row is ticked.
ShownTools ==
    IF DOMAIN listed = {} THEN {}
    ELSE {"tick all"} \cup (IF selected # {} /\ ~pending THEN {"remove ticked", "clear"} ELSE {})

\* What each row offers: its tick box stays live while an action runs.
ShownRow == {"tick"} \cup (IF pending THEN {} ELSE {"toggle", "remove"})

\* The split appears with two enabled rows, its button once a weight really differs.
enabledRows == {i \in DOMAIN listed : listed[i].enabled}
weightShown(i) == IF i \in DOMAIN split THEN split[i] ELSE listed[i].weight
dirty == \E i \in enabledRows : i \in DOMAIN split /\ split[i] # listed[i].weight
ShownSplit ==
    IF Cardinality(enabledRows) < 2 THEN {}
    ELSE {"weight", "equal"} \cup (IF dirty /\ splitJob = Empty THEN {"save split"} ELSE {})

-----------------------------------------------------------------------------
(* Clicks *)

page == <<card, selected, err, split>>
server == <<rows, shorting, listed, job, splitJob, failures, other, previewed, confirmed>>
Move == moves < MaxMoves /\ moves' = moves + 1

pickTemplate(t) ==
    /\ Move /\ "card" \in ShownCards
    /\ card' = OpenCard(t)
    /\ UNCHANGED <<selected, err, split>> /\ UNCHANGED server

\* ParamInput: any finite number, rounded where the parameter is whole.
Edited(edits, s, v) ==
    [k \in DOMAIN edits \cup {s.key} |->
        IF k # s.key THEN edits[k] ELSE IF s.int THEN RoundTo(v, 1000) ELSE v]

EditParam(s, v) ==
    /\ Move /\ "param" \in ShownParams
    /\ card' = [card EXCEPT !.edits = Edited(card.edits, s, v)]
    /\ UNCHANGED <<selected, err, split>> /\ UNCHANGED server

ResetToStock ==
    /\ Move /\ "reset" \in ShownParams
    /\ card' = [card EXCEPT !.edits = NoParams]
    /\ UNCHANGED <<selected, err, split>> /\ UNCHANGED server

\* toggleMarket and addCustomMarket: the first coin is the one previewed. No coin is ticked
\* twice, so the filter drops one entry.
Unticked(markets, m) == RemoveAt(markets, CHOOSE i \in DOMAIN markets : markets[i] = m)

toggleMarket(m) ==
    /\ Move /\ "coin" \in ShownCoins
    /\ card' = [card EXCEPT !.markets = IF Contains(@, m) THEN Unticked(@, m) ELSE Append(@, m)]
    /\ UNCHANGED <<selected, err, split>> /\ UNCHANGED server

addCustomMarket(m) ==
    /\ Move /\ "typed coin" \in ShownCoins
    /\ err' = FALSE
    /\ card' = [card EXCEPT !.markets = IF Contains(@, m) THEN @ ELSE Append(@, m)]
    /\ UNCHANGED <<selected, split>> /\ UNCHANGED server

MalformedMarket ==
    /\ Move /\ "typed coin" \in ShownCoins
    /\ err' = TRUE
    /\ UNCHANGED <<card, selected, split>> /\ UNCHANGED server

toggleSelected(i) ==
    /\ Move /\ "tick" \in ShownRow /\ i \in DOMAIN listed
    /\ selected' = IF i \in selected THEN selected \ {i} ELSE selected \cup {i}
    /\ UNCHANGED <<card, err, split>> /\ UNCHANGED server

toggleSelectAll ==
    /\ Move /\ "tick all" \in ShownTools
    /\ selected' = IF Cardinality(selected) = Cardinality(DOMAIN listed)
                   THEN {} ELSE DOMAIN listed
    /\ UNCHANGED <<card, err, split>> /\ UNCHANGED server

ClearSelected ==
    /\ Move /\ "clear" \in ShownTools
    /\ selected' = {}
    /\ UNCHANGED <<card, err, split>> /\ UNCHANGED server

EqualSplit ==
    /\ Move /\ "equal" \in ShownSplit
    /\ split' = [i \in enabledRows |-> 1000]
    /\ UNCHANGED <<card, selected, err>> /\ UNCHANGED server

EditWeight(i, w) ==
    /\ Move /\ "weight" \in ShownSplit /\ i \in enabledRows /\ w > 0
    /\ split' = [j \in DOMAIN split \cup {i} |-> IF j = i THEN w ELSE split[j]]
    /\ UNCHANGED <<card, selected, err>> /\ UNCHANGED server

-----------------------------------------------------------------------------
(* Buttons that call the server. run(): the error is cleared, the buttons are disabled. *)

run(j) ==
    /\ Move /\ job' = j /\ err' = FALSE
    /\ UNCHANGED <<rows, shorting, listed, splitJob, failures, other, previewed>>

\* The full set for a short-capable template, the differences for any other.
AddStrategies ==
    /\ "add" \in ShownAdd
    /\ run([op |-> "add", tpl |-> card.tpl, markets |-> card.markets, checked |-> FALSE,
            params |-> IF tplShort THEN paramValues ELSE diffs, shown |-> Previewed])
    /\ UNCHANGED <<card, selected, split, confirmed>>

toggleStrategy(i) ==
    /\ "toggle" \in ShownRow /\ i \in DOMAIN listed
    /\ run([op |-> "toggle", id |-> i, enabled |-> ~listed[i].enabled])
    /\ UNCHANGED <<card, selected, split, confirmed>>

removeOne(i) ==
    /\ "remove" \in ShownRow /\ i \in DOMAIN listed
    /\ run([op |-> "remove", ids |-> {i}, ticked |-> FALSE])
    /\ confirmed' = confirmed \cup {i}
    /\ UNCHANGED <<card, selected, split>>

\* The ids are those ticked at the click; ticks set later do not join them.
removeSelected ==
    /\ "remove ticked" \in ShownTools
    /\ run([op |-> "remove", ids |-> selected, ticked |-> TRUE])
    /\ confirmed' = confirmed \cup selected
    /\ UNCHANGED <<card, selected, split>>

saveSplit ==
    /\ Move /\ "save split" \in ShownSplit
    /\ splitJob' = [i \in enabledRows |-> weightShown(i)]
    /\ UNCHANGED <<rows, shorting, listed, job, failures, other, previewed, confirmed>>
    /\ UNCHANGED page

-----------------------------------------------------------------------------
(* Server actions. Each ends in revalidatePath, which re-renders the page. *)

Refresh == listed' = rows'
Short(j) == j.tpl \in SHORT_CAPABLE_TEMPLATES
Finish == job' = NoJob
RowsWith(i, r) == [j \in DOMAIN rows \cup {i} |-> IF j = i THEN r ELSE rows[j]]
Without(I) == [j \in DOMAIN rows \ I |-> rows[j]]
others == <<shorting, splitJob, other, moves, confirmed>>

\* addStrategiesAction: consent and every item are checked before the first insert.
AddChecked ==
    /\ job.op = "add" /\ ~job.checked
    /\ (Short(job) => shorting) /\ prepareStrategyInsert(job.tpl, job.params).ok
    /\ job' = [job EXCEPT !.checked = TRUE]
    /\ UNCHANGED <<rows, listed, card, selected, err, split, failures, previewed>>
    /\ UNCHANGED others

\* ... then one row is inserted per call, enabled: no tier caps the enabled rows.
addStrategy(i) ==
    /\ job.op = "add" /\ job.checked /\ job.markets # <<>> /\ i \in Ids \ DOMAIN previewed
    /\ rows' = RowsWith(i, [template |-> job.tpl, market |-> marketFor(Exchange, Head(job.markets)),
                            params |-> prepareStrategyInsert(job.tpl, job.params).params,
                            enabled |-> TRUE, weight |-> 1000])
    /\ previewed' = [j \in DOMAIN previewed \cup {i} |-> IF j = i THEN job.shown ELSE previewed[j]]
    /\ IF Len(job.markets) = 1 THEN Finish /\ Refresh
       ELSE job' = [job EXCEPT !.markets = Tail(@)] /\ UNCHANGED listed
    /\ UNCHANGED <<card, selected, err, split, failures>> /\ UNCHANGED others

\* Mutant of setStrategyEnabled: the page is not re-rendered.
EnabledUnseen ==
    /\ job.op = "toggle"
    /\ rows' = IF job.id \in DOMAIN rows THEN [rows EXCEPT ![job.id].enabled = job.enabled]
               ELSE rows
    /\ Finish
    /\ UNCHANGED <<listed, card, selected, err, split, failures, previewed>> /\ UNCHANGED others

setStrategyEnabled ==
    /\ job.op = "toggle"
    /\ rows' = IF job.id \in DOMAIN rows THEN [rows EXCEPT ![job.id].enabled = job.enabled]
               ELSE rows
    /\ Finish /\ Refresh
    /\ UNCHANGED <<card, selected, err, split, failures, previewed>> /\ UNCHANGED others

\* Mutant of removeStrategy: the ticks of the moment decide.
RemoveTicked(i) ==
    /\ job.op = "remove" /\ i \in selected \cup job.ids
    /\ rows' = Without({i}) /\ Refresh
    /\ job' = [job EXCEPT !.ids = @ \ {i}]
    /\ UNCHANGED <<selected, card, err, split, failures, previewed>> /\ UNCHANGED others

\* One call per row, in turn; the ticks are cleared after the last.
removeStrategy(i) ==
    /\ job.op = "remove" /\ i \in job.ids
    /\ rows' = Without({i}) /\ Refresh
    /\ IF job.ids = {i} THEN Finish ELSE job' = [job EXCEPT !.ids = @ \ {i}]
    /\ selected' = IF job.ids = {i} /\ job.ticked THEN {} ELSE selected
    /\ UNCHANGED <<card, err, split, failures, previewed>> /\ UNCHANGED others

\* A call throws: the error is shown, what was written stays, nothing is re-rendered.
ActionFails ==
    /\ pending
    /\ \/ failures < MaxFailures /\ failures' = failures + 1
       \/ /\ job.op = "add" /\ ~job.checked
          /\ ~(Short(job) => shorting) \/ ~prepareStrategyInsert(job.tpl, job.params).ok
          /\ failures' = failures
    /\ Finish /\ err' = TRUE
    /\ UNCHANGED <<rows, listed, card, selected, split, previewed>> /\ UNCHANGED others

\* setStrategyWeights: rows that are gone are not touched.
setStrategyWeights ==
    /\ splitJob # Empty
    /\ rows' = [i \in DOMAIN rows |-> IF i \in DOMAIN splitJob
                    THEN [rows[i] EXCEPT !.weight = splitJob[i]] ELSE rows[i]]
    /\ Refresh /\ splitJob' = Empty /\ split' = Empty
    /\ UNCHANGED <<shorting, card, selected, err, job, failures, other, moves, previewed, confirmed>>

\* Its updates run side by side: a failure may leave any of them done.
WeightsFail ==
    /\ splitJob # Empty /\ failures < MaxFailures /\ failures' = failures + 1
    /\ \E done \in SUBSET DOMAIN splitJob :
        rows' = [i \in DOMAIN rows |-> IF i \in done
                    THEN [rows[i] EXCEPT !.weight = splitJob[i]] ELSE rows[i]]
    /\ splitJob' = Empty
    /\ UNCHANGED <<shorting, listed, card, selected, err, job, split, other, moves, previewed, confirmed>>

\* Another tab removes or toggles a row, or changes the opt-in.
OtherTab ==
    /\ other < MaxOther /\ other' = other + 1
    /\ \/ \E i \in DOMAIN rows : rows' = Without({i}) /\ UNCHANGED shorting
       \/ \E i \in DOMAIN rows :
            rows' = [rows EXCEPT ![i].enabled = ~@] /\ UNCHANGED shorting
       \/ shorting' = ~shorting /\ UNCHANGED rows
    /\ UNCHANGED <<listed, job, splitJob, failures, moves, previewed, confirmed>>
    /\ UNCHANGED page

Clicks ==
    \/ \E t \in TryTemplates : pickTemplate(t)
    \/ \E s \in cfg.editable, v \in TryValues : EditParam(s, v)
    \/ ResetToStock \/ MalformedMarket
    \/ \E m \in TryMarkets : toggleMarket(m) \/ addCustomMarket(m)
    \/ \E i \in Ids : toggleSelected(i) \/ toggleStrategy(i) \/ removeOne(i)
    \/ toggleSelectAll \/ ClearSelected \/ removeSelected \/ AddStrategies
    \/ EqualSplit \/ saveSplit
    \/ \E i \in Ids, w \in TryWeights : EditWeight(i, w)

ServerActions ==
    \/ AddChecked \/ setStrategyEnabled \/ ActionFails \/ setStrategyWeights \/ WeightsFail
    \/ \E i \in Ids : addStrategy(i) \/ removeStrategy(i)

PageNext == Clicks \/ ServerActions \/ OtherTab

PageSpec == PageInit /\ [][PageNext]_pageVars

-----------------------------------------------------------------------------
(* Properties *)

PageTypeOK ==
    /\ DOMAIN rows \subseteq Ids /\ DOMAIN listed \subseteq Ids
    /\ selected \subseteq Ids /\ confirmed \subseteq Ids
    /\ \A i \in DOMAIN rows : [rows[i] EXCEPT !.params = 0] \in
            [template : TryTemplates, market : Markets, params : {0}, enabled : BOOLEAN, weight : Nat]
    /\ card.tpl \in TryTemplates /\ DOMAIN card.edits \subseteq KeysIn(cfg)
    /\ IsInjective(card.markets)
    /\ job.op \in {"none", "add", "toggle", "remove"}
    /\ {err, shorting} \subseteq BOOLEAN

\* The engine runs a row with exactly the parameters its preview showed: through the form's
\* rounding, the clamping of the page, the server's gate and the worker's coercion.
RunsAsPreviewed ==
    \A i \in DOMAIN rows :
        LET r == rows[i] IN
        r.template \in BUILTIN_TEMPLATES => EngineParams(r.template, r.params) = previewed[i]

\* Every stored set of parameters satisfies the rules of its template as the engine reads it, and
\* a short-capable row carries the bracket the engine will put in force.
LegalAs(r, c, p) ==
    /\ ~paramRuleError(r.template, p)
    /\ \A s \in c.editable : p[s.key] \in s.min..s.max
    /\ r.template \in SHORT_CAPABLE_TEMPLATES =>
        LET exits == EngineExits(r.template, c.exits, p)
        IN exits.stop = r.params.stop_loss_pct /\ exits.target = r.params.take_profit_pct
StoredIsLegal ==
    \A i \in DOMAIN rows :
        LegalAs(rows[i], TEMPLATE_CONFIG[rows[i].template],
                EngineParams(rows[i].template, rows[i].params))

\* This tab removes only rows the user confirmed, whatever is ticked while a removal runs
\* (StrategyManager.tsx:177-189).
RemovesConfirmed ==
    [][other' = other => \A i \in DOMAIN rows \ DOMAIN rows' : i \in confirmed]_pageVars

\* Unless a call failed or another tab acted, the idle page lists what is stored.
PageIsFresh == (failures = 0 /\ other = 0 /\ ~pending /\ splitJob = Empty) => listed = rows
=============================================================================
