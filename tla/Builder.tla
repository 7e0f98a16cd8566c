------------------------------ MODULE Builder ------------------------------
(***************************************************************************)
(* The strategy builder (components/StrategyBuilder.tsx): blocks and exits *)
(* edited as raw numbers, checked on every edit by the gate the server     *)
(* runs, replayed on four history windows and in a preview, and saved.     *)
(* The preview is on the page only while the definition passes the gate.   *)
(***************************************************************************)
EXTENDS CustomRules, Preview

CONSTANTS FirstPair,    \* the first of the exchange's markets
          TryKinds,     \* bound: kinds of block added
          TryNumbers,   \* bound: numbers typed, in thousandths of the field's unit
          TryFields,    \* bound: block fields edited
          TryExits,     \* bound: exit fields edited
          TryWindows,   \* bound: sets of windows that have candles
          MaxClicks,    \* bound: edits, picks and saves
          SaveIds,      \* bound: row ids
          SaveFailures  \* bound: saves that throw

WINDOWS == {"1d", "4h", "1h", "15m"}

VARIABLES def,       \* the definition as typed
          market,
          windows,   \* [of, loading, have]: the market's candles by window
          winAsked,  \* requests of windows: [of, alive]
          compareIv, addOpen,
          saving,    \* the save in flight, or nothing
          saved,     \* user_strategies: id -> [def, market]
          away,      \* the page moved on after a save
          saveFailures, clicks,   \* bounds
          seen       \* history: id -> the definition the preview simulated at the click

bvars == <<def, market, windows, winAsked, compareIv, addOpen, saving, saved, away, saveFailures, clicks, seen>>
allBuilder == <<bvars, pvars>>

-----------------------------------------------------------------------------
(* Computed *)

clean == sanitizeCustomDef(def)
NotSaving == [on |-> FALSE]
pending == saving.on

\* Rows of the two tables: one per window, and the templates of one window beside the user's own.
historic(iv) == clean.ok /\ iv \in windows.have
compare == clean.ok /\ compareIv \in windows.have
Unless(simulated) ==
    IF simulated THEN "simulated" ELSE IF windows.loading THEN "loading" ELSE "no data"
ShownHistoric == [iv \in IF clean.ok THEN WINDOWS ELSE {} |-> Unless(historic(iv))]
ShownCompare == Unless(compare)

ShownSave == IF pending \/ ~clean.ok THEN {} ELSE {"save"}
ShownRules == DOMAIN def.rules
ShownMenu == IF addOpen THEN Kinds ELSE {}
ShownAddButton == IF Len(def.rules) >= MAX_RULES THEN {} ELSE {"add"}
ShownPreview == clean.ok

-----------------------------------------------------------------------------
(* Edits. A press anywhere else closes the menu of blocks. *)

BInit ==
    /\ def = defaultCustomDef /\ market = FirstPair
    /\ windows = [of |-> market, loading |-> TRUE, have |-> {}]
    /\ winAsked = {[of |-> market, alive |-> TRUE]}
    /\ compareIv = "1d" /\ addOpen = FALSE /\ saving = NotSaving
    /\ saved = [i \in {} |-> 0] /\ away = FALSE /\ saveFailures = 0 /\ clicks = 0 /\ seen = [i \in {} |-> 0]
    /\ PInit(market)

Here == ~away
Click == Here /\ clicks < MaxClicks /\ clicks' = clicks + 1

\* An edit re-checks the definition at once: the preview is taken away, put back or replayed.
Rechecked(was, now) ==
    IF was.ok /\ now.ok THEN IF now = was THEN UNCHANGED pvars ELSE Resimulate
    ELSE IF now.ok THEN Mount(market)
    ELSE IF was.ok THEN Unmount ELSE UNCHANGED pvars
Edited(d) ==
    /\ Click /\ def' = d /\ Rechecked(clean, sanitizeCustomDef(d))
    /\ UNCHANGED <<market, windows, winAsked, compareIv, saving, saved, away, saveFailures, seen>>

toggleMenu ==
    /\ Click /\ ShownAddButton # {}   \* a disabled button does not close the menu either
    /\ addOpen' = ~addOpen
    /\ UNCHANGED <<def, market, windows, winAsked, compareIv, saving, saved, away, saveFailures, seen>>
    /\ UNCHANGED pvars

pressElsewhere ==
    /\ Here /\ addOpen /\ addOpen' = FALSE
    /\ UNCHANGED <<def, market, windows, winAsked, compareIv, saving, saved, away, saveFailures, clicks, seen>>
    /\ UNCHANGED pvars

AddRule(kind) ==
    /\ kind \in ShownMenu /\ addOpen' = FALSE
    /\ Edited([def EXCEPT !.rules = Append(@, newRule(kind))])

\* NumInput: a finite number, rounded where the field is whole; nothing is clamped here.
Typed(s, v) == IF s.int THEN RoundTo(v, 1000) ELSE v
EditRule(k, s, v) ==
    /\ k \in ShownRules /\ s \in KindSpec(def.rules[k]).fields /\ s.key \in TryFields
    /\ IF "options" \in DOMAIN s THEN v \in s.options ELSE v \in TryNumbers
    /\ Edited([def EXCEPT !.rules[k].f[s.key] = IF "options" \in DOMAIN s THEN v ELSE Typed(s, v)])
    /\ addOpen' = FALSE
removeRule(k) ==
    /\ k \in ShownRules /\ Edited([def EXCEPT !.rules = RemoveAt(@, k)])
    /\ addOpen' = FALSE

\* The stop and the target are typed in per cent and kept as shares of the price.
setExit(key, v) ==
    /\ Edited([def EXCEPT !.exits[key] =
                    IF key \in {"stop", "target"} THEN v \div 100
                    ELSE IF key = "hold" THEN RoundTo(v, 1000) \div 1000
                    ELSE IF key = "atr" THEN RoundTo(v, 1000) ELSE v])
    /\ addOpen' = FALSE

setMarket(m) ==
    /\ Click /\ m # market /\ market' = m /\ addOpen' = FALSE
    /\ windows' = [of |-> m, loading |-> TRUE, have |-> {}]
    /\ winAsked' = {[f EXCEPT !.alive = FALSE] : f \in winAsked} \cup {[of |-> m, alive |-> TRUE]}
    /\ IF ShownPreview THEN PickPair(m) ELSE UNCHANGED pvars
    /\ UNCHANGED <<def, compareIv, saving, saved, away, saveFailures, seen>>

setCompareIv(iv) ==
    /\ Click /\ compareIv' = iv /\ addOpen' = FALSE
    /\ UNCHANGED <<def, market, windows, winAsked, saving, saved, away, saveFailures, seen>>
    /\ UNCHANGED pvars

\* Mutant of WindowsArrive: the answer is kept whatever market it is for.
WindowsOfAny(f, got) ==
    /\ Here /\ f \in winAsked /\ winAsked' = winAsked \ {f}
    /\ windows' = [of |-> f.of, loading |-> FALSE, have |-> got]
    /\ UNCHANGED <<clicks, def, market, compareIv, addOpen, saving, saved, away, saveFailures, seen>>
    /\ UNCHANGED pvars

\* useWindows: one answer once every window has come or failed; a window may stay absent.
WindowsArrive(f, got) ==
    /\ Here /\ f \in winAsked /\ winAsked' = winAsked \ {f}
    /\ windows' = IF f.alive THEN [of |-> f.of, loading |-> FALSE, have |-> got] ELSE windows
    /\ UNCHANGED <<clicks, def, market, compareIv, addOpen, saving, saved, away, saveFailures, seen>>
    /\ UNCHANGED pvars

-----------------------------------------------------------------------------
(* Saving *)

save ==
    /\ Click /\ "save" \in ShownSave /\ addOpen' = FALSE
    /\ saving' = [on |-> TRUE, def |-> clean.def, market |-> market]
    /\ UNCHANGED <<def, market, windows, winAsked, compareIv, saved, away, saveFailures, seen>>
    /\ UNCHANGED pvars

\* addStrategiesAction runs the gate again and stores what it returns.
Saves(i) ==
    /\ pending /\ i \in SaveIds \ DOMAIN saved
    /\ sanitizeCustomDef(saving.def).ok
    /\ saved' = [j \in DOMAIN saved \cup {i} |->
                    IF j = i THEN [def |-> sanitizeCustomDef(saving.def).def, market |-> saving.market]
                    ELSE saved[j]]
    /\ seen' = [j \in DOMAIN seen \cup {i} |-> IF j = i THEN saving ELSE seen[j]]
    /\ saving' = NotSaving /\ away' = TRUE
    /\ asked' = Disowned /\ winAsked' = {[f EXCEPT !.alive = FALSE] : f \in winAsked}
    /\ UNCHANGED <<clicks, def, market, windows, compareIv, addOpen, saveFailures>>
    /\ UNCHANGED <<pair, interval, candles, status, drawn, hover, logPref>>

\* The call throws before the row is in, or its reply is lost after.
SaveFails ==
    /\ pending /\ saveFailures < SaveFailures /\ saveFailures' = saveFailures + 1
    /\ saving' = NotSaving
    /\ \/ UNCHANGED <<saved, seen>>
       \/ \E i \in SaveIds \ DOMAIN saved :
            /\ saved' = [j \in DOMAIN saved \cup {i} |->
                            IF j = i THEN [def |-> sanitizeCustomDef(saving.def).def, market |-> saving.market]
                            ELSE saved[j]]
            /\ seen' = [j \in DOMAIN seen \cup {i} |-> IF j = i THEN saving ELSE seen[j]]
    /\ UNCHANGED <<clicks, def, market, windows, winAsked, compareIv, addOpen, away>>
    /\ UNCHANGED pvars

\* Opened again, from the start: the requests on their way stay disowned.
OpenAgain ==
    /\ away /\ away' = FALSE
    /\ def' = defaultCustomDef /\ addOpen' = FALSE /\ compareIv' = "1d"
    /\ market' = FirstPair /\ windows' = [of |-> FirstPair, loading |-> TRUE, have |-> {}]
    /\ winAsked' = winAsked \cup {[of |-> FirstPair, alive |-> TRUE]}
    /\ Mount(FirstPair)
    /\ UNCHANGED <<clicks, saving, saved, saveFailures, seen>>

BNext ==
    \/ toggleMenu \/ pressElsewhere \/ save \/ SaveFails \/ OpenAgain
    \/ \E kind \in TryKinds : AddRule(kind)
    \/ \E k \in DOMAIN def.rules : removeRule(k)
    \/ \E k \in DOMAIN def.rules : \E s \in KindSpec(def.rules[k]).fields :
            \E v \in (IF "options" \in DOMAIN s THEN s.options ELSE TryNumbers) : EditRule(k, s, v)
    \/ \E key \in TryExits, v \in TryNumbers : setExit(key, v)
    \/ \E m \in Pairs : setMarket(m)
    \/ \E iv \in TryIntervals : setCompareIv(iv)
    \/ \E f \in winAsked, got \in TryWindows : WindowsArrive(f, got)
    \/ \E i \in SaveIds : Saves(i)
    \/ Here /\ PAnswers /\ UNCHANGED bvars
    \/ /\ Click /\ ShownPreview /\ PClicks
       /\ UNCHANGED <<def, market, windows, winAsked, compareIv, addOpen, saving, saved, away, saveFailures, seen>>

BSpec == BInit /\ [][BNext]_allBuilder

-----------------------------------------------------------------------------
(* Properties *)

BTypeOK ==
    /\ PTypeOK /\ market \in Pairs
    /\ {def.rules[k].kind : k \in DOMAIN def.rules} \subseteq Kinds /\ Len(def.rules) <= MAX_RULES
    /\ windows.have \subseteq WINDOWS /\ winAsked \subseteq [of : Pairs, alive : BOOLEAN]
    /\ DOMAIN saved \subseteq SaveIds /\ {addOpen, away, windows.loading} \subseteq BOOLEAN

\* Both analyses and the preview are about the market selected: figures are of its candles, and
\* "no data" is said only when its answer is in. The preview never shows another market.
AnalysisIsOfMarket ==
    Here => /\ {ShownCompare} \cup Range(ShownHistoric) # {"loading"} => windows.of = market
            /\ "no data" \in {ShownCompare} \cup Range(ShownHistoric) =>
                    ~\E f \in winAsked : f.alive
            /\ windows.loading <=> \E f \in winAsked : f.alive /\ f.of = market
            /\ ShownPreview => PreviewIsOfSelection /\ pair = market

\* A saved definition is the one that was simulated, survives the gate unchanged wherever it is
\* checked again, gives the engine the exits it shows, and always has a way out besides the stop.
SavedIsPreviewed ==
    \A i \in DOMAIN saved :
        LET d == saved[i].def IN
        /\ d = seen[i].def /\ saved[i].market = seen[i].market
        /\ sanitizeCustomDef(d) = [ok |-> TRUE, def |-> d]
        /\ engineCustomExits(d) = d.exits
        /\ \E key \in {"target", "trail", "hold"} : d.exits[key] > 0
        /\ \A k \in DOMAIN d.rules : d.rules[k].kind = "sma_cross" => d.rules[k].f.fast < d.rules[k].f.slow
        /\ Cardinality({k \in DOMAIN d.rules : d.rules[k].kind = "confirm"}) <= 1

=============================================================================
