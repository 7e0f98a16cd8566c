---------------------------- MODULE BuilderProofs ----------------------------
(***************************************************************************)
(* Proofs about the strategy builder with its preview, and about the       *)
(* replay behind every preview: what is analysed is of the market named,   *)
(* what is drawn lies inside the plot, and what is saved was previewed.    *)
(***************************************************************************)
EXTENDS MCStudio, SimulatorProofs

-----------------------------------------------------------------------------
(***************************************************************************)
(* The builder.  Two kinds of requests are on their way at once, those of  *)
(* the history windows and those of the preview, and each answer must find *)
(* out by itself whether it still counts.  The requests that are not       *)
(* disowned are all alike, one of each kind at most, and the status tells  *)
(* whether it is still awaited.                                            *)
(***************************************************************************)

BuildIntervals == TryIntervals \cup {"1d"}
WindowsRequest == [of : Pairs, alive : BOOLEAN]
PreviewRequest == [of : Pairs, iv : BuildIntervals, alive : BOOLEAN]

\* The windows are those of the market, and are loading until its one request is answered.
WindowsSide ==
  /\ {windows.loading, away} \subseteq BOOLEAN /\ market \in Pairs
  /\ windows.of = market
  /\ winAsked \subseteq WindowsRequest
  /\ \A f \in winAsked : f.alive => f.of = market /\ windows.loading /\ ~away
  /\ windows.loading /\ ~away => \E f \in winAsked : f.alive

\* The preview, whether it is on the page or not: a live request is of the selection, and so are
\* candles that count as loaded.
Requests ==
  /\ pair \in Pairs /\ interval \in BuildIntervals
  /\ asked \subseteq PreviewRequest
  /\ \A f \in asked : f.alive => f.of = pair /\ f.iv = interval /\ status = "loading"
LoadedIsSelected == status = "ok" => candles.of = pair /\ candles.iv = interval

\* A preview on the page shows the market of the builder, and loads only if a request is alive.
OnPage ==
  BUILD!ShownPreview /\ ~away =>
    pair = market /\ (status = "loading" => \E f \in asked : f.alive)

BuildInv == WindowsSide /\ Requests /\ LoadedIsSelected /\ OnPage

\* A request just sent.
LEMMA SentWindows ==
  ASSUME NEW p \in Pairs
  PROVE  \E w \in WindowsRequest : w = [of |-> p, alive |-> TRUE] /\ w.of = p /\ w.alive
<1> DEFINE w == [of |-> p, alive |-> TRUE]
<1>1. w \in WindowsRequest
  BY DEF WindowsRequest
<1>2. w.of = p /\ w.alive
  OBVIOUS
<1> WITNESS w \in WindowsRequest
<1> QED
  BY <1>2
LEMMA SentPreview ==
  ASSUME NEW p \in Pairs, NEW iv \in BuildIntervals
  PROVE  \E q \in PreviewRequest : /\ q = [of |-> p, iv |-> iv, alive |-> TRUE]
                                   /\ q.of = p /\ q.iv = iv /\ q.alive
<1> DEFINE q == [of |-> p, iv |-> iv, alive |-> TRUE]
<1>1. q \in PreviewRequest
  BY DEF PreviewRequest
<1>2. q.of = p /\ q.iv = iv /\ q.alive
  OBVIOUS
<1> WITNESS q \in PreviewRequest
<1> QED
  BY <1>2

\* A builder that has just asked for the windows of a market, beside disowned requests.
LEMMA AsksWindows ==
  ASSUME NEW p \in Pairs, NEW old,
         old \subseteq WindowsRequest, \A f \in old : ~f.alive, away' = FALSE, market' = p,
         windows' = [of |-> p, loading |-> TRUE, have |-> {}],
         winAsked' = old \cup {[of |-> p, alive |-> TRUE]}
  PROVE  WindowsSide'
<1>1. PICK w \in WindowsRequest : w = [of |-> p, alive |-> TRUE] /\ w.of = p /\ w.alive
  BY SentWindows
<1>2. winAsked' = old \cup {w}
  BY <1>1
<1>3. windows'.of = p /\ windows'.loading = TRUE
  OBVIOUS
<1> QED
  BY <1>1, <1>2, <1>3 DEF WindowsSide

\* One request of each kind is on its way at first.
LEMMA BuildStarts == ASSUME BUILD!BInit PROVE BuildInv
<1>1. PICK p \in Pairs : p = FirstPair
  BY BuilderAssumption
<1>2. /\ market = p /\ windows = [of |-> p, loading |-> TRUE, have |-> {}] /\ away = FALSE
      /\ winAsked = {[of |-> p, alive |-> TRUE]}
      /\ pair = p /\ interval = "1d" /\ status = "loading"
      /\ asked = {[of |-> p, iv |-> "1d", alive |-> TRUE]}
  BY <1>1 DEF BUILD!BInit, BUILD!PInit
<1>3. "1d" \in BuildIntervals
  BY DEF BuildIntervals
<1>4. PICK w \in WindowsRequest : w = [of |-> p, alive |-> TRUE] /\ w.of = p /\ w.alive
  BY SentWindows
<1>5. PICK q \in PreviewRequest : /\ q = [of |-> p, iv |-> "1d", alive |-> TRUE]
                                 /\ q.of = p /\ q.iv = "1d" /\ q.alive
  BY <1>3, SentPreview
<1>6. WindowsSide
  <2>1. windows.of = p /\ windows.loading = TRUE /\ winAsked = {w}
    BY <1>2, <1>4
  <2>2. market = p /\ away = FALSE
    BY <1>2
  <2> QED
    BY <1>4, <2>1, <2>2 DEF WindowsSide
<1>7. Requests
  BY <1>2, <1>3, <1>5 DEF Requests
<1> QED
  BY <1>2, <1>6, <1>7 DEF BuildInv, LoadedIsSelected, OnPage

\* Disowning leaves no request alive.
LEMMA Disowning ==
  ASSUME Requests
  PROVE  BUILD!Disowned \subseteq PreviewRequest /\ \A f \in BUILD!Disowned : ~f.alive
<1>1. ASSUME NEW g \in PreviewRequest
      PROVE  [g EXCEPT !.alive = FALSE] \in PreviewRequest /\ ~[g EXCEPT !.alive = FALSE].alive
  BY DEF PreviewRequest
<1> QED
  BY <1>1 DEF BUILD!Disowned, Requests
LEMMA DisowningWindows ==
  ASSUME winAsked \subseteq WindowsRequest
  PROVE  /\ {[f EXCEPT !.alive = FALSE] : f \in winAsked} \subseteq WindowsRequest
         /\ \A g \in {[f EXCEPT !.alive = FALSE] : f \in winAsked} : ~g.alive
<1>1. ASSUME NEW g \in WindowsRequest
      PROVE  [g EXCEPT !.alive = FALSE] \in WindowsRequest /\ ~[g EXCEPT !.alive = FALSE].alive
  BY DEF WindowsRequest
<1> QED
  BY <1>1

\* A new request disowns the others.
LEMMA Fetches ==
  ASSUME Requests, NEW p \in Pairs, NEW iv \in BuildIntervals, BUILD!Fetch(p, iv),
         pair' = p, interval' = iv
  PROVE  Requests' /\ LoadedIsSelected' /\ status' = "loading" /\ \E f \in asked' : f.alive
<1>1. asked' = BUILD!Disowned \cup {[of |-> p, iv |-> iv, alive |-> TRUE]} /\ status' = "loading"
  BY DEF BUILD!Fetch
<1>2. BUILD!Disowned \subseteq PreviewRequest /\ \A f \in BUILD!Disowned : ~f.alive
  BY Disowning
<1>3. PICK q \in PreviewRequest : /\ q = [of |-> p, iv |-> iv, alive |-> TRUE]
                                 /\ q.of = p /\ q.iv = iv /\ q.alive
  BY SentPreview
<1>4. Requests' /\ q \in asked'
  <2>1. asked' = BUILD!Disowned \cup {q}
    BY <1>1, <1>3
  <2> QED
    BY <1>1, <1>2, <1>3, <2>1 DEF Requests
<1> QED
  BY <1>1, <1>3, <1>4 DEF LoadedIsSelected

\* The preview is put on the page anew, taken away, or given another strategy.
LEMMA Mounts ==
  ASSUME Requests, NEW p \in Pairs, BUILD!Mount(p)
  PROVE  /\ Requests' /\ LoadedIsSelected' /\ pair' = p
         /\ status' = "loading" /\ \E f \in asked' : f.alive
<1>1. "1d" \in BuildIntervals
  BY DEF BuildIntervals
<1> QED
  BY <1>1, Fetches DEF BUILD!Mount

LEMMA Unmounts ==
  ASSUME Requests, LoadedIsSelected, BUILD!Unmount
  PROVE  Requests' /\ LoadedIsSelected'
<1>1. asked' = BUILD!Disowned /\ UNCHANGED <<pair, interval, candles, status>>
  BY DEF BUILD!Unmount
<1>2. BUILD!Disowned \subseteq PreviewRequest /\ \A f \in BUILD!Disowned : ~f.alive
  BY Disowning
<1> QED
  BY <1>1, <1>2 DEF Requests, LoadedIsSelected

\* An edit of the definition decides whether the preview is on the page.
LEMMA EditedKeeps == ASSUME BuildInv, NEW d, BUILD!Edited(d) PROVE BuildInv'
<1>1. /\ def' = d /\ BUILD!Rechecked(BUILD!clean, BUILD!sanitizeCustomDef(d))
      /\ UNCHANGED <<market, windows, winAsked, away>>
  BY DEF BUILD!Edited
<1>2. WindowsSide'
  BY <1>1 DEF BuildInv, WindowsSide
<1>3. BUILD!ShownPreview' <=> BUILD!sanitizeCustomDef(d).ok
  BY <1>1 DEF BUILD!ShownPreview, BUILD!clean
<1>4. CASE BUILD!Mount(market)
  BY <1>1, <1>2, <1>4, Mounts DEF BuildInv, OnPage, WindowsSide
<1>5. CASE ~BUILD!sanitizeCustomDef(d).ok /\ BUILD!Unmount
  BY <1>2, <1>3, <1>5, Unmounts DEF BuildInv, OnPage
<1>6. CASE /\ UNCHANGED <<pair, interval, candles, status, asked>>
           /\ BUILD!sanitizeCustomDef(d).ok => BUILD!clean.ok
  BY <1>1, <1>2, <1>3, <1>6 DEF BuildInv, Requests, LoadedIsSelected, OnPage, BUILD!ShownPreview
<1> QED
  BY <1>1, <1>4, <1>5, <1>6 DEF BUILD!Rechecked, BUILD!Resimulate, BUILD!pvars

\* Another market asks for its windows, and in the preview for its candles.
LEMMA MarketKeeps == ASSUME BuildInv, NEW m \in Pairs, BUILD!setMarket(m) PROVE BuildInv'
<1>1. /\ m # market /\ market' = m
      /\ windows' = [of |-> m, loading |-> TRUE, have |-> {}]
      /\ winAsked' = {[f EXCEPT !.alive = FALSE] : f \in winAsked} \cup {[of |-> m, alive |-> TRUE]}
      /\ IF BUILD!ShownPreview THEN BUILD!PickPair(m) ELSE UNCHANGED BUILD!pvars
      /\ UNCHANGED <<def, away>> /\ ~away
  BY DEF BUILD!setMarket, BUILD!Click, BUILD!Here
<1>2. PICK old : /\ old = {[f EXCEPT !.alive = FALSE] : f \in winAsked}
                 /\ old \subseteq WindowsRequest /\ \A f \in old : ~f.alive
  BY DisowningWindows DEF BuildInv, WindowsSide
<1>3. WindowsSide'
  <2>1. away' = FALSE
    BY <1>1 DEF BuildInv, WindowsSide
  <2> QED
    BY <1>1, <1>2, <2>1, AsksWindows
<1>4. BUILD!ShownPreview' <=> BUILD!ShownPreview
  BY <1>1 DEF BUILD!ShownPreview, BUILD!clean
<1>5. CASE BUILD!ShownPreview
  <2>1. pair' = m /\ BUILD!Fetch(m, interval) /\ interval' = interval
    BY <1>1, <1>5 DEF BUILD!PickPair
  <2> QED
    BY <1>1, <1>3, <2>1, Fetches DEF BuildInv, OnPage, Requests
<1>6. CASE ~BUILD!ShownPreview
  BY <1>1, <1>3, <1>4, <1>6 DEF BuildInv, Requests, LoadedIsSelected, OnPage, BUILD!pvars
<1> QED
  BY <1>5, <1>6

\* The windows' answer counts only if its request was not disowned, and it was the only such one.
LEMMA WindowsArriveKeeps ==
  ASSUME BuildInv, NEW f, NEW got, BUILD!WindowsArrive(f, got)
  PROVE  BuildInv'
<1>1. /\ ~away /\ f \in winAsked /\ winAsked' = winAsked \ {f}
      /\ windows' = IF f.alive THEN [of |-> f.of, loading |-> FALSE, have |-> got] ELSE windows
      /\ UNCHANGED <<def, market, away>> /\ UNCHANGED <<pair, interval, candles, status, asked>>
  BY DEF BUILD!WindowsArrive, BUILD!Here, BUILD!pvars
<1>2. WindowsSide'
  <2>1. CASE f.alive
    <3>1. \A g \in winAsked' : ~g.alive
      BY <1>1, <2>1 DEF BuildInv, WindowsSide, WindowsRequest
    <3> QED
      BY <1>1, <2>1, <3>1 DEF BuildInv, WindowsSide
  <2>2. CASE ~f.alive
    BY <1>1, <2>2 DEF BuildInv, WindowsSide
  <2> QED
    BY <2>1, <2>2
<1> QED
  BY <1>1, <1>2 DEF BuildInv, Requests, LoadedIsSelected, OnPage, BUILD!ShownPreview, BUILD!clean

\* So does the answer to the preview.
LEMMA ArrivesKeeps ==
  ASSUME BuildInv, NEW f, NEW a, BUILD!Arrives(f, a), UNCHANGED BUILD!bvars
  PROVE  BuildInv'
<1>1. /\ f \in asked /\ asked' = asked \ {f} /\ UNCHANGED <<pair, interval>>
      /\ UNCHANGED <<def, market, windows, winAsked, away>>
  BY DEF BUILD!Arrives, BUILD!bvars
<1>2. WindowsSide'
  BY <1>1 DEF BuildInv, WindowsSide
<1>3. CASE ~f.alive
  <2>1. UNCHANGED <<candles, status>>
    BY <1>3 DEF BUILD!Arrives
  <2> QED
    BY <1>1, <1>2, <1>3, <2>1
       DEF BuildInv, Requests, LoadedIsSelected, OnPage, BUILD!ShownPreview, BUILD!clean
<1>4. CASE f.alive
  <2>1. \A g \in asked' : ~g.alive
    BY <1>1, <1>4 DEF BuildInv, Requests, PreviewRequest
  <2>2. \/ candles' = [of |-> f.of, iv |-> f.iv, bars |-> a.bars] /\ status' = "ok"
        \/ status' = "error"
    BY <1>4 DEF BUILD!Arrives
  <2>3. f.of = pair /\ f.iv = interval
    BY <1>1, <1>4 DEF BuildInv, Requests
  <2>4. Requests' /\ LoadedIsSelected' /\ OnPage'
    BY <1>1, <2>1, <2>2, <2>3
       DEF BuildInv, Requests, LoadedIsSelected, OnPage, BUILD!ShownPreview, BUILD!clean
  <2> QED
    BY <1>2, <2>4 DEF BuildInv
<1> QED
  BY <1>3, <1>4

\* The controls of the preview.
LEMMA PreviewClicksKeep ==
  ASSUME BuildInv, BUILD!PClicks, UNCHANGED <<def, market, windows, winAsked, away>>
  PROVE  BuildInv'
<1>1. WindowsSide' /\ (BUILD!ShownPreview' <=> BUILD!ShownPreview)
  BY DEF BuildInv, WindowsSide, BUILD!ShownPreview, BUILD!clean
<1>2. ASSUME NEW iv \in TryIntervals, BUILD!setInterval(iv) PROVE BuildInv'
  <2>1. PICK p \in Pairs : p = pair
    BY DEF BuildInv, Requests
  <2>2. pair' = p /\ interval' = iv /\ BUILD!Fetch(p, iv) /\ iv \in BuildIntervals
    BY <1>2, <2>1 DEF BUILD!setInterval, BuildIntervals
  <2> QED
    BY <1>1, <2>1, <2>2, Fetches DEF BuildInv, OnPage
<1>3. CASE UNCHANGED <<pair, interval, candles, status, asked>>
  BY <1>1, <1>3 DEF BuildInv, Requests, LoadedIsSelected, OnPage
<1> QED
  BY <1>2, <1>3 DEF BUILD!PClicks, BUILD!HoverAt, BUILD!HoverOut, BUILD!setLogPref

\* A save that succeeds leaves the page, and all that was asked for with it.
LEMMA SavesKeeps == ASSUME BuildInv, NEW i, BUILD!Saves(i) PROVE BuildInv'
<1>1. /\ away' = TRUE /\ asked' = BUILD!Disowned
      /\ winAsked' = {[f EXCEPT !.alive = FALSE] : f \in winAsked}
      /\ UNCHANGED <<def, market, windows>> /\ UNCHANGED <<pair, interval, candles, status>>
  BY DEF BUILD!Saves
<1>2. winAsked' \subseteq WindowsRequest /\ \A f \in winAsked' : ~f.alive
  BY <1>1, DisowningWindows DEF BuildInv, WindowsSide
<1>3. asked' \subseteq PreviewRequest /\ \A f \in asked' : ~f.alive
  BY <1>1, Disowning DEF BuildInv
<1> QED
  BY <1>1, <1>2, <1>3 DEF BuildInv, WindowsSide, Requests, LoadedIsSelected, OnPage

\* Opened again, the page asks anew.
LEMMA OpensKeeps == ASSUME BuildInv, BUILD!OpenAgain PROVE BuildInv'
<1>1. PICK p \in Pairs : p = FirstPair
  BY BuilderAssumption
<1>2. /\ away /\ away' = FALSE /\ market' = p
      /\ windows' = [of |-> p, loading |-> TRUE, have |-> {}]
      /\ winAsked' = winAsked \cup {[of |-> p, alive |-> TRUE]} /\ BUILD!Mount(p)
  BY <1>1 DEF BUILD!OpenAgain
<1>3. PICK old : old = winAsked /\ old \subseteq WindowsRequest /\ \A f \in old : ~f.alive
  BY <1>2 DEF BuildInv, WindowsSide
<1>4. WindowsSide'
  BY <1>2, <1>3, AsksWindows
<1> QED
  BY <1>2, <1>4, Mounts DEF BuildInv, OnPage

\* The rest touches neither the requests nor what decides whether the preview is there.
LEMMA RestKeeps ==
  ASSUME BuildInv, UNCHANGED <<def, market, windows, winAsked, away>>,
         UNCHANGED <<pair, interval, candles, status, asked>>
  PROVE  BuildInv'
BY DEF BuildInv, WindowsSide, Requests, LoadedIsSelected, OnPage, BUILD!ShownPreview, BUILD!clean

\* Every step of the builder keeps both kinds of requests in order.
LEMMA BuildSteps == ASSUME BuildInv, [BUILD!BNext]_buildVars PROVE BuildInv'
<1>1. CASE BUILD!toggleMenu \/ BUILD!pressElsewhere \/ BUILD!save \/ BUILD!SaveFails
  BY <1>1, RestKeeps
     DEF BUILD!toggleMenu, BUILD!pressElsewhere, BUILD!save, BUILD!SaveFails, BUILD!pvars
<1>2. ASSUME NEW kind, BUILD!AddRule(kind) PROVE BuildInv'
  BY <1>2, EditedKeeps DEF BUILD!AddRule
<1>3. ASSUME NEW k, BUILD!removeRule(k) PROVE BuildInv'
  BY <1>3, EditedKeeps DEF BUILD!removeRule
<1>4. ASSUME NEW k, NEW s, NEW v, BUILD!EditRule(k, s, v) PROVE BuildInv'
  BY <1>4, EditedKeeps DEF BUILD!EditRule
<1>5. ASSUME NEW key, NEW v, BUILD!setExit(key, v) PROVE BuildInv'
  BY <1>5, EditedKeeps DEF BUILD!setExit
<1>6. ASSUME NEW iv, BUILD!setCompareIv(iv) PROVE BuildInv'
  BY <1>6, RestKeeps DEF BUILD!setCompareIv, BUILD!pvars
<1>7. CASE BUILD!PAnswers /\ UNCHANGED BUILD!bvars
  BY <1>7, ArrivesKeeps DEF BUILD!PAnswers
<1>8. CASE BUILD!PClicks /\ UNCHANGED <<def, market, windows, winAsked, away>>
  BY <1>8, PreviewClicksKeep
<1>9. CASE UNCHANGED buildVars
  BY <1>9, RestKeeps DEF buildVars
<1> QED
  BY <1>1, <1>2, <1>3, <1>4, <1>5, <1>6, <1>7, <1>8, <1>9, MarketKeeps, WindowsArriveKeeps,
     SavesKeeps, OpensKeeps
     DEF BUILD!BNext

\* Requests of the builder and its preview, through edits, picks, saves and reopening.
THEOREM BuildInvariant == StudioSpec => []BuildInv
<1>1. StudioInit => BuildInv
  BY BuildStarts DEF StudioInit
<1>2. BuildInv /\ [StudioNext]_studioVars => BuildInv'
  <2>1. [StudioNext]_studioVars => [BUILD!BNext]_buildVars
    BY DEF StudioNext, studioVars
  <2> QED
    BY <2>1, BuildSteps
<1> QED
  BY <1>1, <1>2, PTL DEF StudioSpec

\* In whatever order answers arrive, both analyses and the preview are about the market selected,
\* "no data" is said only once its answer is in, and no more than one request of each kind counts.
THEOREM AnalysisIsOfMarketCorrect == StudioSpec => [](BUILD!AnalysisIsOfMarket)
<1>1. BuildInv => BUILD!AnalysisIsOfMarket
  <2> SUFFICES ASSUME BuildInv, ~away PROVE BUILD!AnalysisIsOfMarket
    BY DEF BUILD!AnalysisIsOfMarket, BUILD!Here
  <2>1. windows.of = market
    BY DEF BuildInv, WindowsSide
  <2>2. windows.loading <=> \E f \in winAsked : f.alive /\ f.of = market
    BY DEF BuildInv, WindowsSide
  <2>3. ASSUME windows.loading
        PROVE  "no data" \notin {BUILD!ShownCompare} \cup BUILD!Range(BUILD!ShownHistoric)
    <3>1. \A b \in BOOLEAN : BUILD!Unless(b) # "no data"
      BY <2>3 DEF BUILD!Unless
    <3>2. BUILD!ShownCompare # "no data"
      BY <3>1 DEF BUILD!ShownCompare, BUILD!compare
    <3>3. \A iv \in DOMAIN BUILD!ShownHistoric : BUILD!ShownHistoric[iv] # "no data"
      BY <3>1 DEF BUILD!ShownHistoric, BUILD!historic
    <3> QED
      BY <3>2, <3>3 DEF BUILD!Range
  <2>4. \A f \in winAsked : f.alive => windows.loading
    BY DEF BuildInv, WindowsSide
  <2>5. ASSUME BUILD!ShownPreview PROVE BUILD!PreviewIsOfSelection /\ pair = market
    <3>1. BUILD!Shown # {} => status = "ok"
      BY DEF BUILD!Shown, BUILD!ShownHeader, BUILD!ShownStats, BUILD!ShownFolds, BUILD!ShownPlot
    <3>2. \A f \in asked : f.alive => f.of = pair /\ f.iv = interval /\ status = "loading"
      BY DEF BuildInv, Requests
    <3>3. pair = market /\ (status = "loading" => \E f \in asked : f.alive)
      BY <2>5 DEF BuildInv, OnPage
    <3> QED
      BY <3>1, <3>2, <3>3 DEF BuildInv, LoadedIsSelected, BUILD!PreviewIsOfSelection
  <2> QED
    BY <2>1, <2>2, <2>3, <2>4, <2>5, Zenon DEF BUILD!AnalysisIsOfMarket
<1> QED
  BY <1>1, BuildInvariant, PTL

-----------------------------------------------------------------------------
(***************************************************************************)
(* The replay, as a machine of the studio: no other one moves it, so what  *)
(* is proved of it alone (SimulatorProofs) holds here.                     *)
(***************************************************************************)

\* The inductive invariant of the replay: order of the trades, limit of the hold, the bars
\* counted as exposure, and parameters that the cross-field rules accept (strategy-sim.ts).
THEOREM ReplayInvariant == StudioSpec => []SimInv
<1>1. StudioInit => SimInv
  BY SimStarts DEF StudioInit
<1>2. SimInv /\ [StudioNext]_studioVars => SimInv'
  <2>1. [StudioNext]_studioVars => [SimNext]_simVars
    BY DEF StudioNext, studioVars
  <2> QED
    BY <2>1, SimSteps
<1> QED
  BY <1>1, <1>2, PTL DEF StudioSpec

\* What users see while building is what trades: once warm, the builder's evaluator and the
\* bot's answer alike, for every definition, whatever its periods, and every history
\* (custom.py, custom-strategy.ts).
THEOREM LockStepCorrect == StudioSpec => []LockStep
<1>1. SimInv => LockStep
  BY ReplayIsHonest
<1> QED
  BY <1>1, ReplayInvariant, PTL

\* What a preview reports of its trades, exposure, folds and recurring buys adds up, and its
\* chart explains what it entered, for every template, parameters, exits and candles.
THEOREM ReplayHonestCorrect == StudioSpec => []ReplayHonest
<1>1. SimInv => ReplayHonest
  BY ReplayIsHonest DEF ReplayHonest
<1> QED
  BY <1>1, ReplayInvariant, PTL

-----------------------------------------------------------------------------
(* The preview's chart *)

\* The builder's copies of the operators on fractions are these.
LEMMA SameFractions ==
  /\ \A x, y : BUILD!Less(x, y) = Less(x, y) /\ BUILD!AtMost(x, y) = AtMost(x, y)
  /\ \A x, y : BUILD!Plus(x, y) = Plus(x, y) /\ BUILD!Minus(x, y) = Minus(x, y)
  /\ \A x, y : BUILD!Times(x, y) = Times(x, y) /\ BUILD!Frac(x, y) = Frac(x, y)
  /\ \A x : BUILD!Whole1(x) = Whole1(x) /\ BUILD!Abs(x) = Abs(x)
<1>1. BUILD!gcd = gcd
  BY DEF BUILD!gcd, gcd
<1>2. \A x : BUILD!Abs(x) = Abs(x)
  BY DEF BUILD!Abs, Abs
<1>3. \A x, y : BUILD!Frac(x, y) = Frac(x, y)
  BY <1>1, <1>2 DEF BUILD!Frac, Frac
<1>4. \A x, y : BUILD!Plus(x, y) = Plus(x, y) /\ BUILD!Times(x, y) = Times(x, y)
  BY <1>3 DEF BUILD!Plus, Plus, BUILD!Times, Times
<1>5. \A x, y : BUILD!Minus(x, y) = Minus(x, y)
  BY <1>4 DEF BUILD!Minus, Minus
<1>6. \A x, y : BUILD!Less(x, y) = Less(x, y) /\ BUILD!AtMost(x, y) = AtMost(x, y)
  BY DEF BUILD!Less, Less, BUILD!AtMost, AtMost
<1>7. \A x : BUILD!Whole1(x) = Whole1(x)
  BY DEF BUILD!Whole1, Whole1
<1> QED
  BY <1>2, <1>3, <1>4, <1>5, <1>6, <1>7

\* A point of the scale is inside it: padding is never negative, and never nothing.
LEMMA ScaleHolds ==
  ASSUME NEW lo \in Int, NEW hi \in Int, NEW v \in Int, lo <= v, v <= hi
  PROVE  LET p == BUILD!padded([lo |-> lo, hi |-> hi])
             span == Minus(p.hi, p.lo)
             y == Times(Minus(p.hi, Whole1(v)), <<span[2], span[1]>>)
         IN AtMost(Whole1(0), y) /\ AtMost(y, Whole1(1))
<1> DEFINE r == [lo |-> lo, hi |-> hi]
           pad == IF hi > lo THEN Frac(7 * (hi - lo), 100)
                  ELSE IF hi # 0 THEN Frac(6 * Abs(hi), 100) ELSE Whole1(1)
           p == BUILD!padded(r)
           span == Minus(p.hi, p.lo)
           y == Times(Minus(p.hi, Whole1(v)), <<span[2], span[1]>>)
<1>1. p = [lo |-> Minus(Whole1(lo), pad), hi |-> Plus(Whole1(hi), pad)]
  BY SameFractions DEF BUILD!padded
<1>2. PICK a \in Nat \ {0}, b \in Nat \ {0} : Ratio(pad, a, b)
  <2>1. CASE hi > lo
    <3>1. 7 * (hi - lo) \in Nat \ {0} /\ 7 * (hi - lo) \in Int /\ 100 \in Nat \ {0}
      BY <2>1
    <3>2. Ratio(Frac(7 * (hi - lo), 100), 7 * (hi - lo), 100)
      BY <3>1, FracRatio
    <3> QED
      BY <2>1, <3>1, <3>2
  <2>2. CASE ~(hi > lo) /\ hi # 0
    <3>1. 6 * Abs(hi) \in Nat \ {0} /\ 6 * Abs(hi) \in Int /\ 100 \in Nat \ {0}
      BY <2>2 DEF Abs
    <3>2. Ratio(Frac(6 * Abs(hi), 100), 6 * Abs(hi), 100)
      BY <3>1, FracRatio
    <3> QED
      BY <2>2, <3>1, <3>2
  <2>3. CASE ~(hi > lo) /\ hi = 0
    <3>1. Ratio(Whole1(1), 1, 1) /\ 1 \in Nat \ {0}
      BY WholeRatio
    <3> QED
      BY <2>3, <3>1
  <2> QED
    BY <2>1, <2>2, <2>3
<1> HIDE DEF pad
<1>3. Ratio(p.lo, lo * b - a * 1, 1 * b) /\ Ratio(p.hi, hi * b + a * 1, 1 * b)
  <2>1. Ratio(Whole1(lo), lo, 1) /\ Ratio(Whole1(hi), hi, 1)
    BY WholeRatio
  <2>2. Ratio(Minus(Whole1(lo), pad), lo * b - a * 1, 1 * b)
    BY <1>2, <2>1, MinusRatio
  <2>3. Ratio(Plus(Whole1(hi), pad), hi * b + a * 1, 1 * b)
    BY <1>2, <2>1, PlusRatio
  <2> QED
    BY <1>1, <2>2, <2>3
<1> HIDE DEF p
<1>4. PICK L \in Int, H \in Int : L = lo * b - a /\ H = hi * b + a
  OBVIOUS
<1>5. Ratio(p.lo, L, b) /\ Ratio(p.hi, H, b)
  BY <1>3, <1>4
<1>6. L < H /\ L <= v * b /\ v * b <= H
  <2>1. lo * b <= v * b /\ v * b <= hi * b
    OBVIOUS
  <2> QED
    BY <1>4, <2>1
<1>7. Ratio(span, H * b - L * b, b * b)
  BY <1>5, MinusRatio
<1>8. H * b - L * b > 0
  <2>1. L * b < H * b
    BY <1>6, Multiples
  <2> QED
    BY <2>1
<1>9. PICK S \in Nat \ {0}, B \in Nat \ {0} : S = H * b - L * b /\ B = b * b
  <2>1. b * b \in Nat \ {0}
    OBVIOUS
  <2> QED
    BY <1>8, <2>1
<1>10. Ratio(<<span[2], span[1]>>, B, S)
  BY <1>7, <1>9, InverseRatio
<1>11. Ratio(Minus(p.hi, Whole1(v)), H * 1 - v * b, b * 1)
  <2>1. Ratio(Whole1(v), v, 1)
    BY WholeRatio
  <2> QED
    BY <1>5, <2>1, MinusRatio
<1>12. PICK U \in Int : U = H - v * b
  OBVIOUS
<1>13. Ratio(Minus(p.hi, Whole1(v)), U, b)
  BY <1>11, <1>12
<1> HIDE DEF span
<1>14. Ratio(y, U * B, b * S)
  BY <1>10, <1>13, TimesRatio
<1>15. 0 <= U * B /\ U * B <= b * S
  <2>1. 0 <= U /\ U <= H - L
    BY <1>6, <1>12
  <2>2. 0 <= U * B
    BY <1>9, <2>1
  <2>3. U * B <= (H - L) * B
    BY <1>9, <2>1
  <2>4. b * S = (H - L) * B
    <3>1. S = (H - L) * b
      BY <1>9
    <3> QED
      BY <1>9, <3>1
  <2> QED
    BY <2>2, <2>3, <2>4
<1>16. PICK N \in Int, D \in Nat \ {0} : N = U * B /\ D = b * S
  <2>1. b * S \in Nat \ {0}
    BY <1>9
  <2> QED
    BY <2>1
<1> HIDE DEF y
<1>17. Ratio(Whole1(0), 0, 1) /\ Ratio(Whole1(1), 1, 1) /\ Ratio(y, N, D)
  BY <1>14, <1>16, WholeRatio
<1>18. Less(y, Whole1(0)) <=> N * 1 < 0 * D
  BY <1>17, LessRatio
<1>19. Less(Whole1(1), y) <=> 1 * D < N * 1
  BY <1>17, LessRatio
<1>20. AtMost(Whole1(0), y) /\ AtMost(y, Whole1(1))
  BY <1>15, <1>16, <1>18, <1>19 DEF AtMost
<1> QED
  BY <1>20 DEF y, span, p

\* The bar nearest to the centre of a bar is that bar.
LEMMA PointsAtBar ==
  ASSUME BUILD!n \in Nat, NEW i \in 1 .. BUILD!n
  PROVE  BUILD!onMove(BUILD!xOf(i)) = i
<1> DEFINE n == BUILD!n
           x == BUILD!xOf(i)
<1>1. x = Frac(2 * i - 1, 2 * n)
  BY SameFractions DEF BUILD!xOf
<1>2. 2 * i - 1 \in Int /\ 2 * n \in Nat \ {0}
  OBVIOUS
<1> HIDE DEF n, x
<1>3. Ratio(x, 2 * i - 1, 2 * n)
  BY <1>1, <1>2, FracRatio
<1>4. n \in Nat /\ i \in 1 .. n
  BY DEF n
<1>5. PICK a \in Int, b \in Nat \ {0} : a = x[1] /\ b = x[2] /\ a * (2 * n) = (2 * i - 1) * b
  BY <1>3 DEF Ratio
<1>6. (a * n) \div b = i - 1
  <2>1. 2 * (a * n) = (2 * i - 1) * b
    BY <1>4, <1>5
  <2>2. (i - 1) * b <= a * n /\ a * n < i * b
    <3>1. (2 * i - 1) * b = 2 * (i * b) - b /\ (i - 1) * b = i * b - b
      BY <1>4
    <3>2. a * n \in Int /\ i * b \in Int
      BY <1>4
    <3> QED
      BY <2>1, <3>1, <3>2
  <2>3. PICK m \in Int, t \in Int : m = a * n - (i - 1) * b /\ t = i - 1
    BY <1>4
  <2>4. 0 <= m /\ m < b /\ a * n = b * t + m
    <3>1. i * b = t * b + b /\ (i - 1) * b = b * t /\ t * b = b * t
      BY <1>4, <2>3
    <3>2. a * n \in Int /\ t * b \in Int
      BY <1>4
    <3> QED
      BY <2>2, <2>3, <3>1, <3>2
  <2>5. ASSUME NEW w \in Int, w = b * t + m PROVE w \div b = t
    BY <2>4, <2>5
  <2> QED
    BY <1>4, <2>3, <2>4, <2>5
<1>7. BUILD!onMove(x) = Max({1, Min({n, i})})
  BY <1>4, <1>5, <1>6 DEF BUILD!onMove, n, BUILD!Max, Max, BUILD!Min, Min
<1>8. Min({n, i}) = i
  BY <1>4 DEF Min
<1>9. Max({1, i}) = i
  BY <1>4 DEF Max
<1> QED
  BY <1>7, <1>8, <1>9 DEF x

\* Every candle, level and mark of what was simulated over the candles at hand is inside the plot.
DataOK ==
  /\ \/ candles.bars = <<>>
     \/ \E p \in DOMAIN Klines, iv \in TryIntervals : candles.bars = Klines[p][iv]
  /\ drawn \in BUILD!sim(candles.bars)

\* What there is to draw: numbers in order, levels, and trades one after the other.
LEMMA Drawable ==
  ASSUME DataOK, candles.bars # <<>>
  PROVE  /\ candles.bars \in Seq({b \in [l : Int, h : Int] : b.l <= b.h})
         /\ Len(candles.bars) \in Nat \ {0}
         /\ IsFiniteSet(drawn.levels) /\ drawn.levels \subseteq Int
         /\ Replayed(drawn.trades, Len(candles.bars))
<1>1. PICK p \in DOMAIN Klines, iv \in TryIntervals : candles.bars = Klines[p][iv]
  BY DEF DataOK
<1>2. PICK b : b = Klines[p][iv]
  OBVIOUS
<1>3. /\ b \in Seq({x \in [l : Int, h : Int] : x.l <= x.h}) /\ b # <<>>
      /\ \A ts \in Trades[Len(b)] : Replayed(ts, Len(b))
      /\ \A ls \in Lines[Len(b)] : IsFiniteSet(ls) /\ ls \subseteq Int
  BY <1>1, <1>2, BuilderAssumption
<1>4. PICK t \in Trades[Len(b)], ls \in Lines[Len(b)] : drawn = [trades |-> t, levels |-> ls]
  BY <1>1, <1>2, <1>3 DEF DataOK, BUILD!sim
<1>5. drawn.trades = t /\ drawn.levels = ls
  BY <1>4
<1>6. candles.bars = b
  BY <1>1, <1>2
<1>7. Len(b) \in Nat \ {0}
  BY <1>3
<1> QED
  BY <1>3, <1>5, <1>6, <1>7

\* A trade replayed over so many bars.
LEMMA TradesAre ==
  ASSUME NEW m \in Nat, NEW ts, Replayed(ts, m)
  PROVE  /\ Len(ts) \in Nat /\ DOMAIN ts = 1 .. Len(ts)
         /\ \A k \in DOMAIN ts : /\ ts[k].entry \in Int /\ ts[k].exit \in Int
                                 /\ ts[k].exit # 0 => ts[k].entry < ts[k].exit
<1> DEFINE R == [entry : 1 .. m, exit : 0 .. m]
<1>1. \A r \in R : r.entry \in Int /\ r.exit \in Int
  OBVIOUS
<1>2. ts \in Seq(R) /\ \A k \in DOMAIN ts : ts[k].exit # 0 => ts[k].entry < ts[k].exit
  BY DEF Replayed
<1> HIDE DEF R
<1>3. Len(ts) \in Nat /\ DOMAIN ts = 1 .. Len(ts) /\ \A k \in DOMAIN ts : ts[k] \in R
  BY <1>2
<1> QED
  BY <1>1, <1>2, <1>3

\* The trades before one are over before it begins.
LEMMA OverBefore ==
  ASSUME NEW m \in Nat, NEW ts, Replayed(ts, m), NEW j \in DOMAIN ts, NEW k \in DOMAIN ts, j < k
  PROVE  ts[j].exit # 0 /\ ts[j].exit < ts[k].entry
<1> DEFINE N == Len(ts)
           D == DOMAIN ts
           T == {x \in D : j < x /\ ~(ts[j].exit < ts[x].entry)}
<1>1. /\ N \in Nat /\ D = 1 .. N
      /\ \A x \in D : /\ ts[x].entry \in Int /\ ts[x].exit \in Int
                      /\ ts[x].exit # 0 => ts[x].entry < ts[x].exit
  BY TradesAre
<1>2. \A x \in 1 .. N - 1 : ts[x].exit # 0 /\ ts[x].exit < ts[x + 1].entry
  BY DEF Replayed
<1> HIDE DEF N, D
<1>3. \A x \in D : x \in Int /\ 1 <= x /\ x <= N
  BY <1>1
<1>4. \A x \in Int : 1 <= x /\ x < N => x \in D /\ x + 1 \in D
  BY <1>1
<1>5. \A x \in D : x < N => ts[x].exit # 0 /\ ts[x].exit < ts[x + 1].entry
  BY <1>1, <1>2, <1>3
<1>6. j \in D /\ k \in D
  BY DEF D
<1> SUFFICES ASSUME T # {} PROVE FALSE
  BY <1>1, <1>3, <1>5, <1>6
<1>7. PICK x \in T : \A y \in T : x <= y
  <2>1. IsFiniteSet(D)
    BY <1>1, FS_Interval
  <2>2. T \in SUBSET D /\ T \subseteq Int
    BY <1>3
  <2> HIDE DEF T
  <2>3. IsFiniteSet(T)
    BY <2>1, <2>2, FS_Subset
  <2> QED
    BY <2>2, <2>3, SmallestInt
<1>8. x \in D /\ j < x /\ ~(ts[j].exit < ts[x].entry)
  OBVIOUS
<1>9. x \in Int /\ j \in Int /\ x <= N /\ 1 <= j
  BY <1>3, <1>6, <1>8
<1>10. CASE x = j + 1
  <2>1. j < N
    BY <1>1, <1>9, <1>10
  <2> QED
    BY <1>5, <1>6, <1>8, <1>10, <2>1
<1>11. CASE x # j + 1
  <2>1. PICK w \in Int : w = x - 1
    BY <1>9
  <2>2. j < w /\ 1 <= w /\ w < N /\ w < x /\ w + 1 = x
    BY <1>1, <1>8, <1>9, <1>11, <2>1
  <2>3. w \in D
    BY <1>4, <2>2
  <2>4. w \notin T
    <3>1. ~(x <= w)
      BY <1>9, <2>2
    <3> HIDE DEF T
    <3> QED
      BY <1>7, <3>1
  <2>5. ts[j].exit < ts[w].entry
    BY <2>2, <2>3, <2>4
  <2>6. ts[w].exit # 0 /\ ts[w].exit < ts[x].entry
    BY <1>5, <2>2, <2>3
  <2>7. /\ ts[j].exit \in Int /\ ts[w].entry \in Int /\ ts[w].exit \in Int /\ ts[x].entry \in Int
        /\ ts[w].entry < ts[w].exit
    BY <1>1, <1>6, <1>8, <2>3, <2>6
  <2> QED
    BY <1>8, <2>5, <2>6, <2>7
<1> QED
  BY <1>10, <1>11

\* So no bar has two events.
LEMMA OneEvent ==
  ASSUME NEW m \in Nat, Replayed(drawn.trades, m), NEW i \in 1 .. m,
         NEW d \in BUILD!eventAt(i), NEW e \in BUILD!eventAt(i)
  PROVE  d = e
<1> DEFINE ts == drawn.trades
           D == DOMAIN ts
           In(k)  == ts[k].entry
           Out(k) == ts[k].exit
<1>1. /\ D \subseteq Int /\ i \in Int /\ i # 0
      /\ \A k \in D : In(k) \in Int /\ Out(k) \in Int /\ (Out(k) # 0 => In(k) < Out(k))
  <2>1. /\ D = 1 .. Len(ts) /\ Len(ts) \in Nat
        /\ \A k \in D : /\ ts[k].entry \in Int /\ ts[k].exit \in Int
                        /\ ts[k].exit # 0 => ts[k].entry < ts[k].exit
    BY TradesAre
  <2>2. D \subseteq Int
    BY <2>1
  <2> HIDE DEF D, ts
  <2> QED
    BY <2>1, <2>2
<1>2. \A j, k \in D : j < k => Out(j) # 0 /\ Out(j) < In(k)
  BY OverBefore
<1>3. ASSUME NEW x \in BUILD!eventAt(i)
      PROVE  \E k \in D : \/ x = [kind |-> "entry", trade |-> k] /\ In(k) = i
                          \/ x = [kind |-> "exit", trade |-> k] /\ Out(k) = i
  BY DEF BUILD!eventAt
<1>4. PICK j \in D : \/ d = [kind |-> "entry", trade |-> j] /\ In(j) = i
                     \/ d = [kind |-> "exit", trade |-> j] /\ Out(j) = i
  BY <1>3
<1>5. PICK k \in D : \/ e = [kind |-> "entry", trade |-> k] /\ In(k) = i
                     \/ e = [kind |-> "exit", trade |-> k] /\ Out(k) = i
  BY <1>3
<1> HIDE DEF ts, D, In, Out
<1>6. ASSUME NEW a \in D, NEW b \in D, a < b
      PROVE  /\ In(a) # In(b) /\ (Out(b) # 0 => Out(a) # Out(b))
             /\ Out(a) # In(b) /\ (Out(b) # 0 => In(a) # Out(b))
  <2>1. /\ In(a) \in Int /\ Out(a) \in Int /\ In(b) \in Int /\ Out(b) \in Int
        /\ Out(a) # 0 /\ Out(a) < In(b) /\ In(a) < Out(a) /\ (Out(b) # 0 => In(b) < Out(b))
    BY <1>1, <1>2, <1>6
  <2> QED
    BY <2>1
<1>7. j = k \/ j < k \/ k < j
  BY <1>1
<1>8. In(j) = i /\ In(k) = i => j = k
  BY <1>6, <1>7
<1>9. Out(j) = i /\ Out(k) = i => j = k
  BY <1>1, <1>6, <1>7
<1>10. \A a, b \in D : ~(In(a) = i /\ Out(b) = i)
  <2>1. ASSUME NEW a \in D, NEW b \in D, In(a) = i, Out(b) = i PROVE FALSE
    <3>1. a # b
      BY <1>1, <2>1
    <3>2. a < b \/ b < a
      BY <1>1, <3>1
    <3> QED
      BY <1>1, <1>6, <2>1, <3>2
  <2> QED
    BY <2>1
<1> QED
  BY <1>4, <1>5, <1>8, <1>9, <1>10

\* The counts of the builder's copy.
LEMMA BuildCounts == ASSUME NEW S PROVE BUILD!Cardinality(S) = Cardinality(S)
BY DEF BUILD!Cardinality, Cardinality

\* A list has finitely many values.
LEMMA FiniteValues == ASSUME NEW s \in Seq(Int) PROVE IsFiniteSet({s[i] : i \in DOMAIN s})
<1> DEFINE D == DOMAIN s
           T == {s[i] : i \in D}
<1>1. D = 1 .. Len(s) /\ Len(s) \in Nat /\ s \in [D -> T]
  OBVIOUS
<1>2. IsFiniteSet(D)
  <2>1. \A x \in Nat : IsFiniteSet(1 .. x)
    BY FS_Interval
  <2> HIDE DEF D, T
  <2> QED
    BY <1>1, <2>1
<1>3. s \in Surjection(D, T)
  BY <1>1 DEF Surjection
<1> QED
  BY <1>2, <1>3, FS_Surjection

\* Whatever was simulated over the candles at hand is inside the plot.
LEMMA MarksLieIn == ASSUME DataOK PROVE BUILD!MarksInPlot
<1>1. CASE candles.bars = <<>>
  <2>1. BUILD!n = 0
    BY <1>1 DEF BUILD!n
  <2>2. drawn.levels = {}
    BY <1>1 DEF DataOK, BUILD!sim, BUILD!NothingDrawn
  <2>3. 1 .. BUILD!n = {}
    BY <2>1
  <2>4. BUILD!ShownMarks = {}
    BY <2>3 DEF BUILD!ShownMarks
  <2> QED
    BY <2>2, <2>3, <2>4 DEF BUILD!MarksInPlot
<1>2. CASE candles.bars # <<>>
  <2> DEFINE b == candles.bars
             L == {b[i].l : i \in DOMAIN b} \cup drawn.levels
             H == {b[i].h : i \in DOMAIN b} \cup drawn.levels
  <2>1. /\ b \in Seq({x \in [l : Int, h : Int] : x.l <= x.h}) /\ Len(b) \in Nat \ {0}
        /\ IsFiniteSet(drawn.levels) /\ drawn.levels \subseteq Int
        /\ Replayed(drawn.trades, Len(b))
    BY <1>2, Drawable
  <2>2. DOMAIN b = 1 .. Len(b) /\ BUILD!n = Len(b)
    BY <2>1 DEF BUILD!n
  <2>3. \A i \in DOMAIN b : b[i].l \in Int /\ b[i].h \in Int /\ b[i].l <= b[i].h
    BY <2>1
  <2>4. BUILD!RangeOf(b, drawn.levels) = [lo |-> Min(L), hi |-> Max(H)]
    BY <1>2 DEF BUILD!RangeOf, BUILD!Min, BUILD!Max, Min, Max
  <2>5. PICK v \in Seq(Int), w \in Seq(Int) :
            /\ DOMAIN v = DOMAIN b /\ DOMAIN w = DOMAIN b
            /\ \A i \in DOMAIN b : v[i] = b[i].l /\ w[i] = b[i].h
    <3>1. [i \in 1 .. Len(b) |-> b[i].l] \in Seq(Int) /\ [i \in 1 .. Len(b) |-> b[i].h] \in Seq(Int)
      BY <2>1, <2>2, <2>3
    <3> QED
      BY <2>2, <3>1
  <2>6. IsFiniteSet(L) /\ IsFiniteSet(H)
    <3>1. \A s \in Seq(Int) : IsFiniteSet({s[i] : i \in DOMAIN s})
      BY FiniteValues
    <3>2. {b[i].l : i \in DOMAIN b} = {v[i] : i \in DOMAIN v} /\ {b[i].h : i \in DOMAIN b} = {w[i] : i \in DOMAIN w}
      BY <2>5
    <3> QED
      BY <2>1, <3>1, <3>2, FS_Union
  <2>7. L # {} /\ L \subseteq Int /\ H # {} /\ H \subseteq Int
    <3>1. 1 \in DOMAIN b
      BY <2>1, <2>2
    <3> QED
      BY <2>1, <2>3, <3>1
  <2>8. \A i \in DOMAIN b : b[i].l \in L /\ b[i].h \in H
    OBVIOUS
  <2>9. drawn.levels \subseteq L /\ drawn.levels \subseteq H
    OBVIOUS
  <2> HIDE DEF b, L, H
  <2>10. /\ Min(L) \in L /\ \A x \in L : Min(L) <= x
         /\ Max(H) \in H /\ \A x \in H : x <= Max(H)
    BY <2>6, <2>7, Extremes
  <2>11. Min(L) \in Int /\ Max(H) \in Int
    BY <2>7, <2>10
  <2>12. ASSUME NEW x \in drawn.levels \cup {b[i].l : i \in DOMAIN b} \cup {b[i].h : i \in DOMAIN b}
         PROVE  x \in Int /\ Min(L) <= x /\ x <= Max(H)
    <3>1. CASE x \in drawn.levels
      BY <2>1, <2>9, <2>10, <3>1
    <3>2. ASSUME NEW i \in DOMAIN b, x = b[i].l \/ x = b[i].h PROVE x \in Int /\ Min(L) <= x /\ x <= Max(H)
      <4>1. /\ b[i].l \in Int /\ b[i].h \in Int /\ b[i].l <= b[i].h
            /\ Min(L) <= b[i].l /\ b[i].h <= Max(H)
        BY <2>3, <2>8, <2>10
      <4> QED
        BY <2>11, <3>2, <4>1
    <3> QED
      BY <2>12, <3>1, <3>2
  <2>13. \A x : BUILD!yOf(x) =
            LET p == BUILD!padded([lo |-> Min(L), hi |-> Max(H)])
                span == Minus(p.hi, p.lo)
            IN Times(Minus(p.hi, Whole1(x)), <<span[2], span[1]>>)
    BY <2>4, SameFractions DEF BUILD!yOf, b
  <2>14. ASSUME NEW x \in drawn.levels \cup {b[i].l : i \in DOMAIN b} \cup {b[i].h : i \in DOMAIN b}
         PROVE  BUILD!AtMost(BUILD!Whole1(0), BUILD!yOf(x)) /\ BUILD!AtMost(BUILD!yOf(x), BUILD!Whole1(1))
    <3>1. x \in Int /\ Min(L) <= x /\ x <= Max(H)
      BY <2>12
    <3>2. AtMost(Whole1(0), BUILD!yOf(x)) /\ AtMost(BUILD!yOf(x), Whole1(1))
      BY <2>11, <2>13, <3>1, ScaleHolds
    <3> QED
      BY <3>2, SameFractions
  <2>15. \A i \in 1 .. BUILD!n : BUILD!onMove(BUILD!xOf(i)) = i
    BY <2>1, <2>2, PointsAtBar
  <2>16. ASSUME NEW i \in BUILD!ShownMarks PROVE BUILD!Cardinality(BUILD!eventAt(i)) = 1
    <3>1. i \in 1 .. Len(b) /\ BUILD!eventAt(i) # {}
      BY <2>2, <2>16 DEF BUILD!ShownMarks
    <3>2. PICK e \in BUILD!eventAt(i) : TRUE
      BY <3>1
    <3>3. \A d \in BUILD!eventAt(i) : d = e
      BY <2>1, <3>1, OneEvent
    <3>4. BUILD!eventAt(i) = {e}
      BY <3>2, <3>3
    <3> QED
      BY <3>4, FS_Singleton, BuildCounts
  <2> QED
    BY <2>2, <2>14, <2>15, <2>16 DEF BUILD!MarksInPlot, b
<1> QED
  BY <1>1, <1>2

-----------------------------------------------------------------------------
(***************************************************************************)
(* The gate of the builder.  A block is well formed when it has the fields *)
(* of its kind with values that could be typed, and legal when these are   *)
(* within the bounds of the catalog.  The gate makes of any definition     *)
(* that is well formed one that is legal, and leaves a legal one as it is: *)
(* the server, which runs it again, stores what was simulated.             *)
(***************************************************************************)

\* A number brought within bounds.
LEMMA Clamps ==
  ASSUME NEW lo \in Int, NEW hi \in Int, lo <= hi, NEW v \in Int
  PROVE  Clamp(v, lo, hi) \in lo .. hi /\ (v \in lo .. hi => Clamp(v, lo, hi) = v)
BY DEF Clamp

\* What a number has become.
IsRounded(lo, hi, v, r) ==
  /\ r \in Int /\ lo <= r /\ r <= hi /\ r % 1000 = 0
  /\ lo <= v /\ v <= hi /\ v % 1000 = 0 => r = v

\* And then rounded: between whole bounds it stays between them, and a whole number stays as it is.
LEMMA Rounds ==
  ASSUME NEW lo \in Int, NEW hi \in Int, lo <= hi, lo % 1000 = 0, hi % 1000 = 0, NEW v \in Int
  PROVE  IsRounded(lo, hi, v, RoundTo(Clamp(v, lo, hi), 1000))
<1>1. PICK w : w = Clamp(v, lo, hi) /\ w \in lo .. hi /\ (v \in lo .. hi => w = v)
  BY Clamps
<1>2. PICK r : r = ((w + 500) \div 1000) * 1000
  OBVIOUS
<1>3. r \in Int /\ r % 1000 = 0 /\ r <= w + 500 /\ r >= w - 499
  BY <1>1, <1>2
<1>4. r \in lo .. hi
  BY <1>1, <1>3
<1>5. w % 1000 = 0 => r = w
  BY <1>1, <1>2
<1>6. RoundTo(w, 1000) = r
  BY <1>2 DEF RoundTo
<1> QED
  BY <1>1, <1>3, <1>4, <1>5, <1>6 DEF IsRounded

\* A field brought within its bounds.
LEMMA ClampFieldIs ==
  ASSUME NEW s, s.int \in BOOLEAN, s.min \in Int, s.max \in Int, s.min <= s.max,
         s.int => s.min % 1000 = 0 /\ s.max % 1000 = 0, NEW v \in Int
  PROVE  /\ clampField(s, v) \in s.min .. s.max /\ (s.int => clampField(s, v) % 1000 = 0)
         /\ v \in s.min .. s.max /\ (s.int => v % 1000 = 0) => clampField(s, v) = v
<1>1. PICK lo \in Int, hi \in Int : lo = s.min /\ hi = s.max
  OBVIOUS
<1>2. CASE s.int
  <2>1. clampField(s, v) = RoundTo(Clamp(v, lo, hi), 1000)
    BY <1>1, <1>2 DEF clampField, Within
  <2>2. lo <= hi /\ lo % 1000 = 0 /\ hi % 1000 = 0
    BY <1>1, <1>2
  <2>3. IsRounded(lo, hi, v, RoundTo(Clamp(v, lo, hi), 1000))
    BY <2>2, Rounds
  <2> QED
    BY <1>1, <1>2, <2>1, <2>3 DEF IsRounded
<1>3. CASE ~s.int
  <2>1. clampField(s, v) = Clamp(v, lo, hi)
    BY <1>1, <1>3 DEF clampField, Within
  <2>2. clampField(s, v) \in lo .. hi /\ (v \in lo .. hi => clampField(s, v) = v)
    BY <1>1, <2>1, Clamps
  <2> QED
    BY <1>1, <1>3, <2>2
<1> QED
  BY <1>2, <1>3

\* The names there are to choose from.
Names == {"above", "below", "below_lower", "above_upper"}

\* A field: a choice between names, or a number whose bounds are in order, whole where it is.
FieldOK(s) ==
  IF "options" \in DOMAIN s THEN s.options \subseteq Names
  ELSE /\ s.int \in BOOLEAN /\ s.min \in Int /\ s.max \in Int /\ s.min <= s.max
       /\ s.int => s.min % 1000 = 0 /\ s.max % 1000 = 0

\* A value of a field that may be typed, and one the gate leaves alone.
Typeable(s, v) == IF "options" \in DOMAIN s THEN v \in s.options ELSE v \in Int
Legal(s, v) ==
  IF "options" \in DOMAIN s THEN v \in s.options
  ELSE v \in s.min .. s.max /\ (s.int => v % 1000 = 0)

\* A kind of block: its fields have different keys, and a new block is legal.
KindOK(e) ==
  /\ \A s, r \in e.fields : s.key = r.key => s = r
  /\ \A s \in e.fields : FieldOK(s) /\ Legal(s, e.defaults[s.key])
  /\ e.defaults = [k \in {s.key : s \in e.fields} |-> e.defaults[k]]

\* A choice between names, and a number.
LEMMA ChoiceIs ==
  ASSUME NEW k, NEW o, o \subseteq Names
  PROVE  /\ Choice(k, o).key = k /\ FieldOK(Choice(k, o))
         /\ \A v \in o : Legal(Choice(k, o), v)
<1>1. "options" \in DOMAIN Choice(k, o) /\ Choice(k, o).options = o /\ Choice(k, o).key = k
  BY DEF Choice
<1> QED
  BY <1>1 DEF FieldOK, Legal
LEMMA WholeIs ==
  ASSUME NEW k, NEW lo \in Int, NEW hi \in Int, lo <= hi
  PROVE  /\ Whole(k, lo, hi).key = k /\ FieldOK(Whole(k, lo, hi))
         /\ \A v \in lo .. hi : Legal(Whole(k, lo, hi), 1000 * v)
<1> DEFINE s == Whole(k, lo, hi)
<1>1. /\ "options" \notin DOMAIN s /\ s.key = k /\ s.int = TRUE
      /\ s.min = 1000 * lo /\ s.max = 1000 * hi
  BY DEF Whole
<1>2. (1000 * lo) % 1000 = 0 /\ (1000 * hi) % 1000 = 0 /\ 1000 * lo <= 1000 * hi
  OBVIOUS
<1>3. \A v \in lo .. hi : (1000 * v) % 1000 = 0 /\ 1000 * v \in 1000 * lo .. 1000 * hi
  OBVIOUS
<1> HIDE DEF s
<1>4. FieldOK(s)
  <2>1. s.min \in Int /\ s.max \in Int /\ s.min <= s.max /\ s.min % 1000 = 0 /\ s.max % 1000 = 0
    BY <1>1, <1>2
  <2>2. "options" \notin DOMAIN s /\ s.int = TRUE
    BY <1>1
  <2> QED
    BY <2>1, <2>2 DEF FieldOK
<1>5. ASSUME NEW v \in lo .. hi PROVE Legal(s, 1000 * v)
  <2>1. PICK w : w = 1000 * v
    OBVIOUS
  <2>2. w % 1000 = 0 /\ w \in s.min .. s.max
    BY <1>1, <1>3, <2>1
  <2>3. Legal(s, w)
    BY <1>1, <2>2 DEF Legal
  <2> QED
    BY <2>1, <2>3
<1> QED
  BY <1>1, <1>4, <1>5 DEF s
LEMMA RealIs ==
  ASSUME NEW k, NEW lo \in Int, NEW hi \in Int, lo <= hi
  PROVE  /\ Real(k, lo, hi).key = k /\ FieldOK(Real(k, lo, hi))
         /\ \A v \in lo .. hi : Legal(Real(k, lo, hi), v)
<1> DEFINE s == Real(k, lo, hi)
<1>1. /\ "options" \notin DOMAIN s /\ s.key = k /\ s.int = FALSE
      /\ s.min = lo /\ s.max = hi
  BY DEF Real
<1> HIDE DEF s
<1>2. FieldOK(s) /\ \A v \in lo .. hi : Legal(s, v)
  BY <1>1 DEF FieldOK, Legal
<1> QED
  BY <1>1, <1>2 DEF s

\* A block of three fields; fewer are given twice.
LEMMA KindIs ==
  ASSUME NEW e, NEW a, NEW b, NEW c, e.fields = {a, b, c},
         a.key = b.key => a = b, b.key = c.key => b = c, a.key = c.key => a = c,
         FieldOK(a), FieldOK(b), FieldOK(c),
         Legal(a, e.defaults[a.key]), Legal(b, e.defaults[b.key]), Legal(c, e.defaults[c.key]),
         e.defaults = [k \in {a.key, b.key, c.key} |-> e.defaults[k]]
  PROVE  KindOK(e)
<1>1. {s.key : s \in e.fields} = {a.key, b.key, c.key}
  OBVIOUS
<1>2. \A s \in e.fields : s = a \/ s = b \/ s = c
  OBVIOUS
<1> QED
  BY <1>1, <1>2 DEF KindOK

\* trend: the fields, and what a new block holds.
LEMMA KindOfTrend == KindOK(RULE_SPEC["trend"])
<1> DEFINE e == RULE_SPEC["trend"]
<1>1. PICK a, b : /\ a = Choice("op", OP_ABOVE_BELOW)
                  /\ b = Whole("period", 5, 400)
  OBVIOUS
<1>2. /\ e.fields = {a, b, b}
      /\ e.defaults = [k \in {"op", "period"} |-> e.defaults[k]]
      /\ e.defaults["op"] = "above"
      /\ e.defaults["period"] = 1000 * 96
  BY <1>1 DEF RULE_SPEC, BlockKind, trendKind
<1>3. a.key = "op" /\ FieldOK(a) /\ Legal(a, "above")
  <2>1. {"above", "below"} \subseteq Names /\ "above" \in {"above", "below"}
    BY DEF Names
  <2> QED
    BY <1>1, <2>1, ChoiceIs DEF OP_ABOVE_BELOW
<1>4. b.key = "period" /\ FieldOK(b) /\ Legal(b, 1000 * 96)
  BY <1>1, WholeIs
<1> HIDE DEF e
<1> QED
  BY <1>2, <1>3, <1>4, KindIs DEF e

\* sma_cross: the fields, and what a new block holds.
LEMMA KindOfSmaCross == KindOK(RULE_SPEC["sma_cross"])
<1> DEFINE e == RULE_SPEC["sma_cross"]
<1>1. PICK a, b, c : /\ a = Whole("fast", 2, 200)
                     /\ b = Whole("slow", 5, 400)
                     /\ c = Whole("within", 1, 20)
  OBVIOUS
<1>2. /\ e.fields = {a, b, c}
      /\ e.defaults = [k \in {"fast", "slow", "within"} |-> e.defaults[k]]
      /\ e.defaults["fast"] = 1000 * 20
      /\ e.defaults["slow"] = 1000 * 50
      /\ e.defaults["within"] = 1000 * 3
  BY <1>1 DEF RULE_SPEC, BlockKind, smaCrossKind
<1>3. a.key = "fast" /\ FieldOK(a) /\ Legal(a, 1000 * 20)
  BY <1>1, WholeIs
<1>4. b.key = "slow" /\ FieldOK(b) /\ Legal(b, 1000 * 50)
  BY <1>1, WholeIs
<1>5. c.key = "within" /\ FieldOK(c) /\ Legal(c, 1000 * 3)
  BY <1>1, WholeIs
<1> HIDE DEF e
<1> QED
  BY <1>2, <1>3, <1>4, <1>5, KindIs DEF e

\* rsi: the fields, and what a new block holds.
LEMMA KindOfRsi == KindOK(RULE_SPEC["rsi"])
<1> DEFINE e == RULE_SPEC["rsi"]
<1>1. PICK a, b, c : /\ a = Whole("period", 2, 50)
                     /\ b = Choice("op", OP_ABOVE_BELOW)
                     /\ c = Real("value", 1000, 99000)
  OBVIOUS
<1>2. /\ e.fields = {a, b, c}
      /\ e.defaults = [k \in {"period", "op", "value"} |-> e.defaults[k]]
      /\ e.defaults["period"] = 1000 * 14
      /\ e.defaults["op"] = "below"
      /\ e.defaults["value"] = 30000
  BY <1>1 DEF RULE_SPEC, BlockKind, rsiKind
<1>3. a.key = "period" /\ FieldOK(a) /\ Legal(a, 1000 * 14)
  BY <1>1, WholeIs
<1>4. b.key = "op" /\ FieldOK(b) /\ Legal(b, "below")
  <2>1. {"above", "below"} \subseteq Names /\ "below" \in {"above", "below"}
    BY DEF Names
  <2> QED
    BY <1>1, <2>1, ChoiceIs DEF OP_ABOVE_BELOW
<1>5. c.key = "value" /\ FieldOK(c) /\ Legal(c, 30000)
  BY <1>1, RealIs
<1> HIDE DEF e
<1> QED
  BY <1>2, <1>3, <1>4, <1>5, KindIs DEF e

\* breakout: the fields, and what a new block holds.
LEMMA KindOfBreakout == KindOK(RULE_SPEC["breakout"])
<1> DEFINE e == RULE_SPEC["breakout"]
<1>1. PICK a, b : /\ a = Whole("lookback", 5, 200)
                  /\ b = Real("buffer", 0, 2000)
  OBVIOUS
<1>2. /\ e.fields = {a, b, b}
      /\ e.defaults = [k \in {"lookback", "buffer"} |-> e.defaults[k]]
      /\ e.defaults["lookback"] = 1000 * 20
      /\ e.defaults["buffer"] = 200
  BY <1>1 DEF RULE_SPEC, BlockKind, breakoutKind
<1>3. a.key = "lookback" /\ FieldOK(a) /\ Legal(a, 1000 * 20)
  BY <1>1, WholeIs
<1>4. b.key = "buffer" /\ FieldOK(b) /\ Legal(b, 200)
  BY <1>1, RealIs
<1> HIDE DEF e
<1> QED
  BY <1>2, <1>3, <1>4, KindIs DEF e

\* bollinger: the fields, and what a new block holds.
LEMMA KindOfBollinger == KindOK(RULE_SPEC["bollinger"])
<1> DEFINE e == RULE_SPEC["bollinger"]
<1>1. PICK a, b, c : /\ a = Choice("band", {"below_lower", "above_upper"})
                     /\ b = Whole("period", 5, 100)
                     /\ c = Real("k", 1000, 4000)
  OBVIOUS
<1>2. /\ e.fields = {a, b, c}
      /\ e.defaults = [k \in {"band", "period", "k"} |-> e.defaults[k]]
      /\ e.defaults["band"] = "below_lower"
      /\ e.defaults["period"] = 1000 * 20
      /\ e.defaults["k"] = 2000
  BY <1>1 DEF RULE_SPEC, BlockKind, bollingerKind
<1>3. a.key = "band" /\ FieldOK(a) /\ Legal(a, "below_lower")
  <2>1. {"below_lower", "above_upper"} \subseteq Names /\ "below_lower" \in {"below_lower", "above_upper"}
    BY DEF Names
  <2> QED
    BY <1>1, <2>1, ChoiceIs
<1>4. b.key = "period" /\ FieldOK(b) /\ Legal(b, 1000 * 20)
  BY <1>1, WholeIs
<1>5. c.key = "k" /\ FieldOK(c) /\ Legal(c, 2000)
  BY <1>1, RealIs
<1> HIDE DEF e
<1> QED
  BY <1>2, <1>3, <1>4, <1>5, KindIs DEF e

\* volume: the fields, and what a new block holds.
LEMMA KindOfVolume == KindOK(RULE_SPEC["volume"])
<1> DEFINE e == RULE_SPEC["volume"]
<1>1. PICK a, b : /\ a = Real("mult", 1000, 10000)
                  /\ b = Whole("period", 5, 100)
  OBVIOUS
<1>2. /\ e.fields = {a, b, b}
      /\ e.defaults = [k \in {"mult", "period"} |-> e.defaults[k]]
      /\ e.defaults["mult"] = 1500
      /\ e.defaults["period"] = 1000 * 20
  BY <1>1 DEF RULE_SPEC, BlockKind, volumeKind
<1>3. a.key = "mult" /\ FieldOK(a) /\ Legal(a, 1500)
  BY <1>1, RealIs
<1>4. b.key = "period" /\ FieldOK(b) /\ Legal(b, 1000 * 20)
  BY <1>1, WholeIs
<1> HIDE DEF e
<1> QED
  BY <1>2, <1>3, <1>4, KindIs DEF e

\* volatility: the fields, and what a new block holds.
LEMMA KindOfVolatility == KindOK(RULE_SPEC["volatility"])
<1> DEFINE e == RULE_SPEC["volatility"]
<1>1. PICK a, b, c : /\ a = Whole("period", 2, 50)
                     /\ b = Choice("op", OP_ABOVE_BELOW)
                     /\ c = Real("value", 50, 10000)
  OBVIOUS
<1>2. /\ e.fields = {a, b, c}
      /\ e.defaults = [k \in {"period", "op", "value"} |-> e.defaults[k]]
      /\ e.defaults["period"] = 1000 * 14
      /\ e.defaults["op"] = "above"
      /\ e.defaults["value"] = 500
  BY <1>1 DEF RULE_SPEC, BlockKind, volatilityKind
<1>3. a.key = "period" /\ FieldOK(a) /\ Legal(a, 1000 * 14)
  BY <1>1, WholeIs
<1>4. b.key = "op" /\ FieldOK(b) /\ Legal(b, "above")
  <2>1. {"above", "below"} \subseteq Names /\ "above" \in {"above", "below"}
    BY DEF Names
  <2> QED
    BY <1>1, <2>1, ChoiceIs DEF OP_ABOVE_BELOW
<1>5. c.key = "value" /\ FieldOK(c) /\ Legal(c, 500)
  BY <1>1, RealIs
<1> HIDE DEF e
<1> QED
  BY <1>2, <1>3, <1>4, <1>5, KindIs DEF e

\* change: the fields, and what a new block holds.
LEMMA KindOfChange == KindOK(RULE_SPEC["change"])
<1> DEFINE e == RULE_SPEC["change"]
<1>1. PICK a, b, c : /\ a = Whole("lookback", 1, 200)
                     /\ b = Choice("op", OP_ABOVE_BELOW)
                     /\ c = Real("value", -50000, 50000)
  OBVIOUS
<1>2. /\ e.fields = {a, b, c}
      /\ e.defaults = [k \in {"lookback", "op", "value"} |-> e.defaults[k]]
      /\ e.defaults["lookback"] = 1000 * 10
      /\ e.defaults["op"] = "above"
      /\ e.defaults["value"] = 2000
  BY <1>1 DEF RULE_SPEC, BlockKind, changeKind
<1>3. a.key = "lookback" /\ FieldOK(a) /\ Legal(a, 1000 * 10)
  BY <1>1, WholeIs
<1>4. b.key = "op" /\ FieldOK(b) /\ Legal(b, "above")
  <2>1. {"above", "below"} \subseteq Names /\ "above" \in {"above", "below"}
    BY DEF Names
  <2> QED
    BY <1>1, <2>1, ChoiceIs DEF OP_ABOVE_BELOW
<1>5. c.key = "value" /\ FieldOK(c) /\ Legal(c, 2000)
  BY <1>1, RealIs
<1> HIDE DEF e
<1> QED
  BY <1>2, <1>3, <1>4, <1>5, KindIs DEF e

\* confirm has no fields.
LEMMA KindOfConfirm == KindOK(RULE_SPEC["confirm"])
<1>1. RULE_SPEC["confirm"].fields = {} /\ RULE_SPEC["confirm"].defaults = [k \in {} |-> 0]
  BY DEF RULE_SPEC, BlockKind, confirmKind, NoParams
<1>2. [k \in {} |-> 0] = [k \in {} |-> RULE_SPEC["confirm"].defaults[k]]
  OBVIOUS
<1> QED
  BY <1>1, <1>2 DEF KindOK

\* Every kind of block is in order.
LEMMA KindsOK == \A k \in Kinds : KindOK(RULE_SPEC[k])
<1>1. Kinds = {"trend", "sma_cross", "rsi", "breakout", "bollinger", "volume", "volatility", "change",
               "confirm"}
  BY DEF Kinds, RULE_SPEC
<1> QED
  BY <1>1, KindOfTrend, KindOfSmaCross, KindOfRsi, KindOfBreakout, KindOfBollinger, KindOfVolume,
     KindOfVolatility, KindOfChange, KindOfConfirm

\* A block as it may be typed, and one the gate leaves alone.
FieldKeys(k) == {s.key : s \in RULE_SPEC[k].fields}
HasFields(r) ==
  /\ r.kind \in Kinds /\ r = [kind |-> r.kind, f |-> r.f]
  /\ r.f = [x \in FieldKeys(r.kind) |-> r.f[x]]
TypedRule(r) == HasFields(r) /\ \A s \in RULE_SPEC[r.kind].fields : Typeable(s, r.f[s.key])
LegalRule(r) == HasFields(r) /\ \A s \in RULE_SPEC[r.kind].fields : Legal(s, r.f[s.key])
TypedRules ==
  {r \in [kind : Kinds, f : UNION {[FieldKeys(k) -> Names \cup Int] : k \in Kinds}] : TypedRule(r)}

\* A field of a kind.
LEMMA FieldsOK ==
  ASSUME NEW k \in Kinds, NEW s \in RULE_SPEC[k].fields
  PROVE  /\ FieldOK(s) /\ Legal(s, RULE_SPEC[k].defaults[s.key]) /\ s.key \in FieldKeys(k)
         /\ (CHOOSE x \in RULE_SPEC[k].fields : x.key = s.key) = s
<1>1. KindOK(RULE_SPEC[k])
  BY KindsOK
<1> DEFINE c == CHOOSE x \in RULE_SPEC[k].fields : x.key = s.key
<1>2. c \in RULE_SPEC[k].fields /\ c.key = s.key
  OBVIOUS
<1> HIDE DEF c
<1>3. c = s
  BY <1>1, <1>2 DEF KindOK
<1> QED
  BY <1>1, <1>3 DEF KindOK, FieldKeys, c

\* What is legal may be typed.
LEMMA LegalIsTyped == ASSUME NEW s, FieldOK(s), NEW v, Legal(s, v) PROVE Typeable(s, v)
BY DEF FieldOK, Legal, Typeable

LEMMA LegalStaysTyped == ASSUME NEW r, LegalRule(r) PROVE TypedRule(r)
<1>1. HasFields(r) /\ r.kind \in Kinds
  BY DEF LegalRule, HasFields
<1>2. ASSUME NEW s \in RULE_SPEC[r.kind].fields PROVE Typeable(s, r.f[s.key])
  BY <1>1, FieldsOK, LegalIsTyped DEF LegalRule
<1> QED
  BY <1>1, <1>2 DEF TypedRule

\* A block that may be typed is one of a set.
LEMMA TypedInSet == ASSUME NEW r, TypedRule(r) PROVE r \in TypedRules
<1>1. /\ r.kind \in Kinds /\ r = [kind |-> r.kind, f |-> r.f]
      /\ r.f = [x \in FieldKeys(r.kind) |-> r.f[x]]
      /\ \A s \in RULE_SPEC[r.kind].fields : Typeable(s, r.f[s.key])
  BY DEF TypedRule, HasFields
<1>2. ASSUME NEW x \in FieldKeys(r.kind) PROVE r.f[x] \in Names \cup Int
  <2>1. PICK s \in RULE_SPEC[r.kind].fields : s.key = x
    BY DEF FieldKeys
  <2>2. FieldOK(s) /\ Typeable(s, r.f[x])
    BY <1>1, <2>1, FieldsOK
  <2> QED
    BY <2>2 DEF FieldOK, Typeable
<1>3. r.f \in [FieldKeys(r.kind) -> Names \cup Int]
  BY <1>1, <1>2
<1>4. r.f \in UNION {[FieldKeys(k) -> Names \cup Int] : k \in Kinds}
  BY <1>1, <1>3
<1>5. r \in [kind : Kinds, f : UNION {[FieldKeys(k) -> Names \cup Int] : k \in Kinds}]
  BY <1>1, <1>4
<1> QED
  BY <1>5 DEF TypedRules

\* The gate brings a number within its bounds, and takes the stock name for one it does not know.
LEMMA CleanFieldGates ==
  ASSUME NEW e, NEW s, FieldOK(s), Legal(s, e.defaults[s.key]), NEW v, Typeable(s, v)
  PROVE  Legal(s, cleanField(e, s, v))
<1>1. CASE "options" \in DOMAIN s
  BY <1>1 DEF Legal, Typeable, cleanField
<1>2. CASE "options" \notin DOMAIN s
  <2>1. /\ s.int \in BOOLEAN /\ s.min \in Int /\ s.max \in Int /\ s.min <= s.max
        /\ s.int => s.min % 1000 = 0 /\ s.max % 1000 = 0
        /\ v \in Int
    BY <1>2 DEF FieldOK, Typeable
  <2>2. clampField(s, v) \in s.min .. s.max /\ (s.int => clampField(s, v) % 1000 = 0)
    BY <2>1, ClampFieldIs
  <2> QED
    BY <1>2, <2>2 DEF Legal, cleanField
<1> QED
  BY <1>1, <1>2

\* It leaves a legal value alone.
LEMMA CleanFieldKeeps ==
  ASSUME NEW e, NEW s, FieldOK(s), NEW v, Legal(s, v)
  PROVE  cleanField(e, s, v) = v
<1>1. CASE "options" \in DOMAIN s
  BY <1>1 DEF Legal, cleanField
<1>2. CASE "options" \notin DOMAIN s
  <2>1. /\ s.int \in BOOLEAN /\ s.min \in Int /\ s.max \in Int /\ s.min <= s.max
        /\ s.int => s.min % 1000 = 0 /\ s.max % 1000 = 0
        /\ v \in s.min .. s.max /\ (s.int => v % 1000 = 0)
    BY <1>2 DEF FieldOK, Legal
  <2>2. clampField(s, v) = v
    BY <2>1, ClampFieldIs
  <2> QED
    BY <1>2, <2>2 DEF cleanField
<1> QED
  BY <1>1, <1>2

\* The block the gate makes of one.
LEMMA CleanRuleIs ==
  ASSUME NEW r, HasFields(r)
  PROVE  /\ cleanRule(r).kind = r.kind /\ HasFields(cleanRule(r))
         /\ \A s \in RULE_SPEC[r.kind].fields :
              cleanRule(r).f[s.key] = cleanField(RULE_SPEC[r.kind], s, r.f[s.key])
<1> DEFINE e == RULE_SPEC[r.kind]
           Keys == {s.key : s \in e.fields}
           g == [k \in Keys |-> LET s == CHOOSE x \in e.fields : x.key = k
                             IN cleanField(e, s, given(e, r, s))]
<1>1. cleanRule(r) = [kind |-> r.kind, f |-> g]
  BY DEF cleanRule, cleanIn, KindSpec
<1>2. r.kind \in Kinds /\ Keys = FieldKeys(r.kind) /\ r.f = [x \in Keys |-> r.f[x]]
  BY DEF HasFields, FieldKeys
<1>3. ASSUME NEW s \in e.fields PROVE g[s.key] = cleanField(e, s, r.f[s.key])
  <2>1. s.key \in Keys /\ (CHOOSE x \in e.fields : x.key = s.key) = s
    BY <1>2, FieldsOK
  <2>2. s.key \in DOMAIN r.f
    BY <1>2, <2>1
  <2>3. given(e, r, s) = r.f[s.key]
    BY <2>2 DEF given
  <2> QED
    BY <2>1, <2>3
<1>4. g = [k \in Keys |-> g[k]]
  OBVIOUS
<1> HIDE DEF g, Keys
<1>5. HasFields(cleanRule(r))
  BY <1>1, <1>2, <1>4 DEF HasFields
<1> QED
  BY <1>1, <1>3, <1>5

\* It is legal, and a legal block stays as it is.
LEMMA CleanRuleGates == ASSUME NEW r, TypedRule(r) PROVE LegalRule(cleanRule(r)) /\ cleanRule(r).kind = r.kind
<1>1. HasFields(r) /\ r.kind \in Kinds
  BY DEF TypedRule, HasFields
<1>2. cleanRule(r).kind = r.kind /\ HasFields(cleanRule(r))
  BY <1>1, CleanRuleIs
<1>3. ASSUME NEW s \in RULE_SPEC[r.kind].fields PROVE Legal(s, cleanRule(r).f[s.key])
  <2>1. cleanRule(r).f[s.key] = cleanField(RULE_SPEC[r.kind], s, r.f[s.key])
    BY <1>1, CleanRuleIs
  <2>2. FieldOK(s) /\ Legal(s, RULE_SPEC[r.kind].defaults[s.key]) /\ Typeable(s, r.f[s.key])
    BY <1>1, FieldsOK DEF TypedRule
  <2> QED
    BY <2>1, <2>2, CleanFieldGates
<1> QED
  BY <1>2, <1>3 DEF LegalRule
LEMMA CleanRuleKeeps == ASSUME NEW r, LegalRule(r) PROVE cleanRule(r) = r
<1>1. HasFields(r) /\ r.kind \in Kinds
  BY DEF LegalRule, HasFields
<1>2. /\ cleanRule(r).kind = r.kind /\ HasFields(cleanRule(r))
  BY <1>1, CleanRuleIs
<1>3. ASSUME NEW k \in FieldKeys(r.kind) PROVE cleanRule(r).f[k] = r.f[k]
  <2>1. PICK s \in RULE_SPEC[r.kind].fields : s.key = k
    BY DEF FieldKeys
  <2>2. cleanRule(r).f[k] = cleanField(RULE_SPEC[r.kind], s, r.f[k])
    BY <1>1, <2>1, CleanRuleIs
  <2>3. FieldOK(s) /\ Legal(s, r.f[k])
    BY <1>1, <2>1, FieldsOK DEF LegalRule
  <2> QED
    BY <2>2, <2>3, CleanFieldKeeps
<1>4. cleanRule(r).f = r.f
  BY <1>1, <1>2, <1>3 DEF HasFields
<1> QED
  BY <1>1, <1>2, <1>4 DEF HasFields

\* A new block is legal.
LEMMA NewIsLegal == ASSUME NEW k \in Kinds PROVE LegalRule(newRule(k)) /\ newRule(k).kind = k
<1>1. KindOK(RULE_SPEC[k])
  BY KindsOK
<1>2. newRule(k) = [kind |-> k, f |-> RULE_SPEC[k].defaults]
  BY DEF newRule
<1>3. newRule(k).kind = k /\ newRule(k).f = RULE_SPEC[k].defaults
  BY <1>2
<1>4. newRule(k).f = [x \in FieldKeys(k) |-> newRule(k).f[x]]
  <2>1. RULE_SPEC[k].defaults = [x \in FieldKeys(k) |-> RULE_SPEC[k].defaults[x]]
    BY <1>1 DEF KindOK, FieldKeys
  <2> QED
    BY <1>3, <2>1
<1>5. HasFields(newRule(k))
  BY <1>2, <1>3, <1>4 DEF HasFields
<1> QED
  BY <1>1, <1>3, <1>5 DEF LegalRule, KindOK

\* The elements at some places of a list, in their order.
LEMMA ElementsKept ==
  ASSUME NEW T, NEW s \in Seq(T), NEW P, P \subseteq DOMAIN s
  PROVE  /\ IsFiniteSet(P) /\ P \subseteq Int /\ Cardinality(P) \in Nat /\ Cardinality(P) <= Len(s)
         /\ ElementsAt(s, P) \in Seq(T) /\ Len(ElementsAt(s, P)) = Cardinality(P)
         /\ \A k \in 1 .. Cardinality(P) : Nth(P, k) \in P /\ ElementsAt(s, P)[k] = s[Nth(P, k)]
         /\ \A j, k \in 1 .. Cardinality(P) : Nth(P, j) = Nth(P, k) => j = k
<1> DEFINE m == Cardinality(P)
           o == ElementsAt(s, P)
<1>1. DOMAIN s = 1 .. Len(s) /\ Len(s) \in Nat /\ P \in SUBSET (1 .. Len(s)) /\ P \subseteq Int
  OBVIOUS
<1>2. IsFiniteSet(1 .. Len(s)) /\ Cardinality(1 .. Len(s)) = Len(s)
  <2>1. \A x \in Nat : IsFiniteSet(1 .. x) /\ Cardinality(1 .. x) = x
    BY FS_Interval
  <2> QED
    BY <1>1, <2>1
<1>3. IsFiniteSet(P) /\ m <= Len(s)
  BY <1>1, <1>2, FS_Subset
<1>4. m \in Nat
  BY <1>3, FS_CardinalityType
<1>5. \A k \in 1 .. m : Nth(P, k) \in P /\ RankIn(Smaller(P), P, Nth(P, k)) = k - 1
  BY <1>1, <1>3, NthIs
<1>6. o = [k \in 1 .. m |-> s[Nth(P, k)]]
  BY DEF ElementsAt
<1>7. \A x \in P : s[x] \in T
  BY <1>1
<1> HIDE DEF m, o
<1>8. \A j, k \in 1 .. m : Nth(P, j) = Nth(P, k) => j = k
  <2>1. ASSUME NEW j \in 1 .. m, NEW k \in 1 .. m, Nth(P, j) = Nth(P, k) PROVE j = k
    <3>1. j - 1 = k - 1
      BY <1>5, <2>1
    <3> QED
      BY <3>1
  <2> QED
    BY <2>1
<1>9. o \in Seq(T) /\ Len(o) = m
  <2>1. o \in [1 .. m -> T]
    BY <1>5, <1>6, <1>7
  <2> QED
    BY <1>4, <2>1
<1> QED
  BY <1>1, <1>3, <1>4, <1>5, <1>6, <1>8, <1>9 DEF m, o

\* All of them are the list.
LEMMA AllKept == ASSUME NEW T, NEW s \in Seq(T) PROVE ElementsAt(s, DOMAIN s) = s
<1> DEFINE P == DOMAIN s
           N == Len(s)
<1>1. P = 1 .. N /\ N \in Nat /\ s = [k \in 1 .. N |-> s[k]]
  OBVIOUS
<1>2. IsFiniteSet(P) /\ P \subseteq Int /\ Cardinality(P) = N
  <2>1. \A x \in Nat : IsFiniteSet(1 .. x) /\ Cardinality(1 .. x) = x
    BY FS_Interval
  <2> QED
    BY <1>1, <2>1
<1>3. ASSUME NEW k \in 1 .. N PROVE Nth(P, k) = k
  <2>1. Nth(P, k) \in P /\ RankIn(Smaller(P), P, Nth(P, k)) = k - 1
    BY <1>2, NthIs
  <2>2. k \in P /\ k - 1 \in Nat
    BY <1>1
  <2>3. {j \in P : j < k} = 1 .. k - 1
    BY <1>1, <1>3
  <2>4. Cardinality(1 .. k - 1) = k - 1
    <3>1. \A x \in Nat : Cardinality(1 .. x) = x
      BY FS_Interval
    <3> QED
      BY <2>2, <3>1
  <2>5. RankIn(Smaller(P), P, k) = k - 1
    BY <1>2, <2>2, <2>3, <2>4, LessOrders
  <2>6. Orders(Smaller(P), P)
    BY <1>2, LessOrders
  <2> HIDE DEF P, N
  <2> QED
    BY <1>2, <2>1, <2>2, <2>5, <2>6, RanksDiffer
<1>4. ElementsAt(s, P) = [k \in 1 .. N |-> s[Nth(P, k)]]
  BY <1>2 DEF ElementsAt
<1> HIDE DEF P, N
<1> QED
  BY <1>1, <1>3, <1>4 DEF P

\* At most one block asks for confirmation.
OneAsks(rules) ==
  \A j, k \in DOMAIN rules : rules[j].kind = "confirm" /\ rules[k].kind = "confirm" => j = k

\* The places oneConfirm keeps.
FirstConfirms(rules) ==
  {k \in DOMAIN rules : rules[k].kind = "confirm" => \A j \in 1 .. (k - 1) : rules[j].kind # "confirm"}

\* oneConfirm leaves one of them, and the first block stays.
LEMMA OneConfirmGates ==
  ASSUME NEW T, NEW rules \in Seq(T), rules # <<>>
  PROVE  /\ oneConfirm(rules) \in Seq(T) /\ Len(oneConfirm(rules)) \in 1 .. Len(rules)
         /\ OneAsks(oneConfirm(rules))
         /\ \A k \in DOMAIN oneConfirm(rules) : \E j \in DOMAIN rules : oneConfirm(rules)[k] = rules[j]
<1> DEFINE P == FirstConfirms(rules)
           o == oneConfirm(rules)
           m == Cardinality(P)
<1>1. o = ElementsAt(rules, P)
  BY DEF oneConfirm, FirstConfirms
<1>2. P \subseteq DOMAIN rules /\ DOMAIN rules = 1 .. Len(rules) /\ Len(rules) \in Nat \ {0}
  BY DEF FirstConfirms
<1>3. 1 \in P
  BY <1>2 DEF FirstConfirms
<1>4. \A i, k \in P : rules[i].kind = "confirm" /\ rules[k].kind = "confirm" => ~(i < k)
  BY <1>2 DEF FirstConfirms
<1> HIDE DEF P, o
<1>5. /\ IsFiniteSet(P) /\ m \in Nat /\ m <= Len(rules) /\ o \in Seq(T) /\ Len(o) = m
      /\ \A k \in 1 .. m : Nth(P, k) \in P /\ o[k] = rules[Nth(P, k)]
      /\ \A j, k \in 1 .. m : Nth(P, j) = Nth(P, k) => j = k
  BY <1>1, <1>2, ElementsKept
<1>6. m # 0
  BY <1>3, <1>5, FS_EmptySet
<1> HIDE DEF m
<1>7. DOMAIN o = 1 .. m
  BY <1>5
<1>8. OneAsks(o)
  <2>1. ASSUME NEW j \in 1 .. m, NEW k \in 1 .. m, o[j].kind = "confirm", o[k].kind = "confirm"
        PROVE  j = k
    <3>1. PICK x \in P, y \in P : x = Nth(P, j) /\ y = Nth(P, k)
      BY <1>5
    <3>2. rules[x].kind = "confirm" /\ rules[y].kind = "confirm"
      BY <1>5, <2>1, <3>1
    <3>3. ~(x < y) /\ ~(y < x) /\ x \in Int /\ y \in Int
      BY <1>2, <1>4, <3>2
    <3>4. x = y
      BY <3>3
    <3> QED
      BY <1>5, <3>1, <3>4
  <2> QED
    BY <1>7, <2>1 DEF OneAsks
<1> QED
  BY <1>2, <1>5, <1>6, <1>7, <1>8 DEF o

\* It drops nothing where there is nothing to drop.
LEMMA OneConfirmKeeps ==
  ASSUME NEW T, NEW rules \in Seq(T), OneAsks(rules)
  PROVE  oneConfirm(rules) = rules
<1>1. FirstConfirms(rules) = DOMAIN rules
  <2>1. ASSUME NEW k \in DOMAIN rules, rules[k].kind = "confirm", NEW j \in 1 .. (k - 1)
        PROVE  rules[j].kind # "confirm"
    <3>1. j \in DOMAIN rules /\ j # k
      OBVIOUS
    <3> QED
      BY <2>1, <3>1 DEF OneAsks
  <2> QED
    BY <2>1 DEF FirstConfirms
<1>2. oneConfirm(rules) = ElementsAt(rules, FirstConfirms(rules))
  BY DEF oneConfirm, FirstConfirms
<1> QED
  BY <1>1, <1>2, AllKept

\* Exits as typed, and as the gate leaves them.
TypedExits == [stop : Int, target : Int, trail : Int, atr : Int, hold : Int]
LegalExits(e) ==
  /\ e \in TypedExits
  /\ 5 <= e.stop /\ e.stop <= 200 /\ 0 <= e.target /\ e.target <= 500
  /\ 0 <= e.trail /\ e.trail <= 6000 /\ 0 <= e.hold /\ e.hold <= 500
  /\ 2000 <= e.atr /\ e.atr <= 50000 /\ e.atr % 1000 = 0

\* A record of exits is its five fields.
LEMMA ExitsAre ==
  ASSUME NEW e \in TypedExits
  PROVE  e = [stop |-> e.stop, target |-> e.target, trail |-> e.trail, atr |-> e.atr, hold |-> e.hold]
BY DEF TypedExits

\* The gate makes exits legal, and legal ones are the engine's too.
LEMMA CleanExitsGates == ASSUME NEW e \in TypedExits PROVE LegalExits(cleanExits(e))
<1> DEFINE c == cleanExits(e)
<1>1. e.stop \in Int /\ e.target \in Int /\ e.trail \in Int /\ e.atr \in Int /\ e.hold \in Int
  BY DEF TypedExits
<1>2. /\ c = [stop |-> c.stop, target |-> c.target, trail |-> c.trail, atr |-> c.atr, hold |-> c.hold]
      /\ c.stop = Clamp(e.stop, 5, 200) /\ c.target = Clamp(e.target, 0, 500)
      /\ c.trail = Clamp(e.trail, 0, 6000) /\ c.hold = Clamp(e.hold, 0, 500)
      /\ c.atr = RoundTo(Clamp(e.atr, 2000, 50000), 1000)
  BY DEF cleanExits
<1> HIDE DEF c
<1>3. /\ c.stop \in Int /\ 5 <= c.stop /\ c.stop <= 200
      /\ c.target \in Int /\ 0 <= c.target /\ c.target <= 500
      /\ c.trail \in Int /\ 0 <= c.trail /\ c.trail <= 6000
      /\ c.hold \in Int /\ 0 <= c.hold /\ c.hold <= 500
  BY <1>1, <1>2 DEF Clamp
<1>4. c.atr \in Int /\ 2000 <= c.atr /\ c.atr <= 50000 /\ c.atr % 1000 = 0
  <2>1. 2000 <= 50000 /\ 2000 % 1000 = 0 /\ 50000 % 1000 = 0
    OBVIOUS
  <2>2. IsRounded(2000, 50000, e.atr, RoundTo(Clamp(e.atr, 2000, 50000), 1000))
    BY <1>1, <2>1, Rounds
  <2> QED
    BY <1>2, <2>2 DEF IsRounded
<1>5. c \in TypedExits
  BY <1>2, <1>3, <1>4 DEF TypedExits
<1> QED
  BY <1>3, <1>4, <1>5 DEF LegalExits, c
LEMMA CleanExitsKeeps ==
  ASSUME NEW e, LegalExits(e)
  PROVE  cleanExits(e) = e /\ engineCustomExits([rules |-> <<>>, exits |-> e]) = e
<1>1. /\ e \in TypedExits
      /\ e.stop \in Int /\ e.target \in Int /\ e.trail \in Int /\ e.atr \in Int /\ e.hold \in Int
      /\ 5 <= e.stop /\ e.stop <= 200 /\ 0 <= e.target /\ e.target <= 500
      /\ 0 <= e.trail /\ e.trail <= 6000 /\ 0 <= e.hold /\ e.hold <= 500
      /\ 2000 <= e.atr /\ e.atr <= 50000 /\ e.atr % 1000 = 0
  BY DEF LegalExits, TypedExits
<1>2. /\ Clamp(e.stop, 5, 200) = e.stop /\ Clamp(e.target, 0, 500) = e.target
      /\ Clamp(e.trail, 0, 6000) = e.trail /\ Clamp(e.hold, 0, 500) = e.hold
      /\ Clamp(e.atr, 2000, 50000) = e.atr
  BY <1>1 DEF Clamp
<1>3. RoundTo(e.atr, 1000) = e.atr /\ (e.atr \div 1000) * 1000 = e.atr
  <2>1. PICK v \in Int : v = e.atr
    BY <1>1
  <2>2. v % 1000 = 0
    BY <1>1, <2>1
  <2>3. ((v + 500) \div 1000) * 1000 = v /\ (v \div 1000) * 1000 = v
    BY <2>2
  <2> QED
    BY <2>1, <2>3 DEF RoundTo
<1>4. e = [stop |-> e.stop, target |-> e.target, trail |-> e.trail, atr |-> e.atr, hold |-> e.hold]
  BY <1>1, ExitsAre
<1> QED
  BY <1>2, <1>3, <1>4 DEF cleanExits, engineCustomExits

\* A definition as typed, and one that passed the gate.
TypedDef(d) ==
  /\ d = [rules |-> d.rules, exits |-> d.exits]
  /\ d.rules \in Seq(TypedRules) /\ Len(d.rules) <= MAX_RULES
  /\ d.exits \in TypedExits
Gated(d) ==
  /\ d = [rules |-> d.rules, exits |-> d.exits]
  /\ d.rules \in Seq(TypedRules) /\ d.rules # <<>> /\ Len(d.rules) <= MAX_RULES
  /\ \A k \in DOMAIN d.rules : LegalRule(d.rules[k])
  /\ OneAsks(d.rules)
  /\ ~\E r \in Range(d.rules) : r.kind = "sma_cross" /\ r.f.fast >= r.f.slow
  /\ LegalExits(d.exits) /\ ~OnlyStop(d.exits)

\* What the gate lets pass is legal.
LEMMA GatePasses ==
  ASSUME NEW d, TypedDef(d), sanitizeCustomDef(d).ok
  PROVE  Gated(sanitizeCustomDef(d).def)
<1> DEFINE cleaned == [k \in DOMAIN d.rules |-> cleanRule(d.rules[k])]
           rs == oneConfirm(cleaned)
           e == cleanExits(d.exits)
<1>1. /\ d.rules # <<>> /\ sanitizeCustomDef(d) = AcceptedDef(rs, e)
  BY DEF sanitizeCustomDef, DefRefused
<1>2. /\ ~OnlyStop(e) /\ ~\E r \in Range(rs) : r.kind = "sma_cross" /\ r.f.fast >= r.f.slow
      /\ sanitizeCustomDef(d).def = [rules |-> rs, exits |-> e]
  <2> HIDE DEF rs, e
  <2>1. AcceptedDef(rs, e).ok
    BY <1>1
  <2>2. ~DefRefused.ok
    BY DEF DefRefused
  <2>3. ~(OnlyStop(e) \/ \E r \in Range(rs) : r.kind = "sma_cross" /\ r.f.fast >= r.f.slow)
    BY <2>1, <2>2 DEF AcceptedDef
  <2>4. AcceptedDef(rs, e) = [ok |-> TRUE, def |-> [rules |-> rs, exits |-> e]]
    BY <2>3 DEF AcceptedDef
  <2> QED
    BY <1>1, <2>3, <2>4
<1>3. d.rules \in Seq(TypedRules) /\ Len(d.rules) <= MAX_RULES /\ d.exits \in TypedExits
  BY DEF TypedDef
<1>4. ASSUME NEW k \in DOMAIN d.rules
      PROVE  LegalRule(cleaned[k]) /\ cleaned[k] \in TypedRules
  <2>1. TypedRule(d.rules[k])
    BY <1>3 DEF TypedRules
  <2>2. LegalRule(cleanRule(d.rules[k]))
    BY <2>1, CleanRuleGates
  <2>3. TypedRule(cleanRule(d.rules[k]))
    BY <2>2, LegalStaysTyped
  <2> QED
    BY <2>2, <2>3, TypedInSet
<1>5. cleaned \in Seq(TypedRules) /\ Len(cleaned) = Len(d.rules) /\ DOMAIN cleaned = DOMAIN d.rules
  <2>1. DOMAIN d.rules = 1 .. Len(d.rules) /\ Len(d.rules) \in Nat
    BY <1>3
  <2>2. DOMAIN cleaned = DOMAIN d.rules /\ cleaned = [k \in 1 .. Len(d.rules) |-> cleaned[k]]
    BY <2>1
  <2> HIDE DEF cleaned
  <2>3. cleaned \in [1 .. Len(d.rules) -> TypedRules]
    BY <1>4, <2>1, <2>2
  <2> QED
    BY <2>1, <2>2, <2>3
<1>6. cleaned # <<>>
  BY <1>1, <1>3, <1>5
<1> HIDE DEF cleaned, e
<1>7. /\ rs \in Seq(TypedRules) /\ Len(rs) \in 1 .. Len(d.rules) /\ OneAsks(rs)
      /\ \A k \in DOMAIN rs : \E j \in DOMAIN cleaned : rs[k] = cleaned[j]
  BY <1>5, <1>6, OneConfirmGates
<1> HIDE DEF rs
<1>8. \A k \in DOMAIN rs : LegalRule(rs[k])
  BY <1>4, <1>5, <1>7
<1>9. rs # <<>> /\ Len(rs) <= MAX_RULES
  <2>1. Len(d.rules) \in Nat /\ MAX_RULES \in Nat
    BY <1>3, MaxRulesAssumption
  <2> QED
    BY <1>3, <1>7, <2>1
<1>10. LegalExits(e)
  BY <1>3, CleanExitsGates DEF e
<1> DEFINE g == [rules |-> rs, exits |-> e]
<1>11. g.rules = rs /\ g.exits = e /\ g = [rules |-> g.rules, exits |-> g.exits]
  OBVIOUS
<1> HIDE DEF g
<1>12. Gated(g)
  BY <1>2, <1>7, <1>8, <1>9, <1>10, <1>11 DEF Gated
<1> QED
  BY <1>2, <1>12 DEF g

\* What passed it once passes it again, and comes out as it went in.
LEMMA GateRepeats ==
  ASSUME NEW d, Gated(d)
  PROVE  /\ sanitizeCustomDef(d) = [ok |-> TRUE, def |-> d]
         /\ engineCustomExits(d) = d.exits
<1>1. /\ d = [rules |-> d.rules, exits |-> d.exits]
      /\ d.rules \in Seq(TypedRules) /\ d.rules # <<>> /\ Len(d.rules) <= MAX_RULES
      /\ \A k \in DOMAIN d.rules : LegalRule(d.rules[k])
      /\ OneAsks(d.rules)
      /\ ~\E r \in Range(d.rules) : r.kind = "sma_cross" /\ r.f.fast >= r.f.slow
      /\ LegalExits(d.exits) /\ ~OnlyStop(d.exits)
  BY DEF Gated
<1>2. [k \in DOMAIN d.rules |-> cleanRule(d.rules[k])] = d.rules
  <2>1. \A k \in DOMAIN d.rules : cleanRule(d.rules[k]) = d.rules[k]
    BY <1>1, CleanRuleKeeps
  <2>2. d.rules = [k \in DOMAIN d.rules |-> d.rules[k]]
    BY <1>1
  <2> QED
    BY <2>1, <2>2
<1>3. oneConfirm(d.rules) = d.rules
  BY <1>1, OneConfirmKeeps
<1>4. cleanExits(d.exits) = d.exits /\ engineCustomExits([rules |-> <<>>, exits |-> d.exits]) = d.exits
  BY <1>1, CleanExitsKeeps
<1>5. ASSUME NEW k \in DOMAIN d.rules PROVE d.rules[k].kind \in Kinds
  <2>1. LegalRule(d.rules[k])
    BY <1>1
  <2> QED
    BY <2>1 DEF LegalRule, HasFields
<1>6. ~(Len(d.rules) > MAX_RULES)
  BY <1>1, MaxRulesAssumption
<1>7. sanitizeCustomDef(d) = AcceptedDef(d.rules, d.exits)
  BY <1>1, <1>2, <1>3, <1>4, <1>5, <1>6 DEF sanitizeCustomDef
<1>8. AcceptedDef(d.rules, d.exits) = [ok |-> TRUE, def |-> d]
  <2>1. ~(OnlyStop(d.exits) \/ \E r \in Range(d.rules) : r.kind = "sma_cross" /\ r.f.fast >= r.f.slow)
    BY <1>1
  <2>2. AcceptedDef(d.rules, d.exits) = [ok |-> TRUE, def |-> [rules |-> d.rules, exits |-> d.exits]]
    BY <2>1 DEF AcceptedDef
  <2> QED
    BY <1>1, <2>2
<1>9. engineCustomExits(d) = d.exits
  BY <1>4 DEF engineCustomExits
<1> QED
  BY <1>7, <1>8, <1>9

\* The definition of a new builder may be typed.
LEMMA DefaultIsTyped == TypedDef(defaultCustomDef)
<1>1. {"trend", "rsi", "confirm"} \subseteq Kinds
  BY DEF Kinds, RULE_SPEC
<1>2. \A k \in Kinds : newRule(k) \in TypedRules
  BY NewIsLegal, LegalStaysTyped, TypedInSet
<1>3. defaultCustomDef.rules = <<newRule("trend"), newRule("rsi"), newRule("confirm")>>
  BY DEF defaultCustomDef
<1>4. newRule("trend") \in TypedRules /\ newRule("rsi") \in TypedRules /\ newRule("confirm") \in TypedRules
  BY <1>1, <1>2
<1>5. defaultCustomDef.rules \in Seq(TypedRules) /\ Len(defaultCustomDef.rules) = 3
  BY <1>3, <1>4
<1>6. defaultCustomDef.exits \in TypedExits
  BY DEF defaultCustomDef, DEFAULT_EXITS, TypedExits
<1>7. defaultCustomDef = [rules |-> defaultCustomDef.rules, exits |-> defaultCustomDef.exits]
  BY DEF defaultCustomDef
<1> QED
  BY <1>5, <1>6, <1>7, BuilderAssumption, MaxRulesAssumption DEF TypedDef

-----------------------------------------------------------------------------
(* The builder: what it keeps, and what it saves *)

\* The builder's copy of the gate is this one.
LEMMA SameClean ==
  /\ \A s, v : BUILD!clampField(s, v) = clampField(s, v)
  /\ \A v, u : BUILD!RoundTo(v, u) = RoundTo(v, u)
  /\ \A e : BUILD!cleanExits(e) = cleanExits(e) /\ BUILD!engineCustomExits(e) = engineCustomExits(e)
<1>1. \A v, u : BUILD!RoundTo(v, u) = RoundTo(v, u)
  BY DEF BUILD!RoundTo, RoundTo
<1>2. \A v, lo, hi : BUILD!Clamp(v, lo, hi) = Clamp(v, lo, hi)
  BY DEF BUILD!Clamp, Clamp
<1>3. \A s, v : BUILD!clampField(s, v) = clampField(s, v)
  BY <1>1, <1>2 DEF BUILD!clampField, clampField, BUILD!Within, Within
<1>4. \A e : BUILD!cleanExits(e) = cleanExits(e)
  BY <1>1, <1>2 DEF BUILD!cleanExits, cleanExits
<1>5. \A e : BUILD!engineCustomExits(e) = engineCustomExits(e)
  BY <1>2 DEF BUILD!engineCustomExits, engineCustomExits
<1> QED
  BY <1>1, <1>3, <1>4, <1>5

LEMMA SameSpec ==
  /\ BUILD!RULE_SPEC = RULE_SPEC /\ BUILD!Kinds = Kinds /\ BUILD!defaultCustomDef = defaultCustomDef
  /\ \A r : BUILD!KindSpec(r) = KindSpec(r)
  /\ \A k : BUILD!newRule(k) = newRule(k)
<1>1. \A k, o : BUILD!Choice(k, o) = Choice(k, o)
  BY DEF BUILD!Choice, Choice
<1>2. \A k, lo, hi : BUILD!Whole(k, lo, hi) = Whole(k, lo, hi)
  BY DEF BUILD!Whole, Whole
<1>3. \A k, lo, hi : BUILD!Real(k, lo, hi) = Real(k, lo, hi)
  BY DEF BUILD!Real, Real
<1>4. BUILD!OP_ABOVE_BELOW = OP_ABOVE_BELOW /\ BUILD!NoParams = NoParams
  BY DEF BUILD!OP_ABOVE_BELOW, OP_ABOVE_BELOW, BUILD!NoParams, NoParams
<1>5. BUILD!RULE_SPEC = RULE_SPEC
  <2>1. \A f, d : BUILD!BlockKind(f, d) = BlockKind(f, d)
    BY DEF BUILD!BlockKind, BlockKind
  <2>2. BUILD!trendKind = trendKind
    BY <1>1, <1>2, <1>3, <1>4, <2>1 DEF BUILD!trendKind, trendKind
  <2>3. BUILD!smaCrossKind = smaCrossKind
    BY <1>1, <1>2, <1>3, <1>4, <2>1 DEF BUILD!smaCrossKind, smaCrossKind
  <2>4. BUILD!rsiKind = rsiKind
    BY <1>1, <1>2, <1>3, <1>4, <2>1 DEF BUILD!rsiKind, rsiKind
  <2>5. BUILD!breakoutKind = breakoutKind
    BY <1>1, <1>2, <1>3, <1>4, <2>1 DEF BUILD!breakoutKind, breakoutKind
  <2>6. BUILD!bollingerKind = bollingerKind
    BY <1>1, <1>2, <1>3, <1>4, <2>1 DEF BUILD!bollingerKind, bollingerKind
  <2>7. BUILD!volumeKind = volumeKind
    BY <1>1, <1>2, <1>3, <1>4, <2>1 DEF BUILD!volumeKind, volumeKind
  <2>8. BUILD!volatilityKind = volatilityKind
    BY <1>1, <1>2, <1>3, <1>4, <2>1 DEF BUILD!volatilityKind, volatilityKind
  <2>9. BUILD!changeKind = changeKind
    BY <1>1, <1>2, <1>3, <1>4, <2>1 DEF BUILD!changeKind, changeKind
  <2>10. BUILD!confirmKind = confirmKind
    BY <1>1, <1>2, <1>3, <1>4, <2>1 DEF BUILD!confirmKind, confirmKind
  <2> QED
    BY <2>2, <2>3, <2>4, <2>5, <2>6, <2>7, <2>8, <2>9, <2>10 DEF BUILD!RULE_SPEC, RULE_SPEC
<1>6. BUILD!Kinds = Kinds
  BY <1>5 DEF BUILD!Kinds, Kinds
<1>7. \A r : BUILD!KindSpec(r) = KindSpec(r)
  BY <1>5 DEF BUILD!KindSpec, KindSpec
<1>8. \A k : BUILD!newRule(k) = newRule(k)
  BY <1>5 DEF BUILD!newRule, newRule
<1>9. BUILD!defaultCustomDef = defaultCustomDef
  BY <1>8 DEF BUILD!defaultCustomDef, defaultCustomDef, BUILD!DEFAULT_EXITS, DEFAULT_EXITS
<1> QED
  BY <1>5, <1>6, <1>7, <1>8, <1>9

LEMMA SameGate ==
  \A d : BUILD!sanitizeCustomDef(d) = sanitizeCustomDef(d)
<1>1. \A e, s, v : BUILD!cleanField(e, s, v) = cleanField(e, s, v)
  BY SameClean DEF BUILD!cleanField, cleanField
<1>2. \A e, r, s : BUILD!given(e, r, s) = given(e, r, s)
  BY DEF BUILD!given, given
<1>3. \A e, r : BUILD!cleanIn(e, r) = cleanIn(e, r)
  BY <1>1, <1>2 DEF BUILD!cleanIn, cleanIn
<1>4. \A r : BUILD!cleanRule(r) = cleanRule(r)
  BY <1>3, SameSpec DEF BUILD!cleanRule, cleanRule
<1>5. \A S, k : BUILD!Nth(S, k) = Nth(S, k)
  BY BuildCounts DEF BUILD!Nth, Nth
<1>6. \A s, P : BUILD!ElementsAt(s, P) = ElementsAt(s, P)
  BY <1>5, BuildCounts DEF BUILD!ElementsAt, ElementsAt
<1>7. \A rs : BUILD!oneConfirm(rs) = oneConfirm(rs)
  BY <1>6 DEF BUILD!oneConfirm, oneConfirm
<1>8. \A e : BUILD!OnlyStop(e) = OnlyStop(e)
  BY DEF BUILD!OnlyStop, OnlyStop
<1>9. \A rs, e : BUILD!AcceptedDef(rs, e) = AcceptedDef(rs, e)
  <2>1. \A rs : BUILD!Range(rs) = Range(rs)
    BY DEF BUILD!Range, Range
  <2>2. BUILD!DefRefused = DefRefused
    BY DEF BUILD!DefRefused, DefRefused
  <2> QED
    BY <1>8, <2>1, <2>2 DEF BUILD!AcceptedDef, AcceptedDef
<1>10. BUILD!DefRefused = DefRefused
  BY DEF BUILD!DefRefused, DefRefused
<1> QED
  BY <1>4, <1>7, <1>9, <1>10, SameClean, SameSpec DEF BUILD!sanitizeCustomDef, sanitizeCustomDef

\* The preview's own state: what is drawn was simulated over the candles at hand.
PlotSide ==
  /\ DataOK
  /\ status \in {"loading", "ok", "error"} /\ hover \in Nat /\ logPref \in {"auto", "log", "linear"}

\* The definition as typed, and the menu that is open only while another block fits.
EditSide ==
  /\ TypedDef(def)
  /\ addOpen \in BOOLEAN /\ (addOpen => Len(def.rules) < MAX_RULES)
  /\ windows.have \subseteq {"1d", "4h", "1h", "15m"}

\* What is being saved, and what was, passed the gate; the history agrees with the rows.
Kept(i) == saved[i].def = seen[i].def /\ saved[i].market = seen[i].market /\ Gated(saved[i].def)
SaveSide ==
  /\ saving.on \in BOOLEAN /\ (saving.on => Gated(saving.def))
  /\ DOMAIN saved \subseteq SaveIds /\ DOMAIN seen = DOMAIN saved
  /\ \A i \in DOMAIN saved : Kept(i)

KeepInv == PlotSide /\ EditSide /\ SaveSide

\* Steps that leave a side alone.
LEMMA PlotStays ==
  ASSUME PlotSide, UNCHANGED <<candles, status, drawn, hover, logPref>>
  PROVE  PlotSide'
BY DEF PlotSide, DataOK
LEMMA EditStays ==
  ASSUME EditSide, UNCHANGED <<def, windows>>, addOpen' = addOpen \/ addOpen' = FALSE
  PROVE  EditSide'
<1>1. def' = def /\ windows' = windows
  OBVIOUS
<1>2. TypedDef(def) /\ addOpen \in BOOLEAN /\ (addOpen => Len(def.rules) < MAX_RULES)
  BY DEF EditSide
<1>3. windows'.have \subseteq {"1d", "4h", "1h", "15m"}
  BY <1>1 DEF EditSide
<1>4. TypedDef(def')
  BY <1>1, <1>2
<1>5. addOpen' \in BOOLEAN /\ (addOpen' => Len(def'.rules) < MAX_RULES)
  <2>1. CASE addOpen' = addOpen
    BY <1>1, <1>2, <2>1
  <2>2. CASE addOpen' = FALSE
    BY <2>2
  <2> QED
    BY <2>1, <2>2
<1> QED
  BY <1>3, <1>4, <1>5 DEF EditSide
LEMMA SaveStays == ASSUME SaveSide, UNCHANGED <<saving, saved, seen>> PROVE SaveSide'
BY DEF SaveSide, Kept

\* The preview mounted anew has nothing to draw.
LEMMA MountPlots == ASSUME NEW p, BUILD!Mount(p) PROVE PlotSide'
<1>1. candles'.bars = <<>> /\ drawn' = BUILD!NothingDrawn
  BY DEF BUILD!Mount, BUILD!NoCandles
<1>2. drawn' \in BUILD!sim(candles'.bars)
  BY <1>1 DEF BUILD!sim
<1>3. status' = "loading" /\ hover' = 0 /\ logPref' = "auto"
  BY DEF BUILD!Mount, BUILD!Fetch
<1>4. DataOK'
  BY <1>1, <1>2 DEF DataOK
<1> QED
  BY <1>3, <1>4 DEF PlotSide

\* An edit simulates again, mounts the preview, takes it away or leaves it.
LEMMA RecheckPlots == ASSUME PlotSide, NEW was, NEW now, BUILD!Rechecked(was, now) PROVE PlotSide'
<1>1. CASE UNCHANGED BUILD!pvars
  BY <1>1, PlotStays DEF BUILD!pvars
<1>2. CASE BUILD!Resimulate
  <2>1. drawn' \in BUILD!sim(candles.bars) /\ UNCHANGED <<candles, status, hover, logPref>>
    BY <1>2 DEF BUILD!Resimulate
  <2> QED
    BY <2>1 DEF PlotSide, DataOK
<1>3. CASE BUILD!Unmount
  BY <1>3, PlotStays DEF BUILD!Unmount
<1> QED
  BY <1>1, <1>2, <1>3, MountPlots DEF BUILD!Rechecked

\* An edit to a definition that may be typed.
LEMMA EditedTypes ==
  ASSUME KeepInv, NEW d, TypedDef(d), BUILD!Edited(d), addOpen' = FALSE
  PROVE  KeepInv'
<1>1. /\ def' = d /\ BUILD!Rechecked(BUILD!clean, BUILD!sanitizeCustomDef(d))
      /\ UNCHANGED <<windows, saving, saved, seen>>
  BY DEF BUILD!Edited
<1>2. PlotSide'
  BY <1>1, RecheckPlots DEF KeepInv
<1>3. EditSide'
  <2>1. windows'.have \subseteq {"1d", "4h", "1h", "15m"}
    BY <1>1 DEF KeepInv, EditSide
  <2>2. TypedDef(def')
    BY <1>1
  <2> QED
    BY <2>1, <2>2, Zenon DEF EditSide
<1>4. SaveSide'
  BY <1>1, SaveStays DEF KeepInv
<1> QED
  BY <1>2, <1>3, <1>4 DEF KeepInv

\* A definition is its blocks and its exits.
LEMMA DefParts ==
  ASSUME NEW rs \in Seq(TypedRules), Len(rs) <= MAX_RULES, NEW e \in TypedExits
  PROVE  TypedDef([rules |-> rs, exits |-> e])
BY DEF TypedDef

\* A block is added while the menu is open.
LEMMA AddRuleKeeps == ASSUME KeepInv, NEW kind, BUILD!AddRule(kind) PROVE KeepInv'
<1>1. /\ kind \in Kinds /\ addOpen /\ addOpen' = FALSE
      /\ BUILD!Edited([def EXCEPT !.rules = Append(@, BUILD!newRule(kind))])
  BY SameSpec DEF BUILD!AddRule, BUILD!ShownMenu
<1>2. PICK rl \in Seq(TypedRules), ex \in TypedExits :
          def = [rules |-> rl, exits |-> ex] /\ Len(rl) < MAX_RULES
  <2>1. TypedDef(def) /\ Len(def.rules) < MAX_RULES
    BY <1>1 DEF KeepInv, EditSide
  <2> QED
    BY <2>1 DEF TypedDef
<1>3. PICK r \in TypedRules : r = BUILD!newRule(kind)
  <2>1. LegalRule(newRule(kind))
    BY <1>1, NewIsLegal
  <2>2. newRule(kind) \in TypedRules
    BY <2>1, LegalStaysTyped, TypedInSet
  <2>3. BUILD!newRule(kind) = newRule(kind)
    BY SameSpec
  <2> QED
    BY <2>2, <2>3
<1>4. PICK rs : rs = Append(rl, r)
  OBVIOUS
<1>5. rs \in Seq(TypedRules) /\ Len(rs) <= MAX_RULES
  <2>1. Len(rs) = Len(rl) + 1 /\ Len(rl) \in Nat /\ rs \in Seq(TypedRules)
    BY <1>4
  <2> QED
    BY <1>2, <2>1, MaxRulesAssumption
<1>6. [def EXCEPT !.rules = Append(@, BUILD!newRule(kind))] = [rules |-> rs, exits |-> ex]
  <2>1. Append(def.rules, BUILD!newRule(kind)) = rs
    BY <1>2, <1>3, <1>4
  <2>2. [def EXCEPT !.rules = rs] = [rules |-> rs, exits |-> ex]
    BY <1>2
  <2> QED
    BY <2>1, <2>2
<1>7. TypedDef([rules |-> rs, exits |-> ex])
  BY <1>5, DefParts
<1> QED
  BY <1>1, <1>6, <1>7, EditedTypes

\* A block is removed.
LEMMA RemoveRuleKeeps ==
  ASSUME KeepInv, NEW k \in DOMAIN def.rules, BUILD!removeRule(k)
  PROVE  KeepInv'
<1>1. addOpen' = FALSE /\ BUILD!Edited([def EXCEPT !.rules = BUILD!RemoveAt(@, k)])
  BY DEF BUILD!removeRule
<1>2. PICK rl \in Seq(TypedRules), ex \in TypedExits :
          def = [rules |-> rl, exits |-> ex] /\ Len(rl) <= MAX_RULES
  <2>1. TypedDef(def)
    BY DEF KeepInv, EditSide
  <2> QED
    BY <2>1 DEF TypedDef
<1>3. PICK rs : rs = BUILD!RemoveAt(rl, k)
  OBVIOUS
<1>4. rs \in Seq(TypedRules) /\ Len(rs) <= MAX_RULES
  <2>1. k \in 1 .. Len(rl) /\ Len(rl) \in Nat /\ Len(rl) <= MAX_RULES
    BY <1>2
  <2>2. rs = SubSeq(rl, 1, k - 1) \o SubSeq(rl, k + 1, Len(rl))
    BY <1>3 DEF BUILD!RemoveAt
  <2>3. /\ SubSeq(rl, 1, k - 1) \in Seq(TypedRules) /\ Len(SubSeq(rl, 1, k - 1)) = k - 1
        /\ SubSeq(rl, k + 1, Len(rl)) \in Seq(TypedRules) /\ Len(SubSeq(rl, k + 1, Len(rl))) = Len(rl) - k
    BY <2>1
  <2> QED
    BY <2>1, <2>2, <2>3, MaxRulesAssumption
<1>5. [def EXCEPT !.rules = BUILD!RemoveAt(@, k)] = [rules |-> rs, exits |-> ex]
  BY <1>2, <1>3
<1>6. TypedDef([rules |-> rs, exits |-> ex])
  BY <1>4, DefParts
<1> QED
  BY <1>1, <1>5, <1>6, EditedTypes

\* A field of a block is typed in: a name of its list, or a number, rounded where the field is whole.
LEMMA EditedRule ==
  ASSUME NEW r \in TypedRules, NEW s \in RULE_SPEC[r.kind].fields, NEW v, Typeable(s, v)
  PROVE  [r EXCEPT !.f[s.key] = v] \in TypedRules
<1>1. /\ r.kind \in Kinds /\ r = [kind |-> r.kind, f |-> r.f]
      /\ r.f = [x \in FieldKeys(r.kind) |-> r.f[x]]
      /\ \A t \in RULE_SPEC[r.kind].fields : Typeable(t, r.f[t.key])
  BY DEF TypedRules, TypedRule, HasFields
<1>2. PICK c, g : c = r.kind /\ g = r.f
  OBVIOUS
<1>3. PICK h : h = [g EXCEPT ![s.key] = v]
  OBVIOUS
<1>4. s.key \in FieldKeys(c)
  BY <1>1, <1>2, FieldsOK
<1>5. /\ h = [x \in FieldKeys(c) |-> h[x]] /\ h[s.key] = v
      /\ \A x \in FieldKeys(c) : x # s.key => h[x] = g[x]
  BY <1>1, <1>2, <1>3, <1>4
<1>6. PICK q : q = [kind |-> c, f |-> h]
  OBVIOUS
<1>7. q.kind = c /\ q.f = h
  BY <1>6
<1>8. HasFields(q)
  BY <1>1, <1>2, <1>5, <1>6, <1>7 DEF HasFields
<1>9. ASSUME NEW t \in RULE_SPEC[c].fields PROVE Typeable(t, h[t.key])
  <2>1. CASE t.key = s.key
    <3>1. KindOK(RULE_SPEC[c])
      BY <1>1, <1>2, KindsOK
    <3>2. t = s
      BY <1>2, <2>1, <3>1 DEF KindOK
    <3> QED
      BY <1>5, <3>2
  <2>2. CASE t.key # s.key
    <3>1. t.key \in FieldKeys(c)
      BY <1>1, <1>2, FieldsOK
    <3> QED
      BY <1>1, <1>2, <1>5, <2>2, <3>1
  <2> QED
    BY <2>1, <2>2
<1>10. TypedRule(q)
  BY <1>7, <1>8, <1>9 DEF TypedRule
<1>11. [r EXCEPT !.f[s.key] = v] = q
  <2>1. r = [kind |-> c, f |-> g]
    BY <1>1, <1>2
  <2> QED
    BY <1>3, <1>6, <2>1
<1> QED
  BY <1>10, <1>11, TypedInSet

LEMMA EditRuleKeeps ==
  ASSUME KeepInv, NEW k \in DOMAIN def.rules, NEW s \in BUILD!KindSpec(def.rules[k]).fields, NEW v,
         BUILD!EditRule(k, s, v)
  PROVE  KeepInv'
<1> DEFINE w == IF "options" \in DOMAIN s THEN v ELSE BUILD!Typed(s, v)
<1>1. /\ IF "options" \in DOMAIN s THEN v \in s.options ELSE v \in TryNumbers
      /\ BUILD!Edited([def EXCEPT !.rules[k].f[s.key] = w]) /\ addOpen' = FALSE
  BY DEF BUILD!EditRule
<1>2. PICK rl \in Seq(TypedRules), ex \in TypedExits :
          def = [rules |-> rl, exits |-> ex] /\ Len(rl) <= MAX_RULES
  <2>1. TypedDef(def)
    BY DEF KeepInv, EditSide
  <2> QED
    BY <2>1 DEF TypedDef
<1>3. def.rules = rl
  BY <1>2
<1>4. PICK r \in TypedRules : r = rl[k]
  BY <1>3
<1>5. s \in RULE_SPEC[r.kind].fields /\ r.kind \in Kinds
  <2>1. BUILD!KindSpec(def.rules[k]) = RULE_SPEC[r.kind]
    BY <1>3, <1>4, SameSpec DEF KindSpec
  <2> QED
    BY <2>1 DEF TypedRules, TypedRule, HasFields
<1>6. Typeable(s, w)
  <2>1. CASE "options" \in DOMAIN s
    BY <1>1, <2>1 DEF Typeable
  <2>2. CASE "options" \notin DOMAIN s
    <3>1. FieldOK(s)
      BY <1>5, FieldsOK
    <3>2. s.int \in BOOLEAN /\ v \in Int
      BY <1>1, <2>2, <3>1, BuilderAssumption DEF FieldOK
    <3>3. BUILD!Typed(s, v) \in Int
      BY <3>2, SameClean DEF BUILD!Typed, RoundTo
    <3> QED
      BY <2>2, <3>3 DEF Typeable
  <2> QED
    BY <2>1, <2>2
<1> HIDE DEF w
<1>7. PICK q \in TypedRules : q = [r EXCEPT !.f[s.key] = w]
  BY <1>5, <1>6, EditedRule
<1>8. PICK rs : rs = [rl EXCEPT ![k] = q]
  OBVIOUS
<1>9. rs \in Seq(TypedRules) /\ Len(rs) <= MAX_RULES
  <2>1. rs \in Seq(TypedRules) /\ Len(rs) = Len(rl)
    BY <1>3, <1>8
  <2> QED
    BY <1>2, <2>1
<1>10. [def EXCEPT !.rules[k].f[s.key] = w] = [rules |-> rs, exits |-> ex]
  <2>1. [def EXCEPT !.rules[k].f[s.key] = w] = [rules |-> [rl EXCEPT ![k].f[s.key] = w], exits |-> ex]
    <3>1. PICK x : x = [rl EXCEPT ![k].f[s.key] = w]
      OBVIOUS
    <3>2. [def EXCEPT !.rules[k].f[s.key] = w] = [def EXCEPT !.rules = [def.rules EXCEPT ![k].f[s.key] = w]]
      OBVIOUS
    <3>3. [def EXCEPT !.rules = x] = [rules |-> x, exits |-> ex]
      BY <1>2
    <3> QED
      BY <1>3, <3>1, <3>2, <3>3
  <2>2. [rl EXCEPT ![k].f[s.key] = w] = [rl EXCEPT ![k] = q]
    BY <1>4, <1>7
  <2> QED
    BY <1>8, <2>1, <2>2
<1>11. TypedDef([rules |-> rs, exits |-> ex])
  BY <1>9, DefParts
<1> QED
  BY <1>1, <1>10, <1>11, EditedTypes

\* An exit is typed in.
LEMMA SetExitKeeps ==
  ASSUME KeepInv, NEW key, NEW v \in TryNumbers, BUILD!setExit(key, v)
  PROVE  KeepInv'
<1> DEFINE w == IF key \in {"stop", "target"} THEN v \div 100
                ELSE IF key = "hold" THEN BUILD!RoundTo(v, 1000) \div 1000
                ELSE IF key = "atr" THEN BUILD!RoundTo(v, 1000) ELSE v
<1>1. BUILD!Edited([def EXCEPT !.exits[key] = w]) /\ addOpen' = FALSE
  BY DEF BUILD!setExit
<1>2. PICK rl \in Seq(TypedRules), ex \in TypedExits :
          def = [rules |-> rl, exits |-> ex] /\ Len(rl) <= MAX_RULES
  <2>1. TypedDef(def)
    BY DEF KeepInv, EditSide
  <2> QED
    BY <2>1 DEF TypedDef
<1>3. w \in Int
  <2>1. v \in Int
    BY BuilderAssumption
  <2>2. BUILD!RoundTo(v, 1000) = RoundTo(v, 1000)
    BY SameClean
  <2>3. PICK x \in Int : x = BUILD!RoundTo(v, 1000)
    BY <2>1, <2>2 DEF RoundTo
  <2> QED
    BY <2>1, <2>3
<1> HIDE DEF w
<1>4. PICK e : e = [ex EXCEPT ![key] = w]
  OBVIOUS
<1>5. e \in TypedExits
  BY <1>3, <1>4 DEF TypedExits
<1>6. [def EXCEPT !.exits[key] = w] = [rules |-> rl, exits |-> e]
  BY <1>2, <1>4
<1>7. TypedDef([rules |-> rl, exits |-> e])
  BY <1>2, <1>5, DefParts
<1> QED
  BY <1>1, <1>6, <1>7, EditedTypes

\* Another market has no windows yet; its preview keeps the candles in memory.
LEMMA PickMarketKeeps == ASSUME KeepInv, NEW m, BUILD!setMarket(m) PROVE KeepInv'
<1>1. /\ addOpen' = FALSE /\ windows'.have = {}
      /\ IF BUILD!ShownPreview THEN BUILD!PickPair(m) ELSE UNCHANGED BUILD!pvars
      /\ UNCHANGED <<def, saving, saved, seen>>
  BY DEF BUILD!setMarket
<1>2. PlotSide'
  <2>1. CASE UNCHANGED BUILD!pvars
    BY <2>1, PlotStays DEF BUILD!pvars, KeepInv
  <2>2. CASE BUILD!PickPair(m)
    <3>1. status' = "loading" /\ UNCHANGED <<candles, drawn, hover, logPref>>
      BY <2>2 DEF BUILD!PickPair, BUILD!Fetch
    <3> QED
      BY <3>1 DEF KeepInv, PlotSide, DataOK
  <2> QED
    BY <1>1, <2>1, <2>2
<1>3. EditSide'
  <2>1. TypedDef(def')
    BY <1>1 DEF KeepInv, EditSide
  <2> QED
    BY <1>1, <2>1, Zenon DEF EditSide
<1> QED
  BY <1>1, <1>2, <1>3, SaveStays DEF KeepInv

\* The windows arrive.
LEMMA WindowsComeKeep ==
  ASSUME KeepInv, NEW f, NEW got \in TryWindows, BUILD!WindowsArrive(f, got)
  PROVE  KeepInv'
<1>1. /\ UNCHANGED <<def, addOpen, saving, saved, seen>>
      /\ UNCHANGED <<candles, status, drawn, hover, logPref>>
      /\ windows' = windows \/ windows'.have = got
  BY DEF BUILD!WindowsArrive, BUILD!pvars
<1>2. windows'.have \subseteq {"1d", "4h", "1h", "15m"}
  BY <1>1, BuilderAssumption DEF KeepInv, EditSide
<1>3. EditSide'
  <2>1. TypedDef(def) /\ addOpen \in BOOLEAN /\ (addOpen => Len(def.rules) < MAX_RULES)
    BY DEF KeepInv, EditSide
  <2>2. TypedDef(def') /\ addOpen' \in BOOLEAN /\ (addOpen' => Len(def'.rules) < MAX_RULES)
    BY <1>1, <2>1
  <2> QED
    BY <1>2, <2>2 DEF EditSide
<1> QED
  BY <1>1, <1>3, PlotStays, SaveStays DEF KeepInv

\* The menu of blocks opens only while another fits.
LEMMA MenuKeeps == ASSUME KeepInv, BUILD!toggleMenu PROVE KeepInv'
<1>1. /\ ~(Len(def.rules) >= MAX_RULES) /\ addOpen' = ~addOpen
      /\ UNCHANGED <<def, windows, saving, saved, seen>>
      /\ UNCHANGED <<candles, status, drawn, hover, logPref>>
  BY DEF BUILD!toggleMenu, BUILD!ShownAddButton, BUILD!pvars
<1>2. TypedDef(def) /\ windows.have \subseteq {"1d", "4h", "1h", "15m"}
  BY DEF KeepInv, EditSide
<1>3. Len(def.rules) < MAX_RULES
  <2>1. Len(def.rules) \in Nat
    BY <1>2 DEF TypedDef
  <2> QED
    BY <1>1, <2>1, MaxRulesAssumption
<1>4. TypedDef(def') /\ windows'.have \subseteq {"1d", "4h", "1h", "15m"} /\ Len(def'.rules) < MAX_RULES
  BY <1>1, <1>2, <1>3
<1>5. addOpen' \in BOOLEAN
  BY <1>1
<1>6. EditSide'
  BY <1>4, <1>5 DEF EditSide
<1> QED
  BY <1>1, <1>6, PlotStays, SaveStays DEF KeepInv

\* What is saved is what passed the gate.
LEMMA SaveKeeps == ASSUME KeepInv, BUILD!save PROVE KeepInv'
<1>1. /\ BUILD!clean.ok /\ addOpen' = FALSE
      /\ saving' = [on |-> TRUE, def |-> BUILD!clean.def, market |-> market]
      /\ UNCHANGED <<def, windows, saved, seen>>
      /\ UNCHANGED <<candles, status, drawn, hover, logPref>>
  BY DEF BUILD!save, BUILD!ShownSave, BUILD!pvars
<1>2. BUILD!clean = sanitizeCustomDef(def)
  BY SameGate DEF BUILD!clean
<1>3. TypedDef(def)
  BY DEF KeepInv, EditSide
<1>4. Gated(BUILD!clean.def)
  BY <1>1, <1>2, <1>3, GatePasses
<1>5. saving'.on = TRUE /\ saving'.def = BUILD!clean.def
  BY <1>1
<1>6. SaveSide'
  <2>1. \A i \in DOMAIN saved' : saved'[i] = saved[i] /\ seen'[i] = seen[i]
    BY <1>1
  <2>2. saving'.on \in BOOLEAN /\ Gated(saving'.def)
    BY <1>4, <1>5
  <2>3. \A i \in DOMAIN saved' : Kept(i)'
    BY <1>1, <2>1 DEF KeepInv, SaveSide, Kept
  <2>4. DOMAIN saved' \subseteq SaveIds /\ DOMAIN seen' = DOMAIN saved'
    BY <1>1 DEF KeepInv, SaveSide
  <2> QED
    BY <2>2, <2>3, <2>4 DEF SaveSide
<1> QED
  BY <1>1, <1>6, PlotStays, EditStays DEF KeepInv

\* The server runs the gate again on what it is sent, and stores just that.
LEMMA Stores ==
  ASSUME SaveSide, saving.on, NEW i \in SaveIds \ DOMAIN saved, saving' = BUILD!NotSaving,
         saved' = [j \in DOMAIN saved \cup {i} |->
                     IF j = i THEN [def |-> BUILD!sanitizeCustomDef(saving.def).def, market |-> saving.market]
                     ELSE saved[j]],
         seen' = [j \in DOMAIN seen \cup {i} |-> IF j = i THEN saving ELSE seen[j]]
  PROVE  SaveSide'
<1>1. PICK g, m : g = saving.def /\ m = saving.market
  OBVIOUS
<1>2. Gated(g)
  BY <1>1 DEF SaveSide
<1>3. BUILD!sanitizeCustomDef(g).def = g
  BY <1>2, SameGate, GateRepeats
<1>4. /\ DOMAIN saved' = DOMAIN saved \cup {i} /\ DOMAIN seen' = DOMAIN saved'
      /\ saved'[i] = [def |-> g, market |-> m] /\ seen'[i] = saving
      /\ \A j \in DOMAIN saved : saved'[j] = saved[j] /\ seen'[j] = seen[j]
  BY <1>1, <1>3 DEF SaveSide
<1>5. ASSUME NEW j \in DOMAIN saved' PROVE Kept(j)'
  <2>1. CASE j = i
    BY <1>1, <1>2, <1>4, <2>1 DEF Kept
  <2>2. CASE j \in DOMAIN saved
    BY <1>4, <2>2 DEF Kept, SaveSide
  <2> QED
    BY <1>4, <2>1, <2>2
<1>6. saving'.on = FALSE
  BY DEF BUILD!NotSaving
<1>7. DOMAIN saved' \subseteq SaveIds
  BY <1>4 DEF SaveSide
<1> QED
  BY <1>4, <1>5, <1>6, <1>7 DEF SaveSide

LEMMA SavesKeep == ASSUME KeepInv, NEW i \in SaveIds, BUILD!Saves(i) PROVE KeepInv'
<1>1. /\ saving.on /\ i \in SaveIds \ DOMAIN saved /\ saving' = BUILD!NotSaving
      /\ saved' = [j \in DOMAIN saved \cup {i} |->
                     IF j = i THEN [def |-> BUILD!sanitizeCustomDef(saving.def).def, market |-> saving.market]
                     ELSE saved[j]]
      /\ seen' = [j \in DOMAIN seen \cup {i} |-> IF j = i THEN saving ELSE seen[j]]
  BY DEF BUILD!Saves, BUILD!pending
<1>2. UNCHANGED <<def, windows, addOpen>> /\ UNCHANGED <<candles, status, drawn, hover, logPref>>
  BY DEF BUILD!Saves
<1>3. SaveSide'
  BY <1>1, Stores DEF KeepInv
<1> QED
  BY <1>2, <1>3, PlotStays, EditStays DEF KeepInv

\* A save that throws stored nothing, or the same.
LEMMA SaveFailsKeep == ASSUME KeepInv, BUILD!SaveFails PROVE KeepInv'
<1>1. /\ saving.on /\ saving' = BUILD!NotSaving
      /\ UNCHANGED <<def, windows, addOpen>> /\ UNCHANGED <<candles, status, drawn, hover, logPref>>
  BY DEF BUILD!SaveFails, BUILD!pending, BUILD!pvars
<1>2. CASE UNCHANGED <<saved, seen>>
  <2>1. saving'.on = FALSE
    BY <1>1 DEF BUILD!NotSaving
  <2>2. SaveSide'
    BY <1>2, <2>1 DEF KeepInv, SaveSide, Kept
  <2> QED
    BY <1>1, <2>2, PlotStays, EditStays DEF KeepInv
<1>3. ASSUME NEW i \in SaveIds \ DOMAIN saved,
             saved' = [j \in DOMAIN saved \cup {i} |->
                         IF j = i THEN [def |-> BUILD!sanitizeCustomDef(saving.def).def, market |-> saving.market]
                         ELSE saved[j]],
             seen' = [j \in DOMAIN seen \cup {i} |-> IF j = i THEN saving ELSE seen[j]]
      PROVE  KeepInv'
  <2>1. SaveSide'
    BY <1>1, <1>3, Stores DEF KeepInv
  <2> QED
    BY <1>1, <2>1, PlotStays, EditStays DEF KeepInv
<1> QED
  BY <1>2, <1>3 DEF BUILD!SaveFails

\* The page opened again starts over, with what was saved.
LEMMA OpenKeeps == ASSUME KeepInv, BUILD!OpenAgain PROVE KeepInv'
<1>1. /\ def' = defaultCustomDef /\ addOpen' = FALSE /\ windows'.have = {}
      /\ BUILD!Mount(FirstPair) /\ UNCHANGED <<saving, saved, seen>>
  BY SameSpec DEF BUILD!OpenAgain
<1>2. EditSide'
  <2>1. TypedDef(def')
    BY <1>1, DefaultIsTyped
  <2> QED
    BY <1>1, <2>1, Zenon DEF EditSide
<1> QED
  BY <1>1, <1>2, MountPlots, SaveStays DEF KeepInv

\* The preview's answer: the candles of a market and an interval, replayed at once.
LEMMA AnswerKeeps ==
  ASSUME KeepInv, Requests, NEW f \in asked, NEW a \in BUILD!MayAnswer(f), BUILD!Arrives(f, a),
         UNCHANGED BUILD!bvars
  PROVE  KeepInv'
<1>1. /\ UNCHANGED <<def, addOpen, windows, saving, saved, seen>> /\ UNCHANGED <<hover, logPref>>
  BY DEF BUILD!Arrives, BUILD!bvars
<1>2. CASE ~f.alive
  <2>1. UNCHANGED <<candles, status, drawn>>
    BY <1>2 DEF BUILD!Arrives
  <2> QED
    BY <1>1, <2>1, PlotStays, EditStays, SaveStays DEF KeepInv
<1>3. CASE f.alive /\ a.ok /\ Len(a.bars) >= MinBars
  <2>1. /\ candles' = [of |-> f.of, iv |-> f.iv, bars |-> a.bars] /\ status' = "ok"
        /\ drawn' \in BUILD!sim(a.bars)
    BY <1>3 DEF BUILD!Arrives
  <2>2. a.bars = Klines[f.of][f.iv] /\ f.of \in DOMAIN Klines
    <3>1. PICK limited \in BOOLEAN, down \in SUBSET BUILD!Range(BUILD!Hosts) :
              a = BUILD!candlesGET(f.of, f.iv, limited, down)
      BY DEF BUILD!MayAnswer
    <3>2. ~(limited \/ BUILD!toBinanceSymbol(f.of) = "none" \/ f.iv \notin BUILD!INTERVALS \/ BUILD!upstream(down) = {})
      <4>1. [ok |-> FALSE].ok = FALSE
        OBVIOUS
      <4> QED
        BY <1>3, <3>1, <4>1 DEF BUILD!candlesGET
    <3>3. a = [ok |-> TRUE, bars |-> Klines[f.of][f.iv]]
      BY <3>1, <3>2 DEF BUILD!candlesGET
    <3>4. f.of \in DOMAIN Klines
      BY <3>2 DEF BUILD!toBinanceSymbol
    <3> QED
      BY <3>3, <3>4
  <2>3. f.iv \in TryIntervals
    BY BuilderAssumption DEF Requests, PreviewRequest, BuildIntervals
  <2>4. candles'.bars = a.bars
    BY <2>1
  <2>5. DataOK'
    BY <2>1, <2>2, <2>3, <2>4 DEF DataOK
  <2>6. PlotSide'
    BY <1>1, <2>1, <2>5 DEF KeepInv, PlotSide
  <2> QED
    BY <1>1, <2>6, EditStays, SaveStays DEF KeepInv
<1>4. CASE f.alive /\ ~(a.ok /\ Len(a.bars) >= MinBars)
  <2>1. status' = "error" /\ UNCHANGED <<candles, drawn>>
    BY <1>4 DEF BUILD!Arrives
  <2>2. PlotSide'
    BY <1>1, <2>1 DEF KeepInv, PlotSide, DataOK
  <2> QED
    BY <1>1, <2>2, EditStays, SaveStays DEF KeepInv
<1> QED
  BY <1>2, <1>3, <1>4

\* The controls of the preview.
LEMMA ClicksKeep ==
  ASSUME KeepInv, BUILD!PClicks, UNCHANGED <<def, addOpen, windows, saving, saved, seen>>
  PROVE  KeepInv'
<1>1. EditSide' /\ SaveSide'
  BY EditStays, SaveStays DEF KeepInv
<1>2. ASSUME NEW iv, BUILD!setInterval(iv) PROVE PlotSide'
  <2>1. status' = "loading" /\ UNCHANGED <<candles, drawn, hover, logPref>>
    BY <1>2 DEF BUILD!setInterval, BUILD!Fetch
  <2> QED
    BY <2>1 DEF KeepInv, PlotSide, DataOK
<1>3. ASSUME NEW i \in 1 .. BUILD!n, BUILD!HoverAt(i) PROVE PlotSide'
  <2>1. hover' = BUILD!onMove(BUILD!xOf(i)) /\ UNCHANGED <<candles, status, drawn, logPref>>
    BY <1>3 DEF BUILD!HoverAt
  <2>2. BUILD!n \in Nat
    <3>1. CASE candles.bars = <<>>
      BY <3>1 DEF BUILD!n
    <3>2. CASE candles.bars # <<>>
      BY <3>2, Drawable DEF BUILD!n, KeepInv, PlotSide
    <3> QED
      BY <3>1, <3>2
  <2>3. hover' = i
    BY <2>1, <2>2, PointsAtBar
  <2>4. hover' \in Nat
    BY <2>2, <2>3
  <2> QED
    BY <2>1, <2>4 DEF KeepInv, PlotSide, DataOK
<1>4. ASSUME BUILD!HoverOut PROVE PlotSide'
  <2>1. hover' = 0 /\ UNCHANGED <<candles, status, drawn, logPref>>
    BY <1>4 DEF BUILD!HoverOut
  <2> QED
    BY <2>1 DEF KeepInv, PlotSide, DataOK
<1>5. ASSUME BUILD!setLogPref PROVE PlotSide'
  <2>1. logPref' \in {"linear", "log"} /\ UNCHANGED <<candles, status, drawn, hover>>
    BY <1>5 DEF BUILD!setLogPref
  <2> QED
    BY <2>1 DEF KeepInv, PlotSide, DataOK
<1> QED
  BY <1>1, <1>2, <1>3, <1>4, <1>5 DEF BUILD!PClicks, KeepInv

\* A builder just opened.
LEMMA KeepStarts == ASSUME BUILD!BInit PROVE KeepInv
<1>1. /\ def = defaultCustomDef /\ addOpen = FALSE /\ windows = [of |-> market, loading |-> TRUE, have |-> {}]
      /\ saving = BUILD!NotSaving /\ saved = [i \in {} |-> 0] /\ seen = [i \in {} |-> 0]
      /\ candles = BUILD!NoCandles /\ status = "loading" /\ drawn = BUILD!NothingDrawn
      /\ hover = 0 /\ logPref = "auto"
  BY SameSpec DEF BUILD!BInit, BUILD!PInit
<1>2. DataOK
  <2>1. candles.bars = <<>>
    BY <1>1 DEF BUILD!NoCandles
  <2>2. drawn \in BUILD!sim(candles.bars)
    BY <1>1, <2>1 DEF BUILD!sim
  <2> QED
    BY <2>1, <2>2 DEF DataOK
<1>3. PlotSide
  BY <1>1, <1>2 DEF PlotSide
<1>4. EditSide
  <2>1. TypedDef(def)
    BY <1>1, DefaultIsTyped
  <2>2. windows.have = {}
    BY <1>1
  <2> QED
    BY <1>1, <2>1, <2>2, Zenon DEF EditSide
<1>5. SaveSide
  <2>1. saving.on = FALSE
    BY <1>1 DEF BUILD!NotSaving
  <2>2. DOMAIN saved = {} /\ DOMAIN seen = {}
    BY <1>1
  <2> QED
    BY <2>1, <2>2 DEF SaveSide
<1> QED
  BY <1>3, <1>4, <1>5 DEF KeepInv

LEMMA KeepSteps == ASSUME BuildInv, KeepInv, [BUILD!BNext]_buildVars PROVE KeepInv'
<1>1. CASE BUILD!pressElsewhere
  <2>1. /\ addOpen' = FALSE /\ UNCHANGED <<def, windows, saving, saved, seen>>
        /\ UNCHANGED <<candles, status, drawn, hover, logPref>>
    BY <1>1 DEF BUILD!pressElsewhere, BUILD!pvars
  <2> QED
    BY <2>1, PlotStays, EditStays, SaveStays DEF KeepInv
<1>2. ASSUME NEW iv, BUILD!setCompareIv(iv) PROVE KeepInv'
  <2>1. /\ addOpen' = FALSE /\ UNCHANGED <<def, windows, saving, saved, seen>>
        /\ UNCHANGED <<candles, status, drawn, hover, logPref>>
    BY <1>2 DEF BUILD!setCompareIv, BUILD!pvars
  <2> QED
    BY <2>1, PlotStays, EditStays, SaveStays DEF KeepInv
<1>3. ASSUME NEW k \in DOMAIN def.rules, NEW s \in BUILD!KindSpec(def.rules[k]).fields, NEW v,
             BUILD!EditRule(k, s, v)
      PROVE  KeepInv'
  BY <1>3, EditRuleKeeps
<1>4. CASE BUILD!PAnswers /\ UNCHANGED BUILD!bvars
  BY <1>4, AnswerKeeps DEF BUILD!PAnswers, BuildInv
<1>5. CASE BUILD!PClicks /\ UNCHANGED <<def, addOpen, windows, saving, saved, seen>>
  BY <1>5, ClicksKeep
<1>6. CASE UNCHANGED buildVars
  <2>1. /\ UNCHANGED <<def, addOpen, windows, saving, saved, seen>>
        /\ UNCHANGED <<candles, status, drawn, hover, logPref>>
    BY <1>6 DEF buildVars
  <2> QED
    BY <2>1, PlotStays, EditStays, SaveStays DEF KeepInv
<1> QED
  BY <1>1, <1>2, <1>3, <1>4, <1>5, <1>6, MenuKeeps, SaveKeeps, SaveFailsKeep, OpenKeeps, AddRuleKeeps,
     RemoveRuleKeeps, SetExitKeeps, PickMarketKeeps, WindowsComeKeep, SavesKeep
     DEF BUILD!BNext

\* What the builder keeps, through every edit, answer and save.
THEOREM KeepInvariant == StudioSpec => [](BuildInv /\ KeepInv)
<1>1. StudioInit => KeepInv
  BY KeepStarts DEF StudioInit
<1>2. BuildInv /\ KeepInv /\ [StudioNext]_studioVars => KeepInv'
  <2>1. [StudioNext]_studioVars => [BUILD!BNext]_buildVars
    BY DEF StudioNext, studioVars
  <2> QED
    BY <2>1, KeepSteps
<1> QED
  BY <1>1, <1>2, BuildInvariant, PTL DEF StudioSpec

\* A saved definition is the one that was previewed, the gate gives it back unchanged wherever it is
\* run again, the engine is configured with the exits it shows, and it always has a way out.
LEMMA SavedArePreviewed == ASSUME KeepInv PROVE BUILD!SavedIsPreviewed
<1> SUFFICES ASSUME NEW i \in DOMAIN saved
             PROVE  LET d == saved[i].def IN
                    /\ d = seen[i].def /\ saved[i].market = seen[i].market
                    /\ BUILD!sanitizeCustomDef(d) = [ok |-> TRUE, def |-> d]
                    /\ BUILD!engineCustomExits(d) = d.exits
                    /\ \E key \in {"target", "trail", "hold"} : d.exits[key] > 0
                    /\ \A k \in DOMAIN d.rules :
                         d.rules[k].kind = "sma_cross" => d.rules[k].f.fast < d.rules[k].f.slow
                    /\ BUILD!Cardinality({k \in DOMAIN d.rules : d.rules[k].kind = "confirm"}) <= 1
  BY DEF BUILD!SavedIsPreviewed
<1>1. PICK d : d = saved[i].def /\ d = seen[i].def /\ saved[i].market = seen[i].market /\ Gated(d)
  BY DEF KeepInv, SaveSide, Kept
<1>2. BUILD!sanitizeCustomDef(d) = [ok |-> TRUE, def |-> d] /\ BUILD!engineCustomExits(d) = d.exits
  BY <1>1, SameGate, SameClean, GateRepeats
<1>3. \E key \in {"target", "trail", "hold"} : d.exits[key] > 0
  <2>1. LegalExits(d.exits) /\ ~OnlyStop(d.exits)
    BY <1>1 DEF Gated
  <2>2. PICK e : e = d.exits
    OBVIOUS
  <2>3. /\ e.target \in Int /\ e.trail \in Int /\ e.hold \in Int
        /\ 0 <= e.target /\ 0 <= e.trail /\ 0 <= e.hold
        /\ ~(e.target = 0 /\ e.trail = 0 /\ e.hold = 0)
    BY <2>1, <2>2 DEF LegalExits, TypedExits, OnlyStop
  <2>4. e["target"] > 0 \/ e["trail"] > 0 \/ e["hold"] > 0
    BY <2>3
  <2> QED
    BY <2>2, <2>4
<1>4. ASSUME NEW k \in DOMAIN d.rules, d.rules[k].kind = "sma_cross"
      PROVE  d.rules[k].f.fast < d.rules[k].f.slow
  <2>1. PICK r : r = d.rules[k]
    OBVIOUS
  <2>2. r.kind = "sma_cross" /\ r \in Range(d.rules)
    BY <1>4, <2>1 DEF Range
  <2>3. ~(r.f.fast >= r.f.slow) /\ LegalRule(r)
    BY <1>1, <2>1, <2>2 DEF Gated
  <2>4. PICK a, b, c : a = Whole("fast", 2, 200) /\ b = Whole("slow", 5, 400) /\ c = Whole("within", 1, 20)
    OBVIOUS
  <2>5. RULE_SPEC["sma_cross"].fields = {a, b, c}
    BY <2>4 DEF RULE_SPEC, BlockKind, smaCrossKind
  <2>6. Legal(a, r.f[a.key]) /\ Legal(b, r.f[b.key])
    BY <2>2, <2>3, <2>5 DEF LegalRule
  <2>7. /\ a.key = "fast" /\ "options" \notin DOMAIN a /\ a.min \in Int /\ a.max \in Int
        /\ b.key = "slow" /\ "options" \notin DOMAIN b /\ b.min \in Int /\ b.max \in Int
    BY <2>4 DEF Whole
  <2>8. r.f.fast \in Int /\ r.f.slow \in Int
    BY <2>6, <2>7 DEF Legal
  <2> QED
    BY <2>1, <2>3, <2>8
<1>5. BUILD!Cardinality({k \in DOMAIN d.rules : d.rules[k].kind = "confirm"}) <= 1
  <2> DEFINE S == {k \in DOMAIN d.rules : d.rules[k].kind = "confirm"}
  <2>1. \A j, k \in S : j = k
    BY <1>1 DEF Gated, OneAsks
  <2> HIDE DEF S
  <2>2. Cardinality(S) <= 1
    <3>1. CASE S = {}
      BY <3>1, FS_EmptySet
    <3>2. ASSUME NEW x \in S PROVE Cardinality(S) <= 1
      <4>1. S = {x}
        BY <2>1
      <4> QED
        BY <4>1, FS_Singleton
    <3> QED
      BY <3>1, <3>2
  <2> QED
    BY <2>2, BuildCounts DEF S
<1> QED
  BY <1>1, <1>2, <1>3, <1>4, <1>5

\* The builder analyses the market it names, draws inside its plot, and saves the definition that
\* was previewed: whatever numbers are typed, answers come late, or saves fail on the way.
THEOREM BuilderHonestCorrect == StudioSpec => []BuilderHonest
<1>1. BuildInv /\ KeepInv => BUILD!BTypeOK
  <2> SUFFICES ASSUME BuildInv, KeepInv PROVE BUILD!BTypeOK
    OBVIOUS
  <2>1. TryIntervals = BuildIntervals
    BY BuilderAssumption DEF BuildIntervals
  <2>2. /\ pair \in Pairs /\ interval \in TryIntervals
        /\ asked \subseteq [of : Pairs, iv : TryIntervals, alive : BOOLEAN]
    BY <2>1 DEF BuildInv, Requests, PreviewRequest
  <2>3. BUILD!PTypeOK
    BY <2>2 DEF BUILD!PTypeOK, KeepInv, PlotSide, DataOK
  <2>4. /\ market \in Pairs /\ winAsked \subseteq [of : Pairs, alive : BOOLEAN]
        /\ {windows.loading, away} \subseteq BOOLEAN
    BY DEF BuildInv, WindowsSide, WindowsRequest
  <2>5. {def.rules[k].kind : k \in DOMAIN def.rules} \subseteq BUILD!Kinds /\ Len(def.rules) <= MAX_RULES
    <3>1. def.rules \in Seq(TypedRules) /\ Len(def.rules) <= MAX_RULES
      BY DEF KeepInv, EditSide, TypedDef
    <3>2. \A k \in DOMAIN def.rules : def.rules[k] \in TypedRules
      BY <3>1
    <3>3. \A r \in TypedRules : r.kind \in Kinds
      BY DEF TypedRules, TypedRule, HasFields
    <3> QED
      BY <3>1, <3>2, <3>3, SameSpec
  <2>6. windows.have \subseteq BUILD!WINDOWS /\ addOpen \in BOOLEAN
    BY DEF KeepInv, EditSide, BUILD!WINDOWS
  <2>7. DOMAIN saved \subseteq SaveIds
    BY DEF KeepInv, SaveSide
  <2> QED
    BY <2>3, <2>4, <2>5, <2>6, <2>7, Zenon DEF BUILD!BTypeOK
<1>2. KeepInv => BUILD!MarksInPlot
  BY MarksLieIn DEF KeepInv, PlotSide
<1>3. KeepInv => BUILD!SavedIsPreviewed
  BY SavedArePreviewed
<1> QED
  BY <1>1, <1>2, <1>3, KeepInvariant, AnalysisIsOfMarketCorrect, PTL DEF BuilderHonest
=============================================================================
