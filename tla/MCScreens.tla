----------------------------- MODULE MCScreens -----------------------------
(***************************************************************************)
(* The machines behind the dashboard, for TLC: the settings and account    *)
(* pages in several tabs, the price chart, the limiter in front of the     *)
(* routes, and what the pages compute from the trades and the equity log.  *)
(* They share no variable, so every behaviour is one of them, named by     *)
(* `which`, while the others stay as they started.                         *)
(***************************************************************************)
EXTENDS PriceFeed, RateLimit, TLC

CONSTANT Machines   \* the ones a configuration explores
VARIABLE which

VARIABLES lacking, stored, page, reads, shown, draft, clicked, prefClicks, prefFaults, behind
CONSTANTS Tabs, Chats, Numeric, Currencies, MaxClicks, MaxFaults
Timelines == {"1d", "1w"}
Schemas   == {{"currency", "window"}, {"table", "currency", "window", "short"}}
SETTINGS == INSTANCE Settings WITH calls <- clicked, stale <- behind, Windows <- Timelines

VARIABLES bot, keys, runnable, props, panel, queue, presses, panelFaults, overtaken
CONSTANTS Pages, Venues, MaxPresses, MaxPanelFaults
PANEL == INSTANCE AccountPage

VARIABLES trades, today, linked
CONSTANTS BookVenues, YEAR, APRIL, MaxTradeRows, MaxToday
Leg(strategy, side, state, dry, pnl) ==
  [strategy |-> strategy, side |-> side, status |-> state, dry |-> dry, pnl |-> pnl]
Legs == {Leg("a", "buy", "placed", FALSE, -1), Leg("a", "sell", "placed", FALSE, 3),
         Leg("a", "sell", "placed", FALSE, -2), Leg("b", "sell", "dry_run", TRUE, 2),
         Leg("b", "sell", "error", FALSE, 1)}
READ == INSTANCE ReadModel

VARIABLES snaps, hour
Books == {-1, 2, 3}
CONSTANTS Equities, StatHours, POINTS, MaxSnaps, MaxHour
CURVE == INSTANCE EquityCurve WITH Windows <- StatHours

settingsVars == <<lacking, stored, page, reads, shown, draft, clicked, prefClicks, prefFaults,
                  behind>>
panelVars    == <<bot, keys, runnable, props, panel, queue, presses, panelFaults, overtaken>>
readVars     == <<trades, today, linked>>
curveVars    == <<snaps, hour>>
screensVars  == <<which, feedVars, limitVars, settingsVars, panelVars, readVars, curveVars>>

(* The machines are these six and the counts of what is explored are       *)
(* counts.  The defaults of the table and of the exchange form can be      *)
(* chosen; a fiscal year starts on a day of the year; a curve has at least *)
(* one point, and its values are amounts of money.                         *)
ASSUME ScreensAssumption ==
  /\ Machines \subseteq {"feed", "limit", "settings", "panel", "read", "curve"}
  /\ {MaxClicks, MaxFaults, MaxPresses, MaxPanelFaults} \subseteq Nat
  /\ "INR" \in Currencies /\ "coindcx" \in Venues
  /\ YEAR \in Nat \ {0} /\ APRIL \in 0 .. YEAR - 1 /\ MaxToday \in Nat
  /\ Equities \subseteq Int /\ StatHours \subseteq Int /\ POINTS \in Nat \ {0}
  /\ MaxHour \in Nat

(* A machine that is not explored starts in one of its initial states.     *)
Parked ==
  /\ which # "settings" => "table" \notin lacking
  /\ which # "panel"    => keys = PANEL!NoKeys
  /\ which # "read"     => linked = "coindcx"

ScreensInit ==
  /\ which \in Machines
  /\ FeedInit /\ LimitInit /\ SETTINGS!SettingsInit /\ PANEL!PanelInit /\ READ!ReadInit
  /\ CURVE!CurveInit
  /\ Parked

ScreensNext ==
  /\ UNCHANGED which
  /\ \/ /\ which = "feed" /\ FeedNext
        /\ UNCHANGED <<limitVars, settingsVars, panelVars, readVars, curveVars>>
     \/ /\ which = "limit" /\ LimitNext
        /\ UNCHANGED <<feedVars, settingsVars, panelVars, readVars, curveVars>>
     \/ /\ which = "settings" /\ SETTINGS!SettingsNext
        /\ UNCHANGED <<feedVars, limitVars, panelVars, readVars, curveVars>>
     \/ /\ which = "panel" /\ PANEL!PanelNext
        /\ UNCHANGED <<feedVars, limitVars, settingsVars, readVars, curveVars>>
     \/ /\ which = "read" /\ READ!ReadNext
        /\ UNCHANGED <<feedVars, limitVars, settingsVars, panelVars, curveVars>>
     \/ /\ which = "curve" /\ CURVE!CurveNext
        /\ UNCHANGED <<feedVars, limitVars, settingsVars, panelVars, readVars>>

ScreensSpec == ScreensInit /\ [][ScreensNext]_screensVars

-----------------------------------------------------------------------------
(* Every machine's state is well typed.                                    *)
ScreensTypeOK ==
  CASE which = "feed"     -> FeedTypeOK
    [] which = "limit"    -> LimitTypeOK
    [] which = "settings" -> SETTINGS!SettingsTypeOK
    [] which = "panel"    -> PANEL!PanelTypeOK
    [] which = "read"     -> READ!ReadTypeOK
    [] which = "curve"    -> CURVE!CurveTypeOK

SettingsHonest == which = "settings" =>
  SETTINGS!OnHasAChat /\ SETTINGS!TabShowsStored /\ SETTINGS!HealedIsEnough
DryMeansDry    == which = "panel" => PANEL!DryMeansDry /\ PANEL!SwitchedMeansDry
ReportsAddUp   == which = "read" => READ!ViewsAgree /\ READ!EachSaleTaxedOnce
OneCurrency    == which = "read" => READ!OneCurrency
CurveHonest    == which = "curve" =>
  CURVE!WindowIsExact /\ CURVE!CurveSpans /\ CURVE!DrawdownIsWorstFall

(* The account page's tabs and the limiter's clients are interchangeable:  *)
(* no definition names or chooses one.                                     *)
Interchangeable == Permutations(Pages) \cup Permutations(Keys)
=============================================================================
