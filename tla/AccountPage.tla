---------------------------- MODULE AccountPage ----------------------------
(***************************************************************************)
(* The account page in several browser tabs: the bot's switches            *)
(* (components/BotControls.tsx) and the key form                           *)
(* (components/CredentialsForm.tsx), with the server actions behind them   *)
(* taken whole (Account splits them at their awaits).  A tab's component   *)
(* state is set from the page's props once, when the page is opened; the   *)
(* props themselves are renewed by every answer that revalidates the page. *)
(* The calls of one tab run in order; the owner's kill switch and another  *)
(* tab work on the same row.                                               *)
(***************************************************************************)
EXTENDS Naturals, Sequences

CONSTANTS Pages,           \* open tabs of the account page
          Venues,          \* exchanges
          MaxPresses,      \* bound: presses in all tabs together
          MaxPanelFaults   \* bound: calls that fail or lose their reply

VARIABLES bot,        \* bot_state: active, live
          keys,       \* venue of the linked keys, or "none"
          runnable,   \* some strategy is enabled
          props,      \* props[t]: what the tab's page was rendered with
          panel,      \* panel[t]: the state its two components hold
          queue,      \* queue[t]: its server actions, in order
          presses, panelFaults,
          overtaken   \* history: tabs another actor or a lost reply overtook

panelVars == <<bot, keys, runnable, props, panel, queue, presses, panelFaults, overtaken>>

NoKeys == "none"
NoPatch == "keep"

-----------------------------------------------------------------------------
Rendered == [linked |-> keys, canRun |-> runnable]

(* Opening the page: every piece of state starts from its prop.            *)
Mounted == [active |-> bot.active, live |-> bot.live, confirming |-> FALSE,
            phrase |-> FALSE, showForm |-> keys = NoKeys,
            exchange |-> IF keys = NoKeys THEN "coindcx" ELSE keys]

Busy(t, ops) == \E i \in DOMAIN queue[t] : queue[t][i].op \in ops
BotBusy(t)   == Busy(t, {"set", "goLive"})
Linked(t)    == props[t].linked # NoKeys
canGoLive(t) == Linked(t) /\ props[t].canRun
Switching(t) == Linked(t) /\ panel[t].exchange # props[t].linked

Call(t, c) == queue' = [queue EXCEPT ![t] = Append(@, c)]
CallOf(op, active, live, ex, switching, prev) ==
  [op |-> op, active |-> active, live |-> live, ex |-> ex, switching |-> switching,
   prev |-> prev, at |-> "sent"]
Before(t) == [active |-> panel[t].active, live |-> panel[t].live]

Press == /\ presses < MaxPresses /\ presses' = presses + 1
         /\ UNCHANGED <<bot, keys, runnable, props, panelFaults, overtaken>>
Local == UNCHANGED <<bot, keys, runnable, props, queue, presses, panelFaults, overtaken>>

reload(t) ==
  /\ queue[t] = <<>> /\ presses < MaxPresses /\ presses' = presses + 1
  /\ props' = [props EXCEPT ![t] = Rendered]
  /\ panel' = [panel EXCEPT ![t] = Mounted]
  /\ overtaken' = overtaken \ {t}
  /\ UNCHANGED <<bot, keys, runnable, queue, panelFaults>>

-----------------------------------------------------------------------------
(* BotControls *)

(* What the two switches and the confirmation let the user press.          *)
ShownActive(t)  == ~BotBusy(t) /\ Linked(t)
ShownLive(t)    == ~BotBusy(t) /\ Linked(t) /\ ~(~panel[t].live /\ panel[t].confirming)
ShownConfirm(t) == ~panel[t].live /\ panel[t].confirming
ShownEnable(t)  == ShownConfirm(t) /\ ~BotBusy(t) /\ canGoLive(t) /\ panel[t].phrase

(* update: shown at once, sent as a patch of the one field.                *)
toggleActive(t) ==
  /\ ShownActive(t)
  /\ panel' = [panel EXCEPT ![t].active = ~@]
  /\ Call(t, CallOf("set", IF panel[t].active THEN "off" ELSE "on", NoPatch, NoKeys,
                    FALSE, Before(t)))
  /\ Press

turnLiveOff(t) ==
  /\ ShownLive(t) /\ panel[t].live
  /\ panel' = [panel EXCEPT ![t].live = FALSE, ![t].confirming = FALSE]
  /\ Call(t, CallOf("set", NoPatch, "off", NoKeys, FALSE, Before(t)))
  /\ Press

askLive(t) ==
  /\ ShownLive(t) /\ ~panel[t].live
  /\ panel' = [panel EXCEPT ![t].confirming = TRUE]
  /\ Local

typePhrase(t) ==
  /\ ShownConfirm(t)
  /\ panel' = [panel EXCEPT ![t].phrase = TRUE]
  /\ Local

stayDry(t) ==
  /\ ShownConfirm(t) /\ ~BotBusy(t)
  /\ panel' = [panel EXCEPT ![t].confirming = FALSE, ![t].phrase = FALSE]
  /\ Local

confirmGoLive(t) ==
  /\ ShownEnable(t)
  /\ Call(t, CallOf("goLive", NoPatch, "on", NoKeys, FALSE, Before(t)))
  /\ Press /\ UNCHANGED panel

-----------------------------------------------------------------------------
(* CredentialsForm *)

ShownForm(t)   == ~Linked(t) \/ panel[t].showForm
ShownSubmit(t) == ShownForm(t) /\ ~Busy(t, {"save"})

openForm(t) ==
  /\ ~ShownForm(t)
  /\ panel' = [panel EXCEPT ![t].showForm = TRUE]
  /\ Local

pickExchange(t, ex) ==
  /\ ShownForm(t) /\ ex # panel[t].exchange
  /\ panel' = [panel EXCEPT ![t].exchange = ex]
  /\ Local

cancelForm(t) ==
  /\ ShownForm(t) /\ Linked(t) /\ ~Busy(t, {"save"})
  /\ panel' = [panel EXCEPT ![t].showForm = FALSE, ![t].exchange = props[t].linked]
  /\ Local

submit(t) ==
  /\ ShownSubmit(t)
  /\ Call(t, CallOf("save", NoPatch, NoPatch, panel[t].exchange, Switching(t), Before(t)))
  /\ Press /\ UNCHANGED panel

-----------------------------------------------------------------------------
(* The server *)

Head1(t)  == queue[t][1]
Active(t) == queue[t] # <<>>
Ends(t, how) == queue' = [queue EXCEPT ![t][1].at = how]
Sent(t, op) == Active(t) /\ Head1(t).op = op /\ Head1(t).at = "sent"
Wrote(t)  == overtaken' = overtaken \cup (Pages \ {t})
Untouched == UNCHANGED <<runnable, props, panel, presses, panelFaults>>

Field(patch, old) == IF patch = NoPatch THEN old ELSE patch = "on"
setBotState(c) == bot' = [active |-> Field(c.active, bot.active),
                          live   |-> Field(c.live, bot.live)]

(* setBotAction: on needs keys, off is never refused.                      *)
setBot(t) ==
  /\ Sent(t, "set")
  /\ \/ /\ Head1(t).active = "on" => keys # NoKeys
        /\ setBotState(Head1(t)) /\ Wrote(t) /\ Ends(t, "ok")
     \/ /\ Head1(t).active = "on" /\ keys = NoKeys
        /\ Ends(t, "failed") /\ UNCHANGED <<bot, overtaken>>
  /\ UNCHANGED keys /\ Untouched

(* goLiveAction: keys linked and a strategy enabled.                       *)
goLive(t) ==
  /\ Sent(t, "goLive")
  /\ \/ /\ keys # NoKeys /\ runnable
        /\ setBotState(Head1(t)) /\ Wrote(t) /\ Ends(t, "ok")
     \/ /\ keys = NoKeys \/ ~runnable
        /\ Ends(t, "failed") /\ UNCHANGED <<bot, overtaken>>
  /\ UNCHANGED keys /\ Untouched

(* Mutant: the switch of exchange leaves live trading as it is.            *)
StaysLive(switched) == bot

(* A switch drops to DRY_RUN before the keys move.                         *)
DropsLive(switched) == IF switched THEN [bot EXCEPT !.live = FALSE] ELSE bot

(* saveCredentialsAction; open positions refuse a switch.                  *)
saveCredentials(t) ==
  LET switched == keys # NoKeys /\ keys # Head1(t).ex
  IN /\ Sent(t, "save")
     /\ \/ /\ bot' = DropsLive(switched)
           /\ keys' = Head1(t).ex
           /\ Wrote(t) /\ Ends(t, "ok")
        \/ /\ switched
           /\ Ends(t, "failed") /\ UNCHANGED <<bot, keys, overtaken>>
     /\ Untouched

(* A call fails before its effect, or its reply is lost after it.          *)
CallBreaks(t) ==
  /\ Active(t) /\ panelFaults < MaxPanelFaults
  /\ \/ Head1(t).at = "sent" /\ UNCHANGED overtaken
     \/ Head1(t).at = "ok" /\ overtaken' = overtaken \cup {t}
  /\ Ends(t, "failed")
  /\ panelFaults' = panelFaults + 1
  /\ UNCHANGED <<bot, keys, runnable, props, panel, presses>>

(* The components when the call is answered: the page's props are renewed, *)
(* the state is what the handler sets.                                     *)
Answered(t, c) ==
  CASE c.op = "goLive" -> [panel[t] EXCEPT !.live = TRUE, !.confirming = FALSE,
                                           !.phrase = FALSE]
    [] c.op = "save"   -> [panel[t] EXCEPT !.showForm = FALSE]
    [] OTHER           -> panel[t]

answer(t) ==
  /\ Active(t) /\ Head1(t).at = "ok"
  /\ panel' = [panel EXCEPT ![t] = Answered(t, Head1(t))]
  /\ props' = [props EXCEPT ![t] = Rendered]
  /\ queue' = [queue EXCEPT ![t] = Tail(@)]
  /\ UNCHANGED <<bot, keys, runnable, presses, panelFaults, overtaken>>

(* Mutant: the catch only tells the user.                                  *)
LeftAsShown(t, c) == panel[t]

(* The catch of update puts both switches back to what they were.          *)
Reverted(t, c) ==
  IF c.op = "set" THEN [panel[t] EXCEPT !.active = c.prev.active, !.live = c.prev.live]
                  ELSE panel[t]

failure(t) ==
  /\ Active(t) /\ Head1(t).at = "failed"
  /\ panel' = [panel EXCEPT ![t] = Reverted(t, Head1(t))]
  /\ queue' = [queue EXCEPT ![t] = Tail(@)]
  /\ UNCHANGED <<bot, keys, runnable, props, presses, panelFaults, overtaken>>

-----------------------------------------------------------------------------
(* Others on the same account: the owner's kill switch, and the strategies *)
(* page enabling or disabling the last strategy.                           *)
adminDisableBot ==
  /\ presses < MaxPresses /\ presses' = presses + 1
  /\ bot' = [active |-> FALSE, live |-> FALSE]
  /\ overtaken' = Pages
  /\ UNCHANGED <<keys, runnable, props, panel, queue, panelFaults>>

strategiesChange ==
  /\ presses < MaxPresses /\ presses' = presses + 1
  /\ runnable' = ~runnable
  /\ UNCHANGED <<bot, keys, props, panel, queue, panelFaults, overtaken>>

PanelInit ==
  /\ bot = [active |-> FALSE, live |-> FALSE]
  /\ keys \in {NoKeys, "coindcx"} /\ runnable = TRUE
  /\ props = [t \in Pages |-> Rendered]
  /\ panel = [t \in Pages |-> Mounted]
  /\ queue = [t \in Pages |-> <<>>]
  /\ presses = 0 /\ panelFaults = 0 /\ overtaken = {}

PanelNext ==
  \/ adminDisableBot \/ strategiesChange
  \/ \E t \in Pages :
       \/ reload(t) \/ toggleActive(t) \/ turnLiveOff(t) \/ askLive(t) \/ typePhrase(t)
       \/ stayDry(t) \/ confirmGoLive(t) \/ openForm(t) \/ cancelForm(t) \/ submit(t)
       \/ \E ex \in Venues : pickExchange(t, ex)
       \/ setBot(t) \/ goLive(t) \/ saveCredentials(t)
       \/ CallBreaks(t) \/ answer(t) \/ failure(t)

PanelSpec == PanelInit /\ [][PanelNext]_panelVars

-----------------------------------------------------------------------------
PanelTypeOK ==
  /\ bot \in [active : BOOLEAN, live : BOOLEAN]
  /\ keys \in Venues \cup {NoKeys} /\ runnable \in BOOLEAN
  /\ props \in [Pages -> [linked : Venues \cup {NoKeys}, canRun : BOOLEAN]]
  /\ panel \in [Pages -> [active : BOOLEAN, live : BOOLEAN, confirming : BOOLEAN,
                          phrase : BOOLEAN, showForm : BOOLEAN, exchange : Venues]]
  /\ presses \in 0 .. MaxPresses /\ panelFaults \in 0 .. MaxPanelFaults
  /\ overtaken \subseteq Pages

(* A page that says DRY_RUN with nothing in flight is right: going live is *)
(* shown when it is confirmed, turning it off is shown at once and taken   *)
(* back if it is refused, in any order with key changes of the same tab    *)
(* (BotControls.tsx update, confirmGoLive).  Another tab's change and a    *)
(* lost reply are the exceptions.                                          *)
DryMeansDry ==
  \A t \in Pages \ overtaken : queue[t] = <<>> /\ ~panel[t].live => ~bot.live

(* "Switched to ... - the bot is back in DRY_RUN" (CredentialsForm.tsx:70) *)
(* is said only when it is so; what the form calls a switch is judged by   *)
(* the page's props, what the action calls one by the stored keys.         *)
SwitchedMeansDry ==
  \A t \in Pages \ overtaken :
     Active(t) /\ Head1(t).at = "ok" /\ Head1(t).switching => ~bot.live
=============================================================================
