------------------------------ MODULE Settings ------------------------------
(***************************************************************************)
(* The user's preferences: the notification_prefs row (lib/queries.ts),    *)
(* the server actions that change it (app/actions.ts), the settings and    *)
(* dashboard pages that show it in several browser tabs                    *)
(* (NotificationSettings, CurrencySettings, TradingPermissions,            *)
(* StatWindowMenu) and the notify route that reads it for every fill.      *)
(*                                                                         *)
(* A deployed table may be missing, or lack the columns that shipped late; *)
(* every read repairs that on its first miss and tries once more.  A call  *)
(* of a server action is split at its awaits: read the row, write it, send *)
(* the test message, answer.  The calls of one tab run one after another   *)
(* (the router's action queue); those of two tabs interleave.  No row and  *)
(* a row of defaults cannot be told apart by any reader, so the row is a   *)
(* record that starts at the defaults.                                     *)
(***************************************************************************)
EXTENDS Naturals, Sequences, FiniteSets

CONSTANTS Tabs,        \* open browser tabs of one user
          Chats,       \* chat ids that can be typed; the numeric ones are
          Numeric,     \* Numeric \subseteq Chats
          Currencies,  \* display currencies, "INR" among them
          Windows,     \* dashboard timelines, "1d" among them
          Schemas,     \* what a deployed database may lack: sets of pieces
          MaxClicks,   \* bound: what the user does in all tabs together
          MaxFaults    \* bound: calls that fail or whose reply is lost

VARIABLES lacking,   \* pieces of the schema that are absent
          stored,    \* the notification_prefs row
          page,      \* page[t]: the page tab t shows, or "closed"
          reads,     \* reads[t][q]: how far the page's query q has come
          shown,     \* shown[t]: the state the page's components hold
          draft,     \* draft[t]: the chat id typed and not yet connected
          calls,     \* calls[t]: the tab's server actions, in order
          prefClicks, prefFaults,
          stale      \* history: tabs another tab, or a lost reply, overtook

settingsVars == <<lacking, stored, page, reads, shown, draft, calls,
                  prefClicks, prefFaults, stale>>

NoChat == "none"

DEFAULT_PREFS == [email |-> TRUE, telegram |-> FALSE, chat |-> NoChat,
                  currency |-> "INR", window |-> "1d", short |-> FALSE]

(* The columns that shipped after the table, and the one each query names. *)
LateColumns == {"currency", "window", "short"}
Needs(q)    == {"table"} \cup ({q} \cap LateColumns)

(* The queries of a page.  The dashboard awaits its timeline first.        *)
QueriesOf(p) == IF p = "settings" THEN {"prefs", "currency", "short"}
                                  ELSE {"window", "currency"}
FieldsOf(q)  == IF q = "prefs" THEN {"email", "telegram", "chat"} ELSE {q}
InTurn(t, q) == page[t] = "dashboard" /\ q # "window" => reads[t]["window"] = "ok"

Loaded(t) == page[t] # "closed" /\ \A q \in QueriesOf(page[t]) : reads[t][q] = "ok"

-----------------------------------------------------------------------------
(* Reading, with the repair of the schema.                                 *)

(* Mutant: the table as it was first shipped.                              *)
FirstDDL == {"table"}

(* PREFS_DDL brings every column; an ALTER brings one.                     *)
PREFS_DDL        == {"table"} \cup LateColumns
Repair(q)        == IF "table" \in lacking THEN PREFS_DDL ELSE {q}
SetRead(t, q, s) == reads' = [reads EXCEPT ![t][q] = s]
Takes(t, q)      == shown' = [shown EXCEPT ![t] = [f \in DOMAIN @ |->
                                IF f \in FieldsOf(q) THEN stored[f] ELSE @[f]]]

OpenPage(t, p) ==
  /\ page[t] = "closed" /\ prefClicks < MaxClicks
  /\ page'  = [page EXCEPT ![t] = p]
  /\ reads' = [reads EXCEPT ![t] = [q \in {"prefs"} \cup LateColumns |->
                 IF q \in QueriesOf(p) THEN "try" ELSE "ok"]]
  /\ stale' = stale \ {t}
  /\ prefClicks' = prefClicks + 1
  /\ UNCHANGED <<lacking, stored, shown, draft, calls, prefFaults>>

(* fn() of withPrefsTable, the first time and after a repair.              *)
ReadPrefs(t, q) ==
  /\ page[t] # "closed" /\ reads[t][q] \in {"try", "retry"} /\ InTurn(t, q)
  /\ \/ /\ Needs(q) \cap lacking = {}
        /\ SetRead(t, q, "ok") /\ Takes(t, q)
     \/ /\ Needs(q) \cap lacking # {}
        /\ SetRead(t, q, IF reads[t][q] = "try" THEN "repair" ELSE "missed")
        /\ UNCHANGED shown
  /\ UNCHANGED <<lacking, stored, page, draft, calls, prefClicks, prefFaults, stale>>

(* The statement the miss chose: creating the table is idempotent, adding  *)
(* a column another page has added meanwhile throws.                       *)
Heal(t, q) ==
  /\ page[t] # "closed" /\ reads[t][q] = "repair"
  /\ \/ /\ Needs(q) \cap lacking # {}
        /\ lacking' = lacking \ Repair(q)
        /\ SetRead(t, q, "retry")
     \/ /\ Needs(q) \cap lacking = {}
        /\ SetRead(t, q, IF q = "prefs" THEN "retry" ELSE "duplicate")
        /\ UNCHANGED lacking
  /\ UNCHANGED <<stored, page, shown, draft, calls, prefClicks, prefFaults, stale>>

(* A query that threw is the error page; the user reloads, or leaves.      *)
ClosePage(t) ==
  /\ page[t] # "closed"
  /\ Loaded(t) \/ \E q \in QueriesOf(page[t]) : reads[t][q] \in {"missed", "duplicate"}
  /\ calls[t] = <<>>
  /\ page'  = [page EXCEPT ![t] = "closed"]
  /\ draft' = [draft EXCEPT ![t] = NoChat]
  /\ shown' = [shown EXCEPT ![t] = DEFAULT_PREFS]
  /\ UNCHANGED <<lacking, stored, reads, calls, prefClicks, prefFaults, stale>>

-----------------------------------------------------------------------------
(* The components of a page.                                               *)

Notification == {"email", "connect", "remove"}
Pending(t, ops) == \E i \in DOMAIN calls[t] : calls[t][i].op \in ops

Call(t, op, val, prev) ==
  calls' = [calls EXCEPT ![t] = Append(@, [op |-> op, val |-> val, prev |-> prev,
                                           at |-> "queued", cur |-> stored])]

OnSettings(t) == page[t] = "settings" /\ Loaded(t) /\ prefClicks < MaxClicks

(* What each component lets the user press.  Only the Enter key of the     *)
(* chat field and the two menus ignore a call in flight.                   *)
ShownEmailToggle(t) == OnSettings(t) /\ ~Pending(t, Notification)
ShownShortToggle(t) == OnSettings(t) /\ ~Pending(t, {"short"})
ShownRemove(t)      == OnSettings(t) /\ shown[t].telegram /\ ~Pending(t, Notification)
ShownDraft(t)       == OnSettings(t) /\ ~shown[t].telegram
ShownCurrency(t)    == OnSettings(t)
ShownWindow(t)      == page[t] = "dashboard" /\ Loaded(t) /\ prefClicks < MaxClicks

Pressed == /\ prefClicks' = prefClicks + 1
           /\ UNCHANGED <<lacking, stored, page, reads, prefFaults, stale>>

toggleEmail(t) ==
  /\ ShownEmailToggle(t)
  /\ shown' = [shown EXCEPT ![t].email = ~@]
  /\ Call(t, "email", ~shown[t].email, shown[t].email)
  /\ Pressed /\ UNCHANGED <<draft>>

toggleShorting(t) ==
  /\ ShownShortToggle(t)
  /\ shown' = [shown EXCEPT ![t].short = ~@]
  /\ Call(t, "short", ~shown[t].short, shown[t].short)
  /\ Pressed /\ UNCHANGED <<draft>>

chooseCurrency(t, c) ==
  /\ ShownCurrency(t) /\ c # shown[t].currency
  /\ shown' = [shown EXCEPT ![t].currency = c]
  /\ Call(t, "currency", c, shown[t].currency)
  /\ Pressed /\ UNCHANGED <<draft>>

chooseWindow(t, w) ==
  /\ ShownWindow(t) /\ w # shown[t].window
  /\ shown' = [shown EXCEPT ![t].window = w]
  /\ Call(t, "window", w, shown[t].window)
  /\ Pressed /\ UNCHANGED <<draft>>

typeChat(t, id) ==
  /\ ShownDraft(t) /\ draft[t] # id
  /\ draft' = [draft EXCEPT ![t] = id]
  /\ UNCHANGED <<lacking, stored, page, reads, shown, calls, prefClicks, prefFaults,
                 stale>>

connectTelegram(t) ==
  /\ ShownDraft(t) /\ draft[t] # NoChat
  /\ Call(t, "connect", draft[t], NoChat)
  /\ Pressed /\ UNCHANGED <<shown, draft>>

removeTelegram(t) ==
  /\ ShownRemove(t)
  /\ Call(t, "remove", NoChat, NoChat)
  /\ Pressed /\ UNCHANGED <<shown, draft>>

-----------------------------------------------------------------------------
(* The server actions.                                                     *)

Head1(t)    == calls[t][1]
Running(t)  == calls[t] # <<>>
Goes(t, at) == calls' = [calls EXCEPT ![t][1].at = at]

(* saveTelegramNotificationsAction refuses what is not a number.           *)
Refuses(c) == c.op = "connect" /\ c.val \notin Numeric

(* setNotificationPrefs reads the row...                                   *)
ReadRow(t) ==
  /\ Running(t) /\ Head1(t).op \in Notification /\ Head1(t).at = "queued"
  /\ IF Refuses(Head1(t)) THEN Goes(t, "failed")
     ELSE calls' = [calls EXCEPT ![t][1].at = "write", ![t][1].cur = stored]
  /\ UNCHANGED <<lacking, stored, page, reads, shown, draft, prefClicks, prefFaults,
                 stale>>

(* Mutant: removing the chat leaves the channel switched on.               *)
PatchedChatOnly(c) ==
  CASE c.op = "email"   -> [c.cur EXCEPT !.email = c.val]
    [] c.op = "connect" -> [c.cur EXCEPT !.telegram = TRUE, !.chat = c.val]
    [] c.op = "remove"  -> [c.cur EXCEPT !.chat = NoChat]

(* ...and writes its three columns back with the patch applied.            *)
Patched(c) ==
  CASE c.op = "email"   -> [c.cur EXCEPT !.email = c.val]
    [] c.op = "connect" -> [c.cur EXCEPT !.telegram = TRUE, !.chat = c.val]
    [] c.op = "remove"  -> [c.cur EXCEPT !.telegram = FALSE, !.chat = NoChat]

ThreeColumns(row) == [stored EXCEPT !.email = row.email, !.telegram = row.telegram,
                                    !.chat = row.chat]

WriteRow(t) ==
  /\ Running(t) /\ Head1(t).at = "write"
  /\ stored' = ThreeColumns(Patched(Head1(t)))
  /\ Goes(t, IF Head1(t).op = "connect" THEN "test" ELSE "ok")
  /\ stale' = stale \cup (Tabs \ {t})
  /\ UNCHANGED <<lacking, page, reads, shown, draft, prefClicks, prefFaults>>

(* setCurrency, setStatWindow, setAllowShorting: an upsert of one column.  *)
(* An insert that names a missing column is not a miss the repair knows.   *)
WriteColumn(t) ==
  /\ Running(t) /\ Head1(t).op \in LateColumns /\ Head1(t).at = "queued"
  /\ \/ /\ Needs(Head1(t).op) \cap lacking = {}
        /\ stored' = [stored EXCEPT ![Head1(t).op] = Head1(t).val]
        /\ Goes(t, "ok") /\ stale' = stale \cup (Tabs \ {t})
     \/ /\ Needs(Head1(t).op) \cap lacking # {}
        /\ Goes(t, "unhealed") /\ UNCHANGED <<stored, stale>>
  /\ UNCHANGED <<lacking, page, reads, shown, draft, prefClicks, prefFaults>>

(* sendTelegram reports what happened and never throws: the call succeeds. *)
TestMessage(t) ==
  /\ Running(t) /\ Head1(t).at = "test"
  /\ Goes(t, "ok")
  /\ UNCHANGED <<lacking, stored, page, reads, shown, draft, prefClicks, prefFaults,
                 stale>>

(* The call fails before its write, or its reply is lost after it.         *)
Breaks(t) ==
  /\ Running(t) /\ prefFaults < MaxFaults
  /\ \/ Head1(t).at \in {"queued", "write"} /\ UNCHANGED stale
     \/ Head1(t).at = "ok" /\ stale' = stale \cup {t}
  /\ Goes(t, "failed")
  /\ prefFaults' = prefFaults + 1
  /\ UNCHANGED <<lacking, stored, page, reads, shown, draft, prefClicks>>

(* The components when the call comes back.                                *)
Answer(t) ==
  /\ Running(t) /\ Head1(t).at = "ok"
  /\ CASE Head1(t).op = "connect" ->
            /\ shown' = [shown EXCEPT ![t].chat = Head1(t).val, ![t].telegram = TRUE]
            /\ draft' = [draft EXCEPT ![t] = NoChat]
       [] Head1(t).op = "remove" ->
            /\ shown' = [shown EXCEPT ![t].chat = NoChat, ![t].telegram = FALSE]
            /\ UNCHANGED draft
       [] OTHER -> UNCHANGED <<shown, draft>>
  /\ calls' = [calls EXCEPT ![t] = Tail(@)]
  /\ UNCHANGED <<lacking, stored, page, reads, prefClicks, prefFaults, stale>>

(* Mutant: the catch only tells the user.                                  *)
NotRolledBack(t, c) == shown[t]

(* The catch of each handler: what was shown too early goes back.          *)
RolledBack(t, c) ==
  IF c.op \in DOMAIN DEFAULT_PREFS THEN [shown[t] EXCEPT ![c.op] = c.prev] ELSE shown[t]

Refused(t) ==
  /\ Running(t) /\ Head1(t).at \in {"failed", "unhealed"}
  /\ shown' = [shown EXCEPT ![t] = RolledBack(t, Head1(t))]
  /\ calls' = [calls EXCEPT ![t] = Tail(@)]
  /\ UNCHANGED <<lacking, stored, page, reads, draft, prefClicks, prefFaults, stale>>

-----------------------------------------------------------------------------
(* The notify route fans a fill out to the channels the row allows; its    *)
(* own repair can only be the idempotent one.                              *)
getNotifyTarget == [email |-> stored.email,
                    telegram |-> stored.telegram /\ stored.chat # NoChat]

FanOut(target) == {ch \in {"email", "telegram"} : target[ch]}

Fill ==
  /\ "table" \in lacking
  /\ lacking' = lacking \ PREFS_DDL
  /\ UNCHANGED <<stored, page, reads, shown, draft, calls, prefClicks, prefFaults,
                 stale>>

-----------------------------------------------------------------------------
SettingsInit ==
  /\ lacking \in Schemas
  /\ stored = DEFAULT_PREFS
  /\ page  = [t \in Tabs |-> "closed"]
  /\ reads = [t \in Tabs |-> [q \in {"prefs"} \cup LateColumns |-> "ok"]]
  /\ shown = [t \in Tabs |-> DEFAULT_PREFS]
  /\ draft = [t \in Tabs |-> NoChat]
  /\ calls = [t \in Tabs |-> <<>>]
  /\ prefClicks = 0 /\ prefFaults = 0
  /\ stale = {}

ByUser(t) ==
  \/ \E p \in {"settings", "dashboard"} : OpenPage(t, p)
  \/ ClosePage(t)
  \/ toggleEmail(t) \/ toggleShorting(t)
  \/ \E c \in Currencies : chooseCurrency(t, c)
  \/ \E w \in Windows : chooseWindow(t, w)
  \/ \E id \in Chats : typeChat(t, id)
  \/ connectTelegram(t) \/ removeTelegram(t)

ByServer(t) ==
  \/ \E q \in {"prefs"} \cup LateColumns : ReadPrefs(t, q) \/ Heal(t, q)
  \/ ReadRow(t) \/ WriteRow(t) \/ WriteColumn(t) \/ TestMessage(t)
  \/ Breaks(t) \/ Answer(t) \/ Refused(t)

SettingsNext == Fill \/ \E t \in Tabs : ByUser(t) \/ ByServer(t)

SettingsSpec == SettingsInit /\ [][SettingsNext]_settingsVars

-----------------------------------------------------------------------------
SettingsRow == [email : BOOLEAN, telegram : BOOLEAN, chat : Chats \cup {NoChat},
                currency : Currencies, window : Windows, short : BOOLEAN]

SettingsTypeOK ==
  /\ lacking \subseteq PREFS_DDL
  /\ stored \in SettingsRow /\ shown \in [Tabs -> SettingsRow]
  /\ page \in [Tabs -> {"closed", "settings", "dashboard"}]
  /\ draft \in [Tabs -> Chats \cup {NoChat}]
  /\ prefClicks \in 0 .. MaxClicks /\ prefFaults \in 0 .. MaxFaults
  /\ stale \subseteq Tabs

(* Telegram is never on without a chat to send to, whatever calls of       *)
(* whatever tabs overwrite one another: the three columns are written as   *)
(* one row (setNotificationPrefs), and every alert that is on goes out.    *)
OnHasAChat ==
  /\ stored.telegram <=> stored.chat # NoChat
  /\ FanOut(getNotifyTarget) = {ch \in {"email", "telegram"} : stored[ch]}

(* A tab with nothing in flight shows the alerts and the permission that   *)
(* are stored, after refused calls too, unless another tab wrote since or  *)
(* a reply was lost: the optimistic toggles and their rollback, across the *)
(* shared `pending` of the notification card (NotificationSettings.tsx).   *)
TabShowsStored ==
  \A t \in Tabs \ stale :
     page[t] = "settings" /\ Loaded(t) /\ calls[t] = <<>> =>
       \A f \in {"email", "telegram", "chat", "short"} : shown[t][f] = stored[f]

(* One repair is enough: the retry of withPrefsTable never misses again,   *)
(* and no write meets a column that is still missing (an insert's message  *)
(* is not one the repair recognises; the page's own reads come first).     *)
HealedIsEnough ==
  \A t \in Tabs :
     /\ page[t] # "closed" => \A q \in QueriesOf(page[t]) : reads[t][q] # "missed"
     /\ \A i \in DOMAIN calls[t] : calls[t][i].at # "unhealed"
=============================================================================
