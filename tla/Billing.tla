------------------------------- MODULE Billing -------------------------------
(***************************************************************************)
(* Subscriptions of one user: checkout and cancellation (app/actions.ts),  *)
(* the Cashfree webhook (app/api/cashfree/webhook/route.ts), the manual    *)
(* grant of the admin console, and the tier that results (lib/queries.ts). *)
(* Checkout is switched off in the code (PRICING_ENABLED = false); the     *)
(* machine models the plumbing with the switch as a constant.              *)
(* Time is counted in ticks, null period_end is 0 (never in the future).   *)
(***************************************************************************)
EXTENDS Naturals, FiniteSets

CONSTANTS PAID_TIERS,       \* tiers a user can subscribe to
          SubIds,           \* subscription ids randomUUID can produce
          EventTypes,       \* what an event is: the words the webhook looks for in its name
          MONTH,            \* ticks of access bought by a payment or a grant
          PRICING_ENABLED,  \* the switch of actions.ts
          MaxTime,          \* bound on the clock
          MaxEvents,        \* bound on the events Cashfree emits
          MaxCalls,         \* checkout and cancel requests in flight at once
          MaxGrants,        \* bound on the paid plans the owner grants
          MaxDeaths         \* bound on requests that die half way

ASSUME BillingAssumption == MONTH \in Nat

VARIABLES clock,     \* Date.now()
          row,       \* the user's row of subscriptions
          mandates,  \* what Cashfree knows of each subscription
          events,    \* events Cashfree has emitted; each may be delivered again and again
          recorded,  \* ids in billing_events
          handling,  \* events recorded by a webhook request that has not yet answered
          calls,     \* checkout and cancel requests between their two writes
          deaths,    \* requests that died half way
          applied,   \* history: how often each event changed the subscription
          grants,    \* history: paid plans the owner granted
          used       \* history: ticks of access the user has had

billingVars == <<clock, row, mandates, events, recorded, handling, calls, deaths, applied, grants, used>>

NoRow == [tier |-> "free", status |-> "none", sub |-> "none", period_end |-> 0]

Row == [tier : PAID_TIERS \cup {"free"},
        status : {"none", "pending", "active", "past_due", "cancelled", "expired"},
        sub : SubIds \cup {"none"}, period_end : Nat]

Event == [type : EventTypes, sub : SubIds, ts : Nat]
Call == [op : {"start", "cancel"}, sub : SubIds \cup {"none"}, tier : PAID_TIERS \cup {"free"}]

BillingTypeOK ==
    /\ clock \in Nat /\ deaths \in Nat
    /\ row \in Row
    /\ mandates \in [SubIds -> {"none", "created", "offered", "ended"}]
    /\ events \subseteq Event /\ recorded \subseteq events /\ handling \subseteq recorded
    /\ calls \subseteq Call
    /\ DOMAIN applied = events /\ \A e \in events : applied[e] \in Nat
    /\ grants \in Nat /\ used \in Nat

BillingInit ==
    /\ clock = 1 /\ deaths = 0
    /\ row = NoRow
    /\ mandates = [s \in SubIds |-> "none"]
    /\ events = {} /\ recorded = {} /\ handling = {} /\ calls = {}
    /\ applied = [e \in {} |-> 0] /\ grants = 0 /\ used = 0

-----------------------------------------------------------------------------
(* The read side *)

\* Entitled while the period has not ended and the subscription is not dead.
effectiveTier(r, now) ==
    LET paidUp == r.period_end # 0 /\ r.period_end > now
        ok == paidUp /\ r.status \in {"active", "cancelled"}
    IN IF ok THEN r.tier ELSE "free"

\* The condition under which the admin statistics count the row as paying.
PAYING(r, now) ==
    r.status \in {"active", "cancelled"} /\ r.period_end # 0 /\ r.period_end > now

Access == effectiveTier(row, clock) # "free"

-----------------------------------------------------------------------------
(* Writes to the subscriptions table *)

\* Insert, or update on conflict: the period of an earlier subscription is left as it is.
createPendingSubscription(r, sub, tier) ==
    [r EXCEPT !.tier = tier, !.status = "pending", !.sub = sub]

\* The period is given as a set: {} leaves it as it is.
KeepPeriod == {}

\* An expired subscription loses its period. Mutant: the period stays.
PeriodStays == KeepPeriod
PeriodGone  == {0}

\* Only a row that still carries the subscription id is changed.
setSubscriptionStatus(r, sub, to, period) ==
    IF r.sub # sub THEN r
    ELSE [r EXCEPT !.status = to,
                   !.period_end = IF period = KeepPeriod THEN @ ELSE CHOOSE p \in period : TRUE]

adminSetTier(r, tier, now) ==
    [r EXCEPT !.tier = tier, !.status = "active",
              !.period_end = IF tier = "free" THEN 0 ELSE now + MONTH]

-----------------------------------------------------------------------------
(* The webhook *)

Has(T, words) == words \subseteq T

\* A cancelled subscription keeps the period it has. Mutant: it is given a month more.
MonthOfGrace(now) == {now + MONTH}
Grace(now)        == KeepPeriod

Payment(e) == Has(e.type, {"PAYMENT", "SUCCESS"})

\* What the handler does to the row for an event of type T; a paid period runs from now,
\* whenever the payment was taken.
EventEffect(r, e, now) ==
    LET T == e.type IN
    IF Payment(e)
        THEN setSubscriptionStatus(r, e.sub, "active", {now + MONTH})
    ELSE IF Has(T, {"PAYMENT"}) /\ (Has(T, {"FAIL"}) \/ Has(T, {"DECLINE"}))
        THEN setSubscriptionStatus(r, e.sub, "past_due", KeepPeriod)
    ELSE IF Has(T, {"CANCEL"}) THEN setSubscriptionStatus(r, e.sub, "cancelled", Grace(now))
    ELSE IF Has(T, {"EXPIR"}) THEN setSubscriptionStatus(r, e.sub, "expired", PeriodGone)
    ELSE r

\* Mutant: every delivery is taken for new.
AlwaysFresh(e, seen) == TRUE

\* recordBillingEvent: the unique index lets the first insert of an id through.
Fresh(e, seen) == e \notin seen

\* Mutant: the event is to be recorded once it has been handled.
RecordedLater(e) == recorded
Recorded(e)      == recorded \cup {e}

\* Cashfree delivers an event, for the first time or again, in any order.
Deliver(e) ==
    /\ e \in events
    /\ recorded' = Recorded(e)
    /\ handling' = IF Fresh(e, recorded) THEN handling \cup {e} ELSE handling
    /\ UNCHANGED <<clock, row, mandates, events, calls, deaths, applied, grants, used>>

\* The same request, after its awaited reads, changes the subscription.
Apply(e) ==
    /\ e \in handling
    /\ handling' = handling \ {e}
    /\ row' = EventEffect(row, e, clock)
    /\ applied' = [applied EXCEPT ![e] = @ + 1]
    /\ UNCHANGED <<clock, mandates, events, recorded, calls, deaths, grants, used>>

\* The request dies between the record and the change: a redelivery is a duplicate by then.
HandlerDies(e) ==
    /\ e \in handling /\ deaths < MaxDeaths
    /\ handling' = handling \ {e}
    /\ deaths' = deaths + 1
    /\ UNCHANGED <<clock, row, mandates, events, recorded, calls, applied, grants, used>>

-----------------------------------------------------------------------------
(* The user and the owner *)

\* startSubscriptionAction: the mandate is created at Cashfree first.
StartSubscription(tier, s) ==
    /\ PRICING_ENABLED
    /\ tier \in PAID_TIERS /\ mandates[s] = "none" /\ Cardinality(calls) < MaxCalls
    /\ mandates' = [mandates EXCEPT ![s] = "created"]
    /\ calls' = calls \cup {[op |-> "start", sub |-> s, tier |-> tier]}
    /\ UNCHANGED <<clock, row, events, recorded, handling, deaths, applied, grants, used>>

\* ... then recorded here, and only then does the user get the session to pay in.
StartRecorded(c) ==
    /\ c \in calls /\ c.op = "start"
    /\ calls' = calls \ {c}
    /\ row' = createPendingSubscription(row, c.sub, c.tier)
    /\ mandates' = [mandates EXCEPT ![c.sub] = "offered"]
    /\ UNCHANGED <<clock, events, recorded, handling, deaths, applied, grants, used>>

\* cancelSubscriptionAction: reads the row, cancels at Cashfree ...
CancelSubscription ==
    /\ row.sub # "none" /\ Cardinality(calls) < MaxCalls
    /\ mandates' = [mandates EXCEPT ![row.sub] = "ended"]
    /\ calls' = calls \cup {[op |-> "cancel", sub |-> row.sub, tier |-> "free"]}
    /\ UNCHANGED <<clock, row, events, recorded, handling, deaths, applied, grants, used>>

\* ... then marks the row, if it still belongs to that subscription.
CancelRecorded(c) ==
    /\ c \in calls /\ c.op = "cancel"
    /\ calls' = calls \ {c}
    /\ row' = setSubscriptionStatus(row, c.sub, "cancelled", KeepPeriod)
    /\ UNCHANGED <<clock, mandates, events, recorded, handling, deaths, applied, grants, used>>

CallDies(c) ==
    /\ c \in calls /\ deaths < MaxDeaths
    /\ calls' = calls \ {c}
    /\ deaths' = deaths + 1
    /\ UNCHANGED <<clock, row, mandates, events, recorded, handling, applied, grants, used>>

AdminSetTier(tier) ==
    /\ row' = adminSetTier(row, tier, clock)
    /\ \/ tier = "free" /\ grants' = grants
       \/ tier # "free" /\ grants < MaxGrants /\ grants' = grants + 1
    /\ UNCHANGED <<clock, mandates, events, recorded, handling, calls, deaths, applied, used>>

-----------------------------------------------------------------------------
(* The environment *)

\* Cashfree reports on a mandate the user was offered; late news follow its end.
Emit(s, T) ==
    /\ mandates[s] \in {"offered", "ended"}
    /\ Cardinality(events) < MaxEvents
    /\ LET e == [type |-> T, sub |-> s, ts |-> clock] IN
        /\ e \notin events
        /\ events' = events \cup {e}
        /\ applied' = [x \in events \cup {e} |-> IF x = e THEN 0 ELSE applied[x]]
    /\ UNCHANGED <<clock, row, mandates, recorded, handling, calls, deaths, grants, used>>

Tick ==
    /\ clock < MaxTime
    /\ clock' = clock + 1
    /\ used' = IF Access THEN used + 1 ELSE used
    /\ UNCHANGED <<row, mandates, events, recorded, handling, calls, deaths, applied, grants>>

Webhook == \E e \in events : Deliver(e) \/ Apply(e) \/ HandlerDies(e)
Requests ==
    \/ \E t \in PAID_TIERS, s \in SubIds : StartSubscription(t, s)
    \/ CancelSubscription
    \/ \E c \in calls : StartRecorded(c) \/ CancelRecorded(c) \/ CallDies(c)
    \/ \E t \in PAID_TIERS \cup {"free"} : AdminSetTier(t)
Environment == Tick \/ \E s \in SubIds, T \in EventTypes : Emit(s, T)

BillingNext == Webhook \/ Requests \/ Environment

BillingSpec == BillingInit /\ [][BillingNext]_billingVars

-----------------------------------------------------------------------------
(* Properties *)

\* However often Cashfree delivers an event and however the requests overlap, the event
\* changes the subscription at most once (route.ts:33-41).
AppliedOnce == \A e \in events : applied[e] <= 1

\* What is left of the period, whether or not the status lets it count.
Left == IF row.period_end > clock THEN row.period_end - clock ELSE 0

\* No one gets more than was paid for: the access a user has had and the period still open
\* to him are at most a MONTH for each payment Cashfree took and each plan the owner
\* granted, however late, how often and in what order the events arrive, and whatever
\* checkouts and cancellations come between (route.ts:51-55, queries.ts:31-37, 270-286).
\* The code dates a period from the handling, so a late event moves the month it pays for;
\* it makes it no longer.
AccessWasPaid ==
    used + Left <= MONTH * (Cardinality({e \in events : Payment(e)}) + grants)

\* An expired subscription gives access again only by a payment or a grant, not by a late
\* cancellation or failure notice (route.ts:66-68 clears the period for this).
ExpiredStaysOut ==
    [][(row.status = "expired" /\ Access')
         => \/ grants' = grants + 1
            \/ \E e \in handling : Payment(e) /\ applied'[e] = applied[e] + 1]_billingVars

=============================================================================
