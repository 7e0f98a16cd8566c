------------------------------ MODULE AccountsProofs ------------------------------
(***************************************************************************)
(* The rows of one user, whatever the tiers, venues, plans, overlapping    *)
(* requests, failures and presses: the subscription and its webhook, the   *)
(* bot settings with the book behind them, and the owner's console.  Each  *)
(* has an inductive invariant of its own, and its properties follow from   *)
(* it; the last section puts the three together as the run explores them.  *)
(***************************************************************************)
EXTENDS MCAccounts, FiniteSetTheorems, TLAPS

-----------------------------------------------------------------------------
(***************************************************************************)
(* Proofs about one user's subscription, for any tiers, subscription ids,  *)
(* kinds of event and length of a paid period.                             *)
(*                                                                         *)
(* Counted: an event that has changed the subscription is recorded and no  *)
(* request still handles it.  Spent: whatever the order of notices,        *)
(* checkouts and cancellations, the access had and the period left are at  *)
(* most a MONTH for each payment that has been applied and each grant.     *)
(* Cleared: an expired subscription has no period.                         *)
(***************************************************************************)

SubStatuses == {"none", "pending", "active", "past_due", "cancelled", "expired"}

BillingTypes ==
    /\ clock \in Nat /\ grants \in Nat /\ used \in Nat /\ row \in Row
    /\ IsFiniteSet(events) /\ recorded \subseteq events /\ handling \subseteq recorded
    /\ calls \subseteq Call

Counted ==
    /\ DOMAIN applied = events
    /\ \A e \in events : \/ applied[e] = 0
                         \/ applied[e] = 1 /\ e \in recorded /\ e \notin handling

\* The payments that have changed the subscription, and the months bought with them.
Booked == {e \in events : Payment(e) /\ applied[e] # 0}
Months == Cardinality(Booked) + grants

Spent == used + Left <= MONTH * Months

Cleared == row.status = "expired" => row.period_end = 0

BillingInv == BillingTypes /\ Counted /\ Spent /\ Cleared

\* What a step may do to the money side of the row, so that Spent and Cleared stand: the
\* period stays or goes, or a month is bought and the period runs from now.
Extended ==
    /\ row'.period_end = clock + MONTH /\ row'.status # "expired"
    /\ Months' = Months + 1

Justified ==
    /\ row' \in Row /\ Months' \in {Months, Months + 1}
    /\ \/ row'.period_end = row.period_end /\ row'.status # "expired"
       \/ row'.period_end = 0
       \/ row' = row
       \/ Extended

-----------------------------------------------------------------------------
\* The only member of a set is the one chosen.
LEMMA ChosenOfOne == ASSUME NEW x PROVE (CHOOSE p \in {x} : TRUE) = x
  OBVIOUS

(* A status change without a period, and one that sets it.                 *)
LEMMA StatusOnly ==
  ASSUME NEW r \in Row, NEW sub, NEW to \in SubStatuses
  PROVE  LET q == setSubscriptionStatus(r, sub, to, KeepPeriod) IN
         /\ q \in Row /\ q.period_end = r.period_end /\ q.tier = r.tier
         /\ q = r \/ q.status = to
<1> DEFINE q == setSubscriptionStatus(r, sub, to, KeepPeriod)
<1>1. q = r \/ q = [r EXCEPT !.status = to, !.period_end = r.period_end]
  BY DEF setSubscriptionStatus
<1>2. [r EXCEPT !.status = to, !.period_end = r.period_end] \in Row
  BY DEF Row, SubStatuses
<1>3. LET s == [r EXCEPT !.status = to, !.period_end = r.period_end] IN
      s.period_end = r.period_end /\ s.tier = r.tier /\ s.status = to
  BY DEF Row
<1> HIDE DEF q
<1>4. q \in Row /\ q.period_end = r.period_end /\ q.tier = r.tier /\ (q = r \/ q.status = to)
  BY <1>1, <1>2, <1>3
<1> QED
  BY <1>4 DEF q

LEMMA StatusAndPeriod ==
  ASSUME NEW r \in Row, NEW sub, NEW to \in SubStatuses, NEW n \in Nat
  PROVE  LET q == setSubscriptionStatus(r, sub, to, {n}) IN
         /\ q \in Row
         /\ q = r \/ (q.status = to /\ q.period_end = n)
<1> DEFINE q == setSubscriptionStatus(r, sub, to, {n})
<1>1. q = r \/ q = [r EXCEPT !.status = to, !.period_end = n]
  BY ChosenOfOne DEF setSubscriptionStatus, KeepPeriod
<1>2. [r EXCEPT !.status = to, !.period_end = n] \in Row
  BY DEF Row, SubStatuses
<1>3. LET s == [r EXCEPT !.status = to, !.period_end = n] IN s.period_end = n /\ s.status = to
  BY DEF Row
<1> HIDE DEF q
<1>4. q \in Row /\ (q = r \/ (q.status = to /\ q.period_end = n))
  BY <1>1, <1>2, <1>3
<1> QED
  BY <1>4 DEF q

(* What an event does to the row: nothing, a paid period from now, a       *)
(* change of status alone, or the end of the period.                       *)
LEMMA EffectCases ==
  ASSUME NEW r \in Row, NEW e, NEW now \in Nat
  PROVE  LET q == EventEffect(r, e, now) IN
         /\ q \in Row
         /\ \/ q = r
            \/ /\ Payment(e)
               /\ q.status = "active" /\ q.period_end = now + MONTH
            \/ /\ ~Payment(e)
               /\ \/ q.status \in {"past_due", "cancelled"} /\ q.period_end = r.period_end
                  \/ q.status = "expired" /\ q.period_end = 0
<1> DEFINE q == EventEffect(r, e, now)
           paid == setSubscriptionStatus(r, e.sub, "active", {now + MONTH})
           due == setSubscriptionStatus(r, e.sub, "past_due", KeepPeriod)
           ended == setSubscriptionStatus(r, e.sub, "cancelled", KeepPeriod)
           over == setSubscriptionStatus(r, e.sub, "expired", PeriodGone)
<1>1. paid \in Row /\ (paid = r \/ (paid.status = "active" /\ paid.period_end = now + MONTH))
  BY BillingAssumption, StatusAndPeriod DEF SubStatuses
<1>2. due \in Row /\ due.period_end = r.period_end /\ (due = r \/ due.status = "past_due")
  BY StatusOnly DEF SubStatuses
<1>3. ended \in Row /\ ended.period_end = r.period_end /\ (ended = r \/ ended.status = "cancelled")
  BY StatusOnly DEF SubStatuses
<1>4. over \in Row /\ (over = r \/ (over.status = "expired" /\ over.period_end = 0))
  BY StatusAndPeriod DEF SubStatuses, PeriodGone
<1>5. \/ q = paid /\ Payment(e)
      \/ ~Payment(e) /\ q \in {due, ended, over, r}
  BY DEF EventEffect, Grace
<1> HIDE DEF q, paid, due, ended, over
<1>6. /\ q \in Row
      /\ \/ q = r
         \/ /\ Payment(e)
            /\ q.status = "active" /\ q.period_end = now + MONTH
         \/ /\ ~Payment(e)
            /\ \/ q.status \in {"past_due", "cancelled"} /\ q.period_end = r.period_end
               \/ q.status = "expired" /\ q.period_end = 0
  BY <1>1, <1>2, <1>3, <1>4, <1>5
<1> QED
  BY <1>6 DEF q

-----------------------------------------------------------------------------
\* The months bought are a number, and stay with the payments booked and the plans granted.
LEMMA MonthsCounted ==
  ASSUME BillingInv
  PROVE  Cardinality(Booked) \in Nat /\ Months \in Nat /\ IsFiniteSet(Booked)
<1>1. IsFiniteSet(events) /\ Booked \subseteq events /\ grants \in Nat
  BY DEF BillingInv, BillingTypes, Booked
<1>2. IsFiniteSet(Booked)
  BY <1>1, FS_Subset
<1>3. Cardinality(Booked) \in Nat
  BY <1>2, FS_CardinalityType
<1> QED
  BY <1>1, <1>2, <1>3 DEF Months

\* Nothing is bought where no event, no change by one and no grant comes in.
LEMMA MonthsKept ==
  ASSUME UNCHANGED <<events, applied, grants>> PROVE Booked' = Booked /\ Months' = Months
<1>1. Booked' = Booked
  BY DEF Booked, Payment, Has
<1> QED
  BY <1>1 DEF Months

\* Nobody has paid, and nothing is recorded.
LEMMA BillingStarts == BillingInit => BillingInv
<1> SUFFICES ASSUME BillingInit PROVE BillingInv
  OBVIOUS
<1>1. row \in Row /\ row.period_end = 0
  BY DEF BillingInit, NoRow, Row
<1>2. Booked = {} /\ clock = 1 /\ grants = 0 /\ used = 0
  BY DEF BillingInit, Booked
<1>3. Months = 0 /\ Left = 0
  BY <1>1, <1>2, FS_EmptySet DEF Months, Left
<1>4. Spent
  BY <1>2, <1>3, BillingAssumption DEF Spent
<1>5. BillingTypes
  BY <1>1, <1>2, FS_EmptySet DEF BillingInit, BillingTypes
<1> QED
  BY <1>1, <1>4, <1>5 DEF BillingInit, BillingInv, Counted, Cleared

\* A month more for every one bought.
LEMMA MonthMore == \A m, n \in Nat : m * n \in Nat /\ m * (n + 1) = m * n + m
  OBVIOUS

\* What is left may shrink and the bill may grow.
LEMMA Smaller ==
  \A u, l, m, b, c \in Nat : m <= l /\ u + l <= b /\ b <= c => u + m <= c
  OBVIOUS

(* The money side of a step that is justified.                             *)
LEMMA MoneyKept ==
  ASSUME BillingInv, Justified, clock' = clock, used' = used
  PROVE  Spent' /\ Cleared' /\ row' \in Row
<1>1. row.period_end \in Nat /\ row'.period_end \in Nat /\ used \in Nat /\ clock \in Nat
  BY DEF BillingInv, BillingTypes, Justified, Row
<1> DEFINE bill == MONTH * Months
           bill2 == MONTH * Months'
<1>2. bill \in Nat /\ bill2 \in {bill, bill + MONTH} /\ (Extended => bill2 = bill + MONTH)
  BY BillingAssumption, MonthsCounted, MonthMore DEF Justified, Extended
<1>3. used + Left <= bill /\ Left \in Nat /\ MONTH \in Nat
  BY <1>1, BillingAssumption DEF BillingInv, Spent, Left
<1> HIDE DEF bill, bill2
<1>4. Left' = IF row'.period_end > clock THEN row'.period_end - clock ELSE 0
  BY DEF Left
<1>5. used + Left' <= bill2
  <2>1. CASE Extended
    BY <1>1, <1>2, <1>3, <1>4, <2>1 DEF Extended
  <2>2. CASE ~Extended
    <3>1. row'.period_end = row.period_end \/ row'.period_end = 0
      BY <2>2 DEF Justified
    <3>2. Left' <= Left
      BY <1>1, <1>4, <3>1 DEF Left
    <3>3. Left' \in Nat
      BY <1>1, <1>4
    <3>4. bill <= bill2 /\ bill2 \in Nat
      BY <1>2, <1>3
    <3> QED
      BY <1>1, <1>2, <1>3, <3>2, <3>3, <3>4, Smaller, Zenon
  <2> QED
    BY <2>1, <2>2
<1>6. Spent'
  BY <1>5 DEF Spent, bill2
<1>7. Cleared'
  BY DEF BillingInv, Cleared, Justified, Extended
<1> QED
  BY <1>6, <1>7 DEF Justified

\* A payment that is applied is one more that is booked.
LEMMA ApplyBooks ==
  ASSUME BillingInv, NEW e \in events, Apply(e)
  PROVE  /\ applied[e] = 0 /\ applied'[e] = 1 /\ UNCHANGED events
         /\ Months' = IF Payment(e) THEN Months + 1 ELSE Months
<1>1. /\ applied' = [applied EXCEPT ![e] = @ + 1] /\ UNCHANGED <<events, grants>>
      /\ e \in handling /\ e \in recorded
  BY DEF Apply, BillingInv, BillingTypes
<1>2. applied[e] = 0 /\ DOMAIN applied = events
  BY <1>1 DEF BillingInv, Counted
<1>3. applied'[e] = 1 /\ \A x \in events : x # e => applied'[x] = applied[x]
  BY <1>1, <1>2
<1>4. IsFiniteSet(Booked) /\ e \notin Booked /\ Cardinality(Booked) \in Nat /\ grants \in Nat
  BY <1>2, MonthsCounted DEF Booked, BillingInv, BillingTypes
<1>5. Booked' = {x \in events : Payment(x) /\ applied'[x] # 0}
  BY <1>1 DEF Booked, Payment, Has
<1>6. CASE Payment(e)
  <2>1. Booked' = Booked \cup {e}
    BY <1>3, <1>5, <1>6 DEF Booked
  <2>2. Cardinality(Booked') = Cardinality(Booked) + 1
    BY <1>4, <2>1, FS_AddElement
  <2> QED
    BY <1>1, <1>2, <1>3, <1>4, <1>6, <2>2 DEF Months
<1>7. CASE ~Payment(e)
  <2>1. Booked' = Booked
    BY <1>3, <1>5, <1>7 DEF Booked
  <2> QED
    BY <1>1, <1>2, <1>3, <1>7, <2>1 DEF Months
<1> QED
  BY <1>6, <1>7

\* A delivery is recorded, applied, or dies in between.
LEMMA WebhookCorrect ==
  ASSUME BillingInv, NEW e \in events, Deliver(e) \/ Apply(e) \/ HandlerDies(e)
  PROVE  /\ BillingInv'
         /\ \/ row'.period_end = row.period_end \/ row'.period_end = 0
            \/ e \in handling /\ Payment(e) /\ applied'[e] = applied[e] + 1
<1> clock' = clock /\ used' = used /\ grants' = grants /\ UNCHANGED <<events, calls>>
  BY DEF Deliver, Apply, HandlerDies
<1>1. /\ Justified
      /\ \/ row'.period_end = row.period_end \/ row'.period_end = 0
         \/ e \in handling /\ Payment(e) /\ applied'[e] = applied[e] + 1
  <2>1. CASE Apply(e)
    <3>1. row' = EventEffect(row, e, clock) /\ e \in handling
      BY <2>1 DEF Apply
    <3>2. row \in Row /\ clock \in Nat
      BY DEF BillingInv, BillingTypes
    <3>3. /\ row' \in Row
          /\ \/ row' = row
             \/ /\ Payment(e)
                /\ row'.status = "active" /\ row'.period_end = clock + MONTH
             \/ /\ ~Payment(e)
                /\ \/ /\ row'.status \in {"past_due", "cancelled"}
                      /\ row'.period_end = row.period_end
                   \/ row'.status = "expired" /\ row'.period_end = 0
      BY <3>1, <3>2, EffectCases
    <3>4. /\ applied[e] = 0 /\ applied'[e] = 1
          /\ Months' = IF Payment(e) THEN Months + 1 ELSE Months
      BY <2>1, ApplyBooks
    <3> QED
      BY <3>1, <3>3, <3>4 DEF Justified, Extended
  <2>2. CASE Deliver(e) \/ HandlerDies(e)
    <3>1. UNCHANGED <<events, applied, grants, row>>
      BY <2>2 DEF Deliver, HandlerDies
    <3>2. Months' = Months
      BY <3>1, MonthsKept
    <3> QED
      BY <3>1, <3>2 DEF Justified, BillingInv, BillingTypes
  <2> QED
    BY <2>1, <2>2
<1>2. BillingTypes'
  <2>1. recorded' \subseteq events' /\ handling' \subseteq recorded'
    BY DEF Deliver, Apply, HandlerDies, Recorded, BillingInv, BillingTypes
  <2> QED
    BY <1>1, <2>1, MoneyKept DEF BillingInv, BillingTypes
<1>3. Counted'
  <2>1. CASE Deliver(e)
    BY <2>1 DEF Deliver, Recorded, Fresh, BillingInv, BillingTypes, Counted
  <2>2. CASE Apply(e)
    <3>1. /\ applied' = [applied EXCEPT ![e] = @ + 1] /\ recorded' = recorded
          /\ handling' = handling \ {e} /\ e \in handling /\ e \in recorded
      BY <2>2 DEF Apply, BillingInv, BillingTypes
    <3>2. applied[e] = 0
      BY <2>2, ApplyBooks
    <3> QED
      BY <3>1, <3>2 DEF BillingInv, Counted
  <2>3. CASE HandlerDies(e)
    BY <2>3 DEF HandlerDies, BillingInv, BillingTypes, Counted
  <2> QED
    BY <2>1, <2>2, <2>3
<1> QED
  BY <1>1, <1>2, <1>3, MoneyKept DEF BillingInv

(* Checkout, cancellation and the owner's grant.                           *)
LEMMA BillingRequestsCorrect ==
  ASSUME BillingInv, Requests
  PROVE  /\ BillingInv'
         /\ \/ row'.period_end = row.period_end \/ row'.period_end = 0
            \/ grants' = grants + 1
<1> /\ clock' = clock /\ used' = used
    /\ UNCHANGED <<events, recorded, handling, applied>>
  BY DEF Requests, StartSubscription, CancelSubscription, StartRecorded, CancelRecorded,
         CallDies, AdminSetTier
<1> row \in Row /\ clock \in Nat /\ calls \subseteq Call /\ grants \in Nat
  BY DEF BillingInv, BillingTypes
<1> DEFINE Granted == \/ row'.period_end = row.period_end \/ row'.period_end = 0
                      \/ grants' = grants + 1
<1>0. grants' = grants => Months' = Months
  BY MonthsKept
<1>1. calls' \subseteq Call
  <2>1. ASSUME NEW t \in PAID_TIERS, NEW s \in SubIds, StartSubscription(t, s)
        PROVE  calls' \subseteq Call
    BY <2>1 DEF StartSubscription, Call
  <2>2. CASE CancelSubscription
    BY <2>2 DEF CancelSubscription, Call, Row
  <2>3. ASSUME NEW c \in calls, StartRecorded(c) \/ CancelRecorded(c) \/ CallDies(c)
        PROVE  calls' \subseteq Call
    BY <2>3 DEF StartRecorded, CancelRecorded, CallDies
  <2>4. ASSUME NEW t, AdminSetTier(t)
        PROVE  calls' \subseteq Call
    BY <2>4 DEF AdminSetTier
  <2> QED
    BY <2>1, <2>2, <2>3, <2>4 DEF Requests
<1>2. Justified /\ Granted
  <2>1. ASSUME NEW c \in calls, StartRecorded(c)
        PROVE  Justified /\ Granted
    <3>1. /\ row' = [row EXCEPT !.tier = c.tier, !.status = "pending", !.sub = c.sub]
          /\ grants' = grants /\ c.op = "start" /\ c \in Call
      BY <2>1 DEF StartRecorded, createPendingSubscription
    <3>2. c.tier \in PAID_TIERS \cup {"free"} /\ c.sub \in SubIds \cup {"none"}
      BY <3>1 DEF Call
    <3> QED
      BY <1>0, <3>1, <3>2 DEF Justified, Row
  <2>2. ASSUME NEW c \in calls, CancelRecorded(c)
        PROVE  Justified /\ Granted
    <3>1. row' = setSubscriptionStatus(row, c.sub, "cancelled", KeepPeriod) /\ grants' = grants
      BY <2>2 DEF CancelRecorded
    <3>2. /\ row' \in Row /\ row'.period_end = row.period_end
          /\ row' = row \/ row'.status = "cancelled"
      BY <3>1, StatusOnly DEF SubStatuses
    <3> QED
      BY <1>0, <3>1, <3>2 DEF Justified
  <2>3. ASSUME NEW t \in PAID_TIERS \cup {"free"}, AdminSetTier(t)
        PROVE  Justified /\ Granted
    <3>1. row' = [row EXCEPT !.tier = t, !.status = "active",
                             !.period_end = IF t = "free" THEN 0 ELSE clock + MONTH]
      BY <2>3 DEF AdminSetTier, adminSetTier
    <3>2. grants' = (IF t = "free" THEN grants ELSE grants + 1)
      BY <2>3 DEF AdminSetTier
    <3>3. /\ row' \in Row /\ row'.status = "active"
          /\ row'.period_end = IF t = "free" THEN 0 ELSE clock + MONTH
      <4> DEFINE end == IF t = "free" THEN 0 ELSE clock + MONTH
      <4>1. end \in Nat
        BY BillingAssumption
      <4>2. row' = [row EXCEPT !.tier = t, !.status = "active", !.period_end = end]
        BY <3>1
      <4> HIDE DEF end
      <4>3. row' \in Row /\ row'.status = "active" /\ row'.period_end = end
        BY <4>1, <4>2 DEF Row
      <4> QED
        BY <4>3 DEF end
    <3>4. Months' = IF t = "free" THEN Months ELSE Months + 1
      <4>1. Booked' = Booked
        BY DEF Booked, Payment, Has
      <4> QED
        BY <1>0, <3>2, <4>1, MonthsCounted DEF Months
    <3> QED
      BY <3>2, <3>3, <3>4 DEF Justified, Extended
  <2>4. CASE UNCHANGED <<row, grants>>
    BY <1>0, <2>4 DEF Justified
  <2> QED
    BY <2>1, <2>2, <2>3, <2>4 DEF Requests, StartSubscription, CancelSubscription, CallDies
<1>3. grants' \in Nat
  BY DEF Requests, StartSubscription, CancelSubscription, StartRecorded, CancelRecorded,
         CallDies, AdminSetTier
<1> QED
  BY <1>1, <1>2, <1>3, MoneyKept DEF BillingInv, BillingTypes, Counted

\* Time, payments and redeliveries.
LEMMA EnvironmentCorrect ==
  ASSUME BillingInv, Environment
  PROVE  BillingInv' /\ UNCHANGED row
<1>1. /\ UNCHANGED <<row, grants, recorded, handling, calls>>
      /\ row \in Row /\ clock \in Nat /\ used \in Nat
  BY DEF Environment, Tick, Emit, BillingInv, BillingTypes
<1>2. row.period_end \in Nat /\ MONTH * Months \in Nat
  BY <1>1, BillingAssumption, MonthsCounted, MonthMore DEF Row
<1>3. CASE Tick
  <2>1. /\ clock' = clock + 1 /\ UNCHANGED <<events, applied>>
        /\ used' = IF Access THEN used + 1 ELSE used
    BY <1>3 DEF Tick
  <2>2. Months' = Months
    BY <1>1, <2>1, MonthsKept
  <2>3. Access => row.period_end > clock
    BY DEF Access, effectiveTier
  <2>4. Left' = IF row.period_end > clock + 1 THEN row.period_end - (clock + 1) ELSE 0
    BY <1>1, <2>1 DEF Left
  <2> DEFINE bill == MONTH * Months
  <2>5. used + Left <= bill /\ bill \in Nat
    BY <1>2 DEF BillingInv, Spent
  <2> HIDE DEF bill
  <2>6. used' + Left' <= bill
    BY <1>1, <1>2, <2>1, <2>3, <2>4, <2>5 DEF Left
  <2>7. Spent'
    BY <2>2, <2>6 DEF Spent, bill
  <2> QED
    BY <1>1, <2>1, <2>7 DEF BillingInv, BillingTypes, Counted, Cleared
<1>4. ASSUME NEW s \in SubIds, NEW T \in EventTypes, Emit(s, T)
      PROVE  BillingInv'
  <2> DEFINE e == [type |-> T, sub |-> s, ts |-> clock]
  <2>1. /\ events' = events \cup {e} /\ e \notin events /\ UNCHANGED <<clock, used>>
        /\ applied' = [x \in events \cup {e} |-> IF x = e THEN 0 ELSE applied[x]]
    BY <1>4 DEF Emit
  <2> HIDE DEF e
  <2>2. Counted'
    BY <1>1, <2>1 DEF BillingInv, Counted
  <2>3. Booked' = Booked
    <3>1. Booked' = {x \in events \cup {e} : Payment(x) /\ applied'[x] # 0}
      BY <2>1 DEF Booked, Payment, Has
    <3>2. applied'[e] = 0 /\ \A x \in events : applied'[x] = applied[x]
      BY <2>1
    <3> QED
      BY <3>1, <3>2 DEF Booked
  <2>4. Months' = Months /\ Left' = Left
    BY <1>1, <2>1, <2>3 DEF Months, Left
  <2>5. Spent'
    BY <2>1, <2>4 DEF BillingInv, Spent
  <2>6. IsFiniteSet(events')
    BY <2>1, FS_AddElement DEF BillingInv, BillingTypes
  <2> QED
    BY <1>1, <2>1, <2>2, <2>5, <2>6 DEF BillingInv, BillingTypes, Cleared
<1> QED
  BY <1>1, <1>3, <1>4 DEF Environment

\* Every step keeps the invariant.
LEMMA BillingSteps == BillingInv /\ [BillingNext]_billingVars => BillingInv'
<1> SUFFICES ASSUME BillingInv, [BillingNext]_billingVars PROVE BillingInv'
  OBVIOUS
<1>1. CASE UNCHANGED billingVars
  <2>1. UNCHANGED <<clock, row, events, recorded, handling, calls, applied, grants, used>>
    BY <1>1 DEF billingVars
  <2>2. Months' = Months /\ Left' = Left
    BY <2>1, MonthsKept DEF Left
  <2> QED
    BY <2>1, <2>2 DEF BillingInv, BillingTypes, Counted, Spent, Cleared
<1> QED
  BY <1>1, WebhookCorrect, BillingRequestsCorrect, EnvironmentCorrect DEF BillingNext, Webhook

(* The inductive invariant of a subscription.                              *)
THEOREM BillingInvariant == BillingSpec => []BillingInv
<1> QED
  BY BillingStarts, BillingSteps, PTL DEF BillingSpec

(* However often and in whatever order Cashfree delivers, an event changes *)
(* the subscription at most once (route.ts:33-41).                         *)
THEOREM AppliedOnceCorrect == BillingSpec => []AppliedOnce
<1>1. BillingInv => AppliedOnce
  BY DEF BillingInv, Counted, AppliedOnce
<1> QED
  BY <1>1, BillingInvariant, PTL

\* More months cost no less.
LEMMA LongerBill ==
  ASSUME NEW m \in Nat, NEW a \in Nat, NEW b \in Nat, a <= b
  PROVE  m * a <= m * b /\ m * a \in Nat /\ m * b \in Nat
<1>1. PICK d \in Nat : b = a + d
  <2>1. b - a \in Nat /\ b = a + (b - a)
    OBVIOUS
  <2> QED
    BY <2>1
<1>2. m * (a + d) = m * a + m * d /\ m * d \in Nat /\ m * a \in Nat
  OBVIOUS
<1> QED
  BY <1>1, <1>2

(* The access a user has had and the period still open to him never exceed *)
(* a MONTH for each payment taken and each plan granted, whatever events   *)
(* arrive late, again or out of order (route.ts:51-55, queries.ts:31-37).  *)
THEOREM AccessWasPaidCorrect == BillingSpec => []AccessWasPaid
<1>1. BillingInv => AccessWasPaid
  <2> SUFFICES ASSUME BillingInv PROVE AccessWasPaid
    OBVIOUS
  <2> DEFINE taken == {e \in events : Payment(e)}
  <2>1. IsFiniteSet(taken) /\ Booked \subseteq taken
    <3>1. IsFiniteSet(events) /\ taken \subseteq events
      BY DEF BillingInv, BillingTypes
    <3> QED
      BY <3>1, FS_Subset DEF Booked
  <2>2. Cardinality(Booked) <= Cardinality(taken) /\ Cardinality(taken) \in Nat
    BY <2>1, FS_Subset, FS_CardinalityType
  <2> HIDE DEF taken
  <2> DEFINE due == Cardinality(taken) + grants
  <2>3. Months <= due /\ Months \in Nat /\ due \in Nat /\ grants \in Nat
    BY <2>2, MonthsCounted DEF Months, BillingInv, BillingTypes
  <2> HIDE DEF due
  <2>4. MONTH * Months <= MONTH * due /\ MONTH * Months \in Nat /\ MONTH * due \in Nat
    BY <2>3, BillingAssumption, LongerBill
  <2>5. used + Left \in Nat
    BY DEF BillingInv, BillingTypes, Left, Row
  <2>6. used + Left <= MONTH * due
    BY <2>4, <2>5 DEF BillingInv, Spent
  <2> QED
    BY <2>6 DEF AccessWasPaid, due, taken
<1> QED
  BY <1>1, BillingInvariant, PTL

(* An expired subscription comes back only by a payment or a grant         *)
(* (route.ts:66-68).                                                       *)
THEOREM ExpiredStaysOutCorrect == BillingSpec => ExpiredStaysOut
<1> DEFINE Bought == \/ grants' = grants + 1
                     \/ \E e \in handling : Payment(e) /\ applied'[e] = applied[e] + 1
           Out == row.status = "expired" /\ Access' => Bought
<1>1. BillingInv /\ [BillingNext]_billingVars => [Out]_billingVars
  <2> SUFFICES ASSUME BillingInv, BillingNext, row.status = "expired", Access'
               PROVE  Bought
    BY DEF Out
  <2>1. BillingInv'
    BY BillingSteps
  <2>2. row.period_end = 0 /\ clock' \in Nat /\ row'.period_end \in Nat
    BY <2>1 DEF BillingInv, BillingTypes, Cleared, Row
  <2>3. row'.period_end > clock'
    BY DEF Access, effectiveTier
  <2>4. row'.period_end # row.period_end /\ row'.period_end # 0
    BY <2>2, <2>3
  <2>5. CASE Environment
    BY <2>4, <2>5, EnvironmentCorrect
  <2>6. CASE Requests
    BY <2>4, <2>6, BillingRequestsCorrect
  <2>7. ASSUME NEW e \in events, Deliver(e) \/ Apply(e) \/ HandlerDies(e)
        PROVE  Bought
    BY <2>4, <2>7, WebhookCorrect
  <2> QED
    BY <2>5, <2>6, <2>7 DEF BillingNext, Webhook
<1> QED
  BY <1>1, BillingInvariant, PTL DEF BillingSpec, ExpiredStaysOut

-----------------------------------------------------------------------------
(***************************************************************************)
(* Proofs about one user's bot settings and the book behind them, for any  *)
(* venues, strategies and numbers of overlapping requests, failures and    *)
(* trades.                                                                 *)
(*                                                                         *)
(* Armed: while a go-live request that overlapped no other stands, the     *)
(* linked venue is the one it was given for and no request on its way can  *)
(* store the keys of another.  Republished: between two successful inserts *)
(* the read model holds what is remembered or nothing, and a position that *)
(* was closed never comes back.                                            *)
(***************************************************************************)

AccountTypes ==
    /\ creds \in Exchanges \cup {"none"} /\ requests \subseteq Request
    /\ engine \in [on : BOOLEAN, venue : Exchanges \cup {"none"}]
    /\ opened \in 0..MaxTrades /\ book \in Positions /\ published \in Positions
    /\ sig \in Positions \cup {Unknown} /\ pub \in [busy : BOOLEAN, at : Positions]

\* No request on its way stores the keys of another venue.
NothingPending == \A r \in requests : r.op = "save" /\ r.pc = "write" => r.ex = creds

Armed ==
    live => /\ armedFor \in Exchanges
            /\ overlapped \/ (creds = armedFor /\ NothingPending)

\* Positions are numbered: whatever is held, remembered or about to be published is no newer
\* than the last one opened.
Numbered == sig.n <= opened /\ book.n <= opened /\ pub.at.n <= opened

Remembered == sig # Unknown /\ sig # NoPosition

Republished ==
    /\ pub.busy => published = NoPosition \/ lost
    /\ sig # Unknown => lost \/ published \in {sig, NoPosition}
    /\ pub.busy /\ Remembered => book # sig
    /\ NeverStuckStale

AccountInv == AccountTypes /\ Armed /\ Numbered /\ Republished

-----------------------------------------------------------------------------
\* The constants' own types, stated once.
LEMMA AccountFields ==
  /\ NoPosition \in Positions /\ NoPosition.n = 0
  /\ Unknown \notin Positions /\ Unknown.n = 0
  /\ Idle \in [busy : BOOLEAN, at : Positions] /\ Idle.busy = FALSE /\ Idle.at = NoPosition
  /\ Off \in [on : BOOLEAN, venue : Exchanges \cup {"none"}]
  /\ \A p \in Positions : p.n \in 0..MaxTrades
  /\ \A n \in 0..MaxTrades, x \in Exchanges \cup {"none"} :
       [n |-> n, venue |-> x] \in Positions /\ [n |-> n, venue |-> x].n = n
<1> USE AccountAssumption DEF NoPosition, Positions, Unknown, Idle, Off
<1>1. NoPosition \in Positions /\ NoPosition.n = 0 /\ Unknown.n = 0
  OBVIOUS
<1>2. Unknown \notin Positions
  OBVIOUS
<1>3. Idle \in [busy : BOOLEAN, at : Positions] /\ Idle.busy = FALSE /\ Idle.at = NoPosition
  OBVIOUS
<1>4. Off \in [on : BOOLEAN, venue : Exchanges \cup {"none"}]
  OBVIOUS
<1>5. \A p \in Positions : p.n \in 0..MaxTrades
  OBVIOUS
<1>6. \A n \in 0..MaxTrades, x \in Exchanges \cup {"none"} :
        [n |-> n, venue |-> x] \in Positions /\ [n |-> n, venue |-> x].n = n
  OBVIOUS
<1> QED
  BY <1>1, <1>2, <1>3, <1>4, <1>5, <1>6

(* What a request holds.                                                   *)
LEMMA RequestFields ==
  ASSUME NEW r \in Request
  PROVE  /\ r.op \in {"save", "goLive"} => r.ex \in Exchanges
         /\ r.op = "save" =>
              \A pc \in {"open", "dry", "write"} :
                 /\ [r EXCEPT !.pc = pc] \in Request
                 /\ [r EXCEPT !.pc = pc].op = "save" /\ [r EXCEPT !.pc = pc].ex = r.ex
                 /\ [r EXCEPT !.pc = pc].pc = pc
  BY DEF Request

\* An account starts with nothing armed, held or remembered.
LEMMA AccountStarts == AccountInit => AccountInv
<1> SUFFICES ASSUME AccountInit PROVE AccountInv
  OBVIOUS
<1>1. AccountTypes
  BY AccountFields, AccountAssumption DEF AccountInit, AccountTypes
<1>2. Armed
  BY DEF AccountInit, Armed
<1>3. Numbered
  BY AccountFields DEF AccountInit, Numbered
<1>4. Republished
  BY AccountFields DEF AccountInit, Republished, Remembered, NeverStuckStale
<1> QED
  BY <1>1, <1>2, <1>3, <1>4 DEF AccountInv

-----------------------------------------------------------------------------
(* Requests of the web app: the worker's side stays as it is.              *)
LEMMA WorkerSideKept ==
  ASSUME AccountInv, UNCHANGED worker
  PROVE  /\ Numbered' /\ Republished'
         /\ AccountTypes <=> (creds \in Exchanges \cup {"none"} /\ requests \subseteq Request)
         /\ AccountTypes' <=> (creds' \in Exchanges \cup {"none"} /\ requests' \subseteq Request)
  BY DEF AccountInv, AccountTypes, Numbered, Republished, Remembered, NeverStuckStale, worker

\* A request to store keys begins.
LEMMA SaveBeginCorrect ==
  ASSUME AccountInv, NEW ex \in Exchanges, SaveBegin(ex)
  PROVE  AccountInv'
<1> DEFINE switching == creds # "none" /\ creds # ex
           r == [op |-> "save", pc |-> IF switching THEN "open" ELSE "write", ex |-> ex,
                 switching |-> switching]
<1>1. /\ requests' = requests \cup {r} /\ creds' = creds /\ live' = live /\ armedFor' = armedFor
      /\ overlapped => overlapped'
      /\ UNCHANGED worker
  BY DEF SaveBegin, Begin
<1>2. r \in Request
  BY DEF Request
<1>3. AccountTypes'
  BY <1>1, <1>2, WorkerSideKept DEF AccountInv
<1>4. Armed'
  <2> SUFFICES ASSUME live', ~overlapped'
               PROVE  armedFor' \in Exchanges /\ creds' = armedFor' /\ NothingPending'
    BY <1>1 DEF AccountInv, Armed
  <2>1. armedFor \in Exchanges /\ creds = armedFor /\ NothingPending
    BY <1>1 DEF AccountInv, Armed
  <2>2. r.pc = "write" => ex = creds
    BY <2>1, AccountAssumption
  <2>3. NothingPending'
    BY <1>1, <2>1, <2>2 DEF NothingPending
  <2> QED
    BY <1>1, <2>1, <2>3
<1> QED
  BY <1>1, <1>3, <1>4, WorkerSideKept DEF AccountInv

\* A request under way takes its next step.
LEMMA RequestStepCorrect ==
  ASSUME AccountInv, NEW r \in requests,
         \/ SaveOpenPositions(r) \/ SaveGoDry(r) \/ SaveKeys(r)
         \/ TurnOn(r) \/ GoLive(r) \/ RequestDies(r)
         \/ \E id \in Ids : addStrategy(r, id)
  PROVE  AccountInv'
<1> r \in Request
  BY DEF AccountInv, AccountTypes
<1> UNCHANGED worker
  BY DEF SaveOpenPositions, SaveGoDry, SaveKeys, TurnOn, GoLive, RequestDies, addStrategy
<1>1. CASE SaveOpenPositions(r)
  <2>1. /\ UNCHANGED <<creds, live, armedFor, overlapped>> /\ r.op = "save"
        /\ requests' = requests \ {r} \/ requests' = (requests \ {r}) \cup {[r EXCEPT !.pc = "dry"]}
    BY <1>1 DEF SaveOpenPositions, Done, Step
  <2>2. /\ [r EXCEPT !.pc = "dry"] \in Request
        /\ [r EXCEPT !.pc = "dry"].pc = "dry"
    BY <2>1, RequestFields
  <2>3. requests' \subseteq Request
    BY <2>1, <2>2 DEF AccountInv, AccountTypes
  <2>4. NothingPending => NothingPending'
    BY <2>1, <2>2 DEF NothingPending
  <2> QED
    BY <2>1, <2>3, <2>4, WorkerSideKept DEF AccountInv, Armed, AccountTypes
<1>2. CASE SaveGoDry(r)
  <2>1. /\ UNCHANGED <<creds>> /\ live' = FALSE /\ r.op = "save"
        /\ requests' = (requests \ {r}) \cup {[r EXCEPT !.pc = "write"]}
    BY <1>2 DEF SaveGoDry, Step
  <2>2. requests' \subseteq Request
    BY <2>1, RequestFields DEF AccountInv, AccountTypes
  <2> QED
    BY <2>1, <2>2, WorkerSideKept DEF AccountInv, Armed, AccountTypes
<1>3. CASE SaveKeys(r)
  <2>1. /\ UNCHANGED <<live, armedFor, overlapped>> /\ r.op = "save" /\ r.pc = "write"
        /\ creds' = r.ex /\ requests' = requests \ {r}
    BY <1>3 DEF SaveKeys, Done
  <2>2. creds' \in Exchanges /\ requests' \subseteq Request
    BY <2>1, RequestFields DEF AccountInv, AccountTypes
  <2>3. NothingPending => creds' = creds /\ NothingPending'
    BY <2>1 DEF NothingPending
  <2> QED
    BY <2>1, <2>2, <2>3, WorkerSideKept DEF AccountInv, Armed, AccountTypes
<1>4. CASE GoLive(r)
  <2>1. /\ creds' = creds /\ armedFor' = r.ex /\ r.op = "goLive" /\ requests' = requests \ {r}
        /\ overlapped' = (Saving # {} \/ creds # r.ex)
    BY <1>4 DEF GoLive, Done
  <2>2. r.ex \in Exchanges
    BY <2>1, RequestFields
  <2>3. overlapped' \/ (creds' = armedFor' /\ NothingPending')
    <3>1. CASE overlapped'
      BY <3>1
    <3>2. CASE ~overlapped'
      <4>1. Saving = {} /\ creds = r.ex
        BY <2>1, <3>2
      <4> QED
        BY <2>1, <4>1 DEF Saving, NothingPending
    <3> QED
      BY <3>1, <3>2
  <2> QED
    BY <2>1, <2>2, <2>3, WorkerSideKept DEF AccountInv, Armed, AccountTypes
<1>5. CASE TurnOn(r) \/ RequestDies(r) \/ \E id \in Ids : addStrategy(r, id)
  <2>1. UNCHANGED <<creds, live, armedFor, overlapped>> /\ requests' = requests \ {r}
    BY <1>5 DEF TurnOn, RequestDies, addStrategy, setBotState, Done
  <2>2. NothingPending => NothingPending'
    BY <2>1 DEF NothingPending
  <2> QED
    BY <2>1, <2>2, WorkerSideKept DEF AccountInv, Armed, AccountTypes
<1> QED
  BY <1>1, <1>2, <1>3, <1>4, <1>5

\* No step of the web app disturbs the invariant.
LEMMA WebCorrect ==
  ASSUME AccountInv,
         \/ TurnOff \/ TurnOnBegin \/ GoLiveBegin \/ AddBegin
         \/ \E id \in Ids : removeStrategy(id) \/ \E b \in BOOLEAN : setStrategyEnabled(id, b)
  PROVE  AccountInv'
<1> UNCHANGED worker /\ UNCHANGED <<creds, armedFor, overlapped>>
  BY DEF TurnOff, TurnOnBegin, GoLiveBegin, AddBegin, removeStrategy, setStrategyEnabled
<1>1. live' => live
  BY DEF TurnOff, TurnOnBegin, GoLiveBegin, AddBegin, removeStrategy, setStrategyEnabled, setBotState
<1>2. /\ requests' \subseteq Request
      /\ \A r \in requests' : r \in requests \/ r.op # "save"
  <2>1. CASE TurnOnBegin
    BY <2>1 DEF TurnOnBegin, Begin, Request, AccountInv, AccountTypes
  <2>2. CASE GoLiveBegin
    BY <2>2 DEF GoLiveBegin, Begin, Request, AccountInv, AccountTypes
  <2>3. CASE AddBegin
    BY <2>3 DEF AddBegin, Begin, Request, AccountInv, AccountTypes
  <2>4. CASE UNCHANGED requests
    BY <2>4 DEF AccountInv, AccountTypes
  <2> QED
    BY <2>1, <2>2, <2>3, <2>4 DEF TurnOff, removeStrategy, setStrategyEnabled
<1>3. NothingPending => NothingPending'
  BY <1>2 DEF NothingPending
<1> QED
  BY <1>1, <1>2, <1>3, WorkerSideKept DEF AccountInv, Armed, AccountTypes

-----------------------------------------------------------------------------
(* The worker and the engine: the web app's side stays as it is.           *)
LEMMA WebSideKept ==
  ASSUME AccountInv, UNCHANGED web
  PROVE  /\ Armed' /\ creds' \in Exchanges \cup {"none"} /\ requests' \subseteq Request
  BY DEF AccountInv, AccountTypes, Armed, NothingPending, web

\* The supervisor's poll starts or stops the engine.
LEMMA EnginePollCorrect ==
  ASSUME AccountInv, Poll
  PROVE  AccountInv'
<1>1. /\ UNCHANGED <<book, opened, sig, lost>> /\ UNCHANGED web /\ ~pub.busy
      /\ engine' = IF Desired THEN [on |-> TRUE, venue |-> creds] ELSE Off
      /\ pub' = IF Desired /\ book # sig THEN [busy |-> TRUE, at |-> book] ELSE pub
      /\ published' = IF Desired /\ book # sig THEN NoPosition ELSE published
  BY DEF Poll
<1>2. AccountTypes'
  BY <1>1, AccountFields, WebSideKept DEF AccountInv, AccountTypes
<1>3. Numbered'
  <2>1. [busy |-> TRUE, at |-> book].at = book
    OBVIOUS
  <2> QED
    BY <1>1, <2>1 DEF AccountInv, Numbered
<1>4. Republished'
  <2>1. CASE Desired /\ book # sig
    <3>1. pub'.busy /\ published' = NoPosition /\ book' # sig'
      BY <1>1, <2>1
    <3> QED
      BY <1>1, <3>1 DEF Republished, NeverStuckStale
  <2>2. CASE ~(Desired /\ book # sig)
    BY <1>1, <2>2 DEF AccountInv, Republished, Remembered, NeverStuckStale
  <2> QED
    BY <2>1, <2>2
<1> QED
  BY <1>1, <1>2, <1>3, <1>4, WebSideKept DEF AccountInv

\* The publisher deletes, inserts, fails or loses a reply.
LEMMA PublishCorrect ==
  ASSUME AccountInv, PublishInsert \/ PublishFails \/ SupervisorRestarts
  PROVE  AccountInv'
<1> UNCHANGED web /\ UNCHANGED <<book, opened>>
  BY DEF PublishInsert, PublishFails, SupervisorRestarts
<1> pub' = Idle /\ ~pub'.busy
  BY AccountFields DEF PublishInsert, PublishFails, SupervisorRestarts
<1> /\ book'.n <= opened'
    /\ pub'.at.n = 0 /\ 0 <= opened' /\ pub'.at.n <= opened'
  BY AccountFields, AccountAssumption DEF AccountInv, AccountTypes, Numbered
<1>1. CASE PublishInsert
  <2>1. published' = pub.at /\ sig' = pub.at /\ UNCHANGED <<engine, lost>> /\ pub.at \in Positions
    BY <1>1 DEF PublishInsert, AccountInv, AccountTypes
  <2>2. AccountTypes'
    BY <2>1, AccountFields, WebSideKept DEF AccountInv, AccountTypes
  <2>3. Republished'
    BY <2>1 DEF Republished, NeverStuckStale
  <2>4. Numbered'
    BY <2>1 DEF AccountInv, Numbered
  <2> QED
    BY <2>2, <2>3, <2>4, WebSideKept DEF AccountInv
<1>2. CASE PublishFails
  <2>1. /\ UNCHANGED <<engine, sig>> /\ pub.busy
        /\ \/ UNCHANGED <<published, lost>>
           \/ published' = pub.at /\ lost' = TRUE
    BY <1>2 DEF PublishFails
  <2>2. AccountTypes'
    BY <2>1, AccountFields, WebSideKept DEF AccountInv, AccountTypes
  <2>3. Numbered'
    BY <2>1 DEF AccountInv, Numbered
  <2>4. Republished'
    BY <2>1 DEF AccountInv, Republished, Remembered, NeverStuckStale
  <2> QED
    BY <2>2, <2>3, <2>4, WebSideKept DEF AccountInv
<1>3. CASE SupervisorRestarts
  <2>1. sig' = Unknown /\ engine' = Off /\ UNCHANGED <<published, lost>>
    BY <1>3 DEF SupervisorRestarts
  <2>2. AccountTypes'
    BY <2>1, AccountFields, WebSideKept DEF AccountInv, AccountTypes
  <2>3. Numbered'
    BY <2>1, AccountFields DEF Numbered
  <2>4. Republished'
    BY <2>1 DEF Republished, Remembered, NeverStuckStale
  <2> QED
    BY <2>2, <2>3, <2>4, WebSideKept DEF AccountInv
<1> QED
  BY <1>1, <1>2, <1>3

\* The engine opens or closes a position.
LEMMA EngineCorrect ==
  ASSUME AccountInv, EngineBuys \/ EngineSells
  PROVE  AccountInv'
<1>1. UNCHANGED <<engine, published, sig, pub, lost>> /\ UNCHANGED web
  BY DEF EngineBuys, EngineSells
<1>2. CASE EngineBuys
  <2>1. /\ opened' = opened + 1 /\ opened \in 0..MaxTrades /\ opened' \in 0..MaxTrades
        /\ book' = [n |-> opened', venue |-> engine.venue]
        /\ engine.venue \in Exchanges \cup {"none"}
    BY <1>2, AccountAssumption DEF EngineBuys, AccountInv, AccountTypes
  <2>2. book' \in Positions /\ book'.n = opened + 1
    BY <2>1, AccountFields
  <2>3. /\ sig.n \in Nat /\ sig.n <= opened
        /\ pub.at.n \in Nat /\ pub.at.n <= opened
    BY AccountFields, AccountAssumption DEF AccountInv, AccountTypes, Numbered
  <2>4. book' # sig
    BY <2>1, <2>2, <2>3
  <2>5. AccountTypes' /\ Numbered'
    BY <1>1, <2>1, <2>2, <2>3, WebSideKept DEF AccountInv, AccountTypes, Numbered
  <2>6. Republished'
    BY <1>1, <2>4 DEF AccountInv, Republished, Remembered, NeverStuckStale
  <2> QED
    BY <1>1, <2>5, <2>6, WebSideKept DEF AccountInv
<1>3. CASE EngineSells
  <2>1. book' = NoPosition /\ opened' = opened
    BY <1>3 DEF EngineSells
  <2>2. AccountTypes' /\ Numbered'
    BY <1>1, <2>1, AccountFields, WebSideKept DEF AccountInv, AccountTypes, Numbered
  <2>3. Republished'
    BY <1>1, <2>1 DEF AccountInv, Republished, Remembered, NeverStuckStale
  <2> QED
    BY <1>1, <2>2, <2>3, WebSideKept DEF AccountInv
<1> QED
  BY <1>2, <1>3

\* Every step keeps the invariant.
LEMMA AccountSteps == AccountInv /\ [AccountNext]_accountVars => AccountInv'
<1> SUFFICES ASSUME AccountInv, [AccountNext]_accountVars PROVE AccountInv'
  OBVIOUS
<1>1. CASE Actions
  <2>1. ASSUME NEW ex \in Exchanges, SaveBegin(ex)
        PROVE  AccountInv'
    BY <2>1, SaveBeginCorrect
  <2>2. ASSUME NEW r \in requests,
               \/ SaveOpenPositions(r) \/ SaveGoDry(r) \/ SaveKeys(r)
               \/ TurnOn(r) \/ GoLive(r) \/ RequestDies(r)
               \/ \E id \in Ids : addStrategy(r, id)
        PROVE  AccountInv'
    BY <2>2, RequestStepCorrect
  <2> QED
    BY <1>1, <2>1, <2>2, WebCorrect DEF Actions
<1>2. CASE Worker
  BY <1>2, EnginePollCorrect, PublishCorrect DEF Worker
<1>3. CASE Engine
  BY <1>3, EngineCorrect DEF Engine
<1>4. CASE UNCHANGED accountVars
  <2>1. UNCHANGED web /\ UNCHANGED worker
    BY <1>4 DEF accountVars, web, worker
  <2> QED
    BY <2>1, WebSideKept, WorkerSideKept DEF AccountInv, AccountTypes, worker
<1> QED
  BY <1>1, <1>2, <1>3, <1>4 DEF AccountNext

(* The inductive invariant of the bot settings and the published book.     *)
THEOREM AccountInvariant == AccountSpec => []AccountInv
<1> QED
  BY AccountStarts, AccountSteps, PTL DEF AccountSpec

(* A new venue trades real money only after a go-live confirmation given   *)
(* for it (actions.ts:53-60), for any number of requests on their way,     *)
(* unless the confirmation overlapped one that stores keys.                *)
THEOREM DryUntilConfirmedCorrect == AccountSpec => []DryUntilConfirmed
<1>1. AccountInv => DryUntilConfirmed
  BY DEF AccountInv, Armed, DryUntilConfirmed
<1> QED
  BY <1>1, AccountInvariant, PTL

(* A read model that is behind is published again by the next poll,        *)
(* whichever calls failed and whenever the supervisor died                 *)
(* (store.py:244-256, supervisor.py:323-347).                              *)
THEOREM NeverStuckStaleCorrect == AccountSpec => []NeverStuckStale
<1>1. AccountInv => NeverStuckStale
  BY DEF AccountInv, Republished
<1> QED
  BY <1>1, AccountInvariant, PTL

-----------------------------------------------------------------------------
(***************************************************************************)
(* Proofs about the owner's console and the supervisor's poll, for any     *)
(* plans, ages at which a report is stale, numbers of presses and of       *)
(* faults.                                                                 *)
(*                                                                         *)
(* Outlived: an engine that runs against a report of a pause is younger    *)
(* than the report, because the poll that reports a pause has stopped it.  *)
(* Stopping: a bot forced off keeps its engine until the poll after the    *)
(* next, and an interval more for each poll that failed.  AtRest and Chain:*)
(* until a refusal with a later choice behind it or a late call of another *)
(* page spoils the row, and again from a choice made with nothing in       *)
(* flight, each call carries the plan shown before it, the first falls     *)
(* back to the stored plan and the last carries the one shown.             *)
(***************************************************************************)

PlanCalls == [tier : Plans, prev : Plans, alone : BOOLEAN]
ShownRows == [tier : Plans, calls : Seq(PlanCalls), spoiled : BOOLEAN]

ConsoleTypes ==
  /\ control \in [desired : {"running", "paused"}, seq : Nat,
                  state : {"running", "paused"}, age : 0 .. Cap]
  /\ user \in [active : BOOLEAN, live : BOOLEAN, beat : 0 .. Cap, tier : Plans,
               granted : BOOLEAN]
  /\ sup \in [pc : {"read", "reconcile", "status", "slept", "down"},
              said : {"running", "paused"}, applied : Nat]
  /\ engineOn \in BOOLEAN /\ engineAge \in 0 .. Cap /\ offAge \in 0 .. Cap
  /\ userRow \in ShownRows /\ late \subseteq Plans
  /\ pollFaults \in 0 .. MaxPollFaults /\ missed \in 0 .. pollFaults

\* The poll that will report a pause has stopped every engine, and so has a shutdown.
SaysWhatItDid ==
  /\ sup.pc = "down" => ~engineOn
  /\ sup.pc = "reconcile" => sup.said = "running"
  /\ sup.pc = "status" /\ sup.said = "paused" => ~engineOn

Outlived == engineOn /\ control.state = "paused" => engineAge <= control.age

Stopping ==
  engineOn /\ ~user.active =>
    offAge <= IF sup.pc \in {"read", "reconcile"} THEN missed + 1 ELSE missed

(* The parts of the row's state that the plan shown depends on.            *)
AtRest(shown, sent, spoiled, stored) ==
  ~spoiled => stored = IF sent = <<>> THEN shown ELSE sent[1].prev

Chain(shown, sent, spoiled) ==
  /\ \A i \in 2 .. Len(sent) : ~sent[i].alone
  /\ sent # <<>> /\ (sent[1].alone \/ ~spoiled) =>
       /\ shown = sent[Len(sent)].tier
       /\ \A i \in 2 .. Len(sent) : sent[i].prev = sent[i - 1].tier

Followed == /\ AtRest(userRow.tier, userRow.calls, userRow.spoiled, user.tier)
            /\ Chain(userRow.tier, userRow.calls, userRow.spoiled)

ConsoleInv == ConsoleTypes /\ SaysWhatItDid /\ Outlived /\ Stopping /\ Followed

-----------------------------------------------------------------------------
(* A report's age, and the last interval counted.                          *)
LEMMA Ages ==
  /\ Cap \in Nat /\ 0 \in 0 .. Cap /\ Cap \in 0 .. Cap
  /\ \A m \in 0 .. Cap : Older(m) \in 0 .. Cap
  /\ \A m, n \in 0 .. Cap : m <= n => Older(m) <= Older(n)
  /\ Older(0) = 1
  BY ConsoleAssumption DEF Cap, Older

\* Nothing in flight, nothing spoiled: what is shown is what is stored.
LEMMA NothingInFlight ==
  ASSUME NEW shown PROVE AtRest(shown, <<>>, FALSE, shown) /\ Chain(shown, <<>>, FALSE)
  BY DEF AtRest, Chain

\* A choice is sent after those in flight.
LEMMA Chosen ==
  ASSUME NEW sent \in Seq(PlanCalls), NEW shown, NEW spoiled \in BOOLEAN, NEW stored, NEW p \in Plans,
         shown \in Plans, AtRest(shown, sent, spoiled, stored), Chain(shown, sent, spoiled)
  PROVE  LET c == [tier |-> p, prev |-> shown, alone |-> sent = <<>>] IN
         /\ Append(sent, c) \in Seq(PlanCalls)
         /\ AtRest(p, Append(sent, c), spoiled, stored) /\ Chain(p, Append(sent, c), spoiled)
<1> DEFINE c == [tier |-> p, prev |-> shown, alone |-> sent = <<>>]
           n == Len(sent)
           after == Append(sent, c)
<1>1. c \in PlanCalls /\ c.tier = p /\ c.prev = shown /\ c.alone = (sent = <<>>)
  BY DEF PlanCalls
<1>2. n \in Nat /\ (sent = <<>> <=> n = 0)
  OBVIOUS
<1> HIDE DEF c
<1>3. /\ after \in Seq(PlanCalls) /\ Len(after) = n + 1 /\ after # <<>>
      /\ after[n + 1] = c /\ \A i \in 1 .. n : after[i] = sent[i]
  BY <1>1
<1> HIDE DEF after, n
<1>4. AtRest(p, after, spoiled, stored)
  <2>1. CASE n = 0
    BY <1>1, <1>2, <1>3, <2>1 DEF AtRest
  <2>2. CASE n # 0
    BY <1>2, <1>3, <2>2 DEF AtRest
  <2> QED
    BY <2>1, <2>2
<1>5. ASSUME NEW i \in 2 .. Len(after) PROVE ~after[i].alone
  <2>1. CASE i = n + 1
    <3>1. n # 0
      BY <1>2, <1>3, <2>1
    <3>2. sent # <<>> /\ after[i] = c
      BY <1>2, <1>3, <2>1, <3>1
    <3> QED
      BY <1>1, <3>2, Zenon
  <2>2. CASE i # n + 1
    <3>1. i \in 2 .. n /\ after[i] = sent[i]
      BY <1>2, <1>3, <2>2
    <3> QED
      BY <3>1 DEF Chain, n
  <2> QED
    BY <2>1, <2>2
<1>6. ASSUME after[1].alone \/ ~spoiled, NEW i \in 2 .. Len(after) PROVE after[i].prev = after[i - 1].tier
  <2>1. n # 0 /\ i \in 2 .. n + 1 /\ after[1] = sent[1] /\ sent # <<>>
    BY <1>2, <1>3
  <2>2. shown = sent[n].tier /\ \A j \in 2 .. n : sent[j].prev = sent[j - 1].tier
    BY <1>6, <2>1 DEF Chain, n
  <2>3. CASE i = n + 1
    BY <1>1, <1>2, <1>3, <2>1, <2>2, <2>3
  <2>4. CASE i # n + 1
    BY <1>2, <1>3, <2>1, <2>2, <2>4
  <2> QED
    BY <2>3, <2>4
<1>7. after[Len(after)].tier = p
  BY <1>1, <1>3
<1>8. Chain(p, after, spoiled)
  BY <1>5, <1>6, <1>7 DEF Chain
<1> QED
  BY <1>3, <1>4, <1>8 DEF after, c

\* The first call is answered: accepted, it is stored; refused, the row falls back.
LEMMA Answered1 ==
  ASSUME NEW sent \in Seq(PlanCalls), NEW shown, NEW spoiled \in BOOLEAN, NEW stored, sent # <<>>,
         AtRest(shown, sent, spoiled, stored), Chain(shown, sent, spoiled)
  PROVE  LET head == Head(sent)
             rest == Tail(sent)
         IN /\ head \in PlanCalls /\ rest \in Seq(PlanCalls)
            /\ AtRest(shown, rest, spoiled /\ ~head.alone, head.tier)
            /\ Chain(shown, rest, spoiled /\ ~head.alone)
            /\ AtRest(head.prev, rest, spoiled \/ rest # <<>>, stored)
            /\ Chain(head.prev, rest, spoiled \/ rest # <<>>)
<1> DEFINE head == Head(sent)
           rest == Tail(sent)
           n == Len(sent)
<1>1. /\ head = sent[1] /\ head \in PlanCalls /\ rest \in Seq(PlanCalls)
      /\ n \in Nat \ {0} /\ Len(rest) = n - 1 /\ (rest = <<>> <=> n = 1)
      /\ \A i \in 1 .. n - 1 : rest[i] = sent[i + 1]
  <2>1. n \in Nat /\ n # 0
    OBVIOUS
  <2>2. head = sent[1] /\ head \in PlanCalls /\ rest \in Seq(PlanCalls)
    BY <2>1
  <2>3. Len(rest) = n - 1
    BY <2>1
  <2>4. rest = <<>> <=> n = 1
    BY <2>1, <2>2, <2>3
  <2>5. ASSUME NEW i \in 1 .. n - 1 PROVE rest[i] = sent[i + 1]
    BY <2>1, <2>3
  <2> HIDE DEF head, rest, n
  <2> QED
    BY <2>1, <2>2, <2>3, <2>4, <2>5
<1>2. head.alone \in BOOLEAN
  BY <1>1 DEF PlanCalls
<1> HIDE DEF head, rest, n
<1>3. \A i \in 1 .. Len(rest) : ~rest[i].alone
  <2>1. ASSUME NEW i \in 1 .. Len(rest) PROVE ~rest[i].alone
    <3>1. i \in 1 .. n - 1 /\ i + 1 \in 2 .. n
      BY <1>1
    <3> QED
      BY <1>1, <3>1 DEF Chain, n
  <2> QED
    BY <2>1
<1>4. rest # <<>> => 1 \in 1 .. Len(rest) /\ ~rest[1].alone
  BY <1>1, <1>3
<1>5. ASSUME ~(spoiled /\ ~head.alone)
      PROVE  /\ shown = sent[n].tier
             /\ \A j \in 2 .. n : sent[j].prev = sent[j - 1].tier
  BY <1>1, <1>5 DEF Chain, n
<1>6. AtRest(shown, rest, spoiled /\ ~head.alone, head.tier)
  <2> SUFFICES ASSUME ~(spoiled /\ ~head.alone)
               PROVE  head.tier = IF rest = <<>> THEN shown ELSE rest[1].prev
    BY DEF AtRest
  <2>1. CASE n = 1
    BY <1>1, <1>5, <2>1
  <2>2. CASE n # 1
    <3>1. 2 \in 2 .. n /\ 1 \in 1 .. n - 1 /\ 1 + 1 = 2 /\ 2 - 1 = 1
      BY <1>1, <2>2
    <3>2. rest[1] = sent[2] /\ sent[2].prev = sent[1].tier
      BY <1>1, <1>5, <3>1
    <3> QED
      BY <1>1, <2>2, <3>2
  <2> QED
    BY <2>1, <2>2
<1>7. Chain(shown, rest, spoiled /\ ~head.alone)
  <2>1. \A i \in 2 .. Len(rest) : ~rest[i].alone
    BY <1>1, <1>3
  <2>2. ASSUME rest # <<>>, rest[1].alone \/ ~(spoiled /\ ~head.alone)
        PROVE  /\ shown = rest[Len(rest)].tier
               /\ \A i \in 2 .. Len(rest) : rest[i].prev = rest[i - 1].tier
    <3>1. ~(spoiled /\ ~head.alone)
      BY <1>4, <2>2
    <3>2. shown = rest[Len(rest)].tier
      <4>1. n - 1 \in 1 .. n - 1 /\ (n - 1) + 1 = n
        BY <1>1, <2>2
      <4> QED
        BY <1>1, <1>5, <3>1, <4>1
    <3>3. ASSUME NEW i \in 2 .. Len(rest) PROVE rest[i].prev = rest[i - 1].tier
      <4>1. i \in 1 .. n - 1 /\ i - 1 \in 1 .. n - 1 /\ i + 1 \in 2 .. n /\ (i + 1) - 1 = i /\ (i - 1) + 1 = i
        BY <1>1
      <4>2. rest[i] = sent[i + 1] /\ rest[i - 1] = sent[i]
        BY <1>1, <4>1
      <4> QED
        BY <1>5, <3>1, <4>1, <4>2
    <3> QED
      BY <3>2, <3>3
  <2> QED
    BY <2>1, <2>2 DEF Chain
<1>8. AtRest(head.prev, rest, spoiled \/ rest # <<>>, stored)
  BY <1>1 DEF AtRest
<1>9. Chain(head.prev, rest, spoiled \/ rest # <<>>)
  <2>1. \A i \in 2 .. Len(rest) : ~rest[i].alone
    BY <1>1, <1>3
  <2> QED
    BY <1>4, <2>1 DEF Chain
<1> QED
  BY <1>1, <1>6, <1>7, <1>8, <1>9 DEF head, rest

\* The console starts with nothing in flight.
LEMMA ConsoleStarts == ConsoleInit => ConsoleInv
<1> SUFFICES ASSUME ConsoleInit PROVE ConsoleInv
  OBVIOUS
<1>1. ConsoleTypes
  <2>1. /\ control \in [desired : {"running", "paused"}, seq : Nat,
                        state : {"running", "paused"}, age : 0 .. Cap]
        /\ user \in [active : BOOLEAN, live : BOOLEAN, beat : 0 .. Cap, tier : Plans,
                     granted : BOOLEAN]
    BY Ages, ConsoleAssumption DEF ConsoleInit, Never
  <2>2. /\ sup \in [pc : {"read", "reconcile", "status", "slept", "down"},
                    said : {"running", "paused"}, applied : Nat]
        /\ engineOn \in BOOLEAN /\ engineAge \in 0 .. Cap /\ offAge \in 0 .. Cap
        /\ pollFaults \in 0 .. MaxPollFaults /\ missed \in 0 .. pollFaults /\ late \subseteq Plans
    <3>1. pollFaults = 0 /\ missed = 0 /\ late = {} /\ engineOn = FALSE
          /\ engineAge = 0 /\ offAge = Cap
          /\ sup = [pc |-> "read", said |-> "running", applied |-> 0]
      BY DEF ConsoleInit
    <3>2. pollFaults \in 0 .. MaxPollFaults /\ missed \in 0 .. pollFaults
      BY <3>1, ConsoleAssumption
    <3>3. late \subseteq Plans /\ engineAge \in 0 .. Cap /\ offAge \in 0 .. Cap
      BY <3>1, Ages
    <3>4. sup \in [pc : {"read", "reconcile", "status", "slept", "down"},
                   said : {"running", "paused"}, applied : Nat]
      BY <3>1
    <3> QED
      BY <3>1, <3>2, <3>3, <3>4
  <2>3. userRow \in ShownRows
    <3>1. <<>> \in Seq(PlanCalls)
      OBVIOUS
    <3> QED
      BY <3>1, ConsoleAssumption DEF ConsoleInit, ShownRows
  <2> QED
    BY <2>1, <2>2, <2>3 DEF ConsoleTypes
<1>2. SaysWhatItDid /\ Outlived /\ Stopping
  BY DEF ConsoleInit, SaysWhatItDid, Outlived, Stopping
<1>3. Followed
  BY NothingInFlight DEF ConsoleInit, Followed
<1> QED
  BY <1>1, <1>2, <1>3 DEF ConsoleInv

-----------------------------------------------------------------------------
(* Presses on the supervisor's card: only what is wanted changes.          *)
LEMMA CardCorrect ==
  ASSUME ConsoleInv, Start \/ Stop \/ Restart
  PROVE  ConsoleInv'
<1>1. UNCHANGED <<user, eligible, offAge, missed, userRow, late, pollFaults, sup, engineOn, engineAge>>
  BY DEF Start, Stop, Restart, WorkerSide, RowSide
<1>2. /\ control'.state = control.state /\ control'.age = control.age
      /\ control' \in [desired : {"running", "paused"}, seq : Nat,
                       state : {"running", "paused"}, age : 0 .. Cap]
  <2> control \in [desired : {"running", "paused"}, seq : Nat,
                   state : {"running", "paused"}, age : 0 .. Cap]
    BY DEF ConsoleInv, ConsoleTypes
  <2>1. CASE Start \/ Stop
    <3>1. PICK s \in {"running", "paused"} : control' = [control EXCEPT !.desired = s]
      BY <2>1 DEF Start, Stop, setSupervisorDesiredState
    <3> QED
      BY <3>1
  <2>2. CASE Restart
    <3>1. control' = [control EXCEPT !.desired = "running", !.seq = control.seq + 1]
      BY <2>2 DEF Restart
    <3>2. control.seq + 1 \in Nat
      OBVIOUS
    <3> QED
      BY <3>1, <3>2
  <2> QED
    BY <2>1, <2>2
<1>3. ConsoleTypes'
  BY <1>1, <1>2 DEF ConsoleInv, ConsoleTypes
<1>4. SaysWhatItDid' /\ Stopping' /\ Followed'
  BY <1>1 DEF ConsoleInv, SaysWhatItDid, Stopping, Followed
<1>5. Outlived'
  BY <1>1, <1>2 DEF ConsoleInv, Outlived
<1> QED
  BY <1>3, <1>4, <1>5 DEF ConsoleInv

\* Nothing is below zero.
LEMMA FromZero == \A n \in Nat : 0 <= n /\ 0 <= n + 1
  OBVIOUS

(* The bot is forced off or turned on again.                               *)
LEMMA SwitchCorrect ==
  ASSUME ConsoleInv, adminDisableBot \/ UserTurnsOn
  PROVE  ConsoleInv'
<1>1. UNCHANGED <<control, eligible, userRow, late, pollFaults, sup, engineOn, engineAge>>
  BY DEF adminDisableBot, UserTurnsOn, WorkerSide, RowSide
<1> user \in [active : BOOLEAN, live : BOOLEAN, beat : 0 .. Cap, tier : Plans, granted : BOOLEAN]
  BY DEF ConsoleInv, ConsoleTypes
<1>2. /\ user' \in [active : BOOLEAN, live : BOOLEAN, beat : 0 .. Cap, tier : Plans,
                    granted : BOOLEAN]
      /\ user'.tier = user.tier /\ offAge' \in 0 .. Cap /\ missed' \in 0 .. pollFaults
      /\ offAge' = 0 \/ user'.active = TRUE
  <2>1. CASE adminDisableBot
    <3>1. user' = [user EXCEPT !.active = FALSE, !.live = FALSE] /\ offAge' = 0 /\ missed' = 0
      BY <2>1 DEF adminDisableBot
    <3>2. pollFaults \in Nat
      BY ConsoleAssumption DEF ConsoleInv, ConsoleTypes
    <3>3. missed' \in 0 .. pollFaults /\ offAge' \in 0 .. Cap
      BY <3>1, <3>2, Ages
    <3> QED
      BY <3>1, <3>3
  <2>2. CASE UserTurnsOn
    BY <2>2 DEF UserTurnsOn, ConsoleInv, ConsoleTypes
  <2> QED
    BY <2>1, <2>2
<1>3. ConsoleTypes'
  BY <1>1, <1>2 DEF ConsoleInv, ConsoleTypes
<1>4. SaysWhatItDid' /\ Outlived' /\ Followed'
  BY <1>1, <1>2 DEF ConsoleInv, SaysWhatItDid, Outlived, Followed
<1>5. Stopping'
  <2>1. missed' \in Nat
    BY <1>2, ConsoleAssumption DEF ConsoleInv, ConsoleTypes
  <2>2. CASE offAge' = 0
    <3>1. offAge' <= missed' /\ offAge' <= missed' + 1
      BY <2>1, <2>2, FromZero, Zenon
    <3> QED
      BY <3>1 DEF Stopping
  <2>3. CASE user'.active = TRUE
    BY <2>3 DEF Stopping
  <2> QED
    BY <1>2, <2>2, <2>3
<1> QED
  BY <1>3, <1>4, <1>5 DEF ConsoleInv

(* A plan is chosen, its call answered, the page loaded anew.              *)
LEMMA PlanCorrect ==
  ASSUME ConsoleInv,
         \/ (\E p \in Plans : apply(p)) \/ applyArrives \/ applyFails \/ PageReloads
         \/ \E t \in Plans : LateCallArrives(t) \/ ChangedElsewhere(t)
  PROVE  ConsoleInv'
<1> DEFINE User == [active : BOOLEAN, live : BOOLEAN, beat : 0 .. Cap, tier : Plans,
                    granted : BOOLEAN]
<1>1. /\ UNCHANGED <<control, eligible, offAge, missed, sup, engineOn, engineAge>>
      /\ \/ pollFaults' = pollFaults
         \/ pollFaults < MaxPollFaults /\ pollFaults' = pollFaults + 1
  BY DEF apply, applyArrives, applyFails, PageReloads, LateCallArrives, ChangedElsewhere, WorkerSide
<1>2. /\ user \in User /\ userRow \in ShownRows /\ late \subseteq Plans
      /\ AtRest(userRow.tier, userRow.calls, userRow.spoiled, user.tier)
      /\ Chain(userRow.tier, userRow.calls, userRow.spoiled)
  BY DEF ConsoleInv, ConsoleTypes, Followed
<1>3. /\ userRow.tier \in Plans /\ userRow.calls \in Seq(PlanCalls) /\ userRow.spoiled \in BOOLEAN
      /\ user.tier \in Plans
  BY <1>2 DEF ShownRows
<1>4. ASSUME NEW t \in Plans, Stored(t)
      PROVE  user' \in User /\ user'.active = user.active /\ user'.tier = t
  <2>1. user' = [user EXCEPT !.tier = t, !.granted = t # "free"]
    BY <1>4 DEF Stored
  <2> QED
    BY <1>2, <2>1
<1> DEFINE Kept == /\ user' \in User /\ user'.active = user.active
                   /\ userRow' \in ShownRows /\ late' \subseteq Plans /\ Followed'
<1>5. Kept
  <2>1. ASSUME NEW p \in Plans, apply(p) PROVE Kept
    <3> DEFINE c == [tier |-> p, prev |-> userRow.tier, alone |-> userRow.calls = <<>>]
    <3>1. /\ UNCHANGED <<user, late>>
          /\ userRow' = [userRow EXCEPT !.tier = p, !.calls = Append(userRow.calls, c)]
      BY <2>1 DEF apply
    <3>2. /\ Append(userRow.calls, c) \in Seq(PlanCalls)
          /\ AtRest(p, Append(userRow.calls, c), userRow.spoiled, user.tier)
          /\ Chain(p, Append(userRow.calls, c), userRow.spoiled)
      BY <1>2, <1>3, Chosen
    <3> HIDE DEF c
    <3>3. /\ userRow' \in ShownRows /\ userRow'.tier = p /\ userRow'.spoiled = userRow.spoiled
          /\ userRow'.calls = Append(userRow.calls, c)
      BY <1>2, <3>1, <3>2 DEF ShownRows
    <3> QED
      BY <1>2, <3>1, <3>2, <3>3 DEF Followed
  <2>2. CASE applyArrives
    <3> DEFINE head == Head(userRow.calls)
               rest == Tail(userRow.calls)
               less == userRow.spoiled /\ ~head.alone
    <3>1. /\ userRow.calls # <<>> /\ Stored(head.tier) /\ UNCHANGED late
          /\ userRow' = [userRow EXCEPT !.calls = rest, !.spoiled = less]
      BY <2>2 DEF applyArrives
    <3>2. /\ head \in PlanCalls /\ rest \in Seq(PlanCalls)
          /\ AtRest(userRow.tier, rest, less, head.tier) /\ Chain(userRow.tier, rest, less)
      BY <1>2, <1>3, <3>1, Answered1
    <3>3. head.tier \in Plans /\ less \in BOOLEAN
      BY <1>3, <3>2 DEF PlanCalls
    <3> HIDE DEF head, rest, less
    <3>4. /\ userRow' \in ShownRows /\ userRow'.tier = userRow.tier /\ userRow'.spoiled = less
          /\ userRow'.calls = rest
      BY <1>2, <3>1, <3>2, <3>3 DEF ShownRows
    <3>5. user' \in User /\ user'.active = user.active /\ user'.tier = head.tier
      BY <1>4, <3>1, <3>3
    <3> QED
      BY <1>2, <3>1, <3>2, <3>4, <3>5 DEF Followed
  <2>3. CASE applyFails
    <3> DEFINE head == Head(userRow.calls)
               rest == Tail(userRow.calls)
               more == userRow.spoiled \/ rest # <<>>
    <3>1. /\ userRow.calls # <<>> /\ UNCHANGED <<user, late>>
          /\ userRow' = [userRow EXCEPT !.tier = head.prev, !.calls = rest, !.spoiled = more]
      BY <2>3 DEF applyFails, RolledTier
    <3>2. /\ head \in PlanCalls /\ rest \in Seq(PlanCalls)
          /\ AtRest(head.prev, rest, more, user.tier) /\ Chain(head.prev, rest, more)
      BY <1>2, <1>3, <3>1, Answered1
    <3>3. head.prev \in Plans /\ more \in BOOLEAN
      BY <1>3, <3>2 DEF PlanCalls
    <3> HIDE DEF head, rest, more
    <3>4. /\ userRow' \in ShownRows /\ userRow'.tier = head.prev /\ userRow'.spoiled = more
          /\ userRow'.calls = rest
      BY <1>2, <3>1, <3>2, <3>3 DEF ShownRows
    <3> QED
      BY <1>2, <3>1, <3>2, <3>4 DEF Followed
  <2>4. CASE PageReloads
    <3>1. /\ userRow' = [tier |-> user.tier, calls |-> <<>>, spoiled |-> FALSE] /\ UNCHANGED user
          /\ late' = late \cup {userRow.calls[i].tier : i \in DOMAIN userRow.calls \cap {1}}
      BY <2>4 DEF PageReloads
    <3>2. late' \subseteq Plans
      <4>1. ASSUME NEW i \in DOMAIN userRow.calls PROVE userRow.calls[i].tier \in Plans
        <5>1. userRow.calls[i] \in PlanCalls
          BY <1>3
        <5> QED
          BY <5>1 DEF PlanCalls
      <4> QED
        BY <1>2, <3>1, <4>1
    <3>3. userRow' \in ShownRows /\ Followed'
      <4>1. <<>> \in Seq(PlanCalls)
        OBVIOUS
      <4> QED
        BY <1>3, <3>1, <4>1, NothingInFlight DEF ShownRows, Followed
    <3> QED
      BY <1>2, <3>1, <3>2, <3>3
  <2>5. ASSUME NEW t \in Plans, LateCallArrives(t) \/ ChangedElsewhere(t) PROVE Kept
    <3>1. /\ late' \in {late, late \ {t}}
          /\ userRow' = [userRow EXCEPT !.spoiled = TRUE]
      BY <2>5 DEF LateCallArrives, ChangedElsewhere
    <3>2. user' \in User /\ user'.active = user.active
      <4>1. CASE Stored(t)
        BY <1>4, <4>1
      <4>2. CASE user' = [user EXCEPT !.tier = t]
        BY <1>2, <4>2
      <4> QED
        BY <2>5, <4>1, <4>2 DEF LateCallArrives, ChangedElsewhere
    <3>3. /\ userRow' \in ShownRows /\ userRow'.tier = userRow.tier
          /\ userRow'.calls = userRow.calls /\ userRow'.spoiled = TRUE
      BY <1>2, <3>1 DEF ShownRows
    <3>4. AtRest(userRow'.tier, userRow'.calls, TRUE, user'.tier)
      BY DEF AtRest
    <3>5. Chain(userRow.tier, userRow.calls, TRUE)
      BY <1>2 DEF Chain
    <3> QED
      BY <1>2, <3>1, <3>2, <3>3, <3>4, <3>5 DEF Followed
  <2> QED
    BY <2>1, <2>2, <2>3, <2>4, <2>5
<1>6. ConsoleTypes'
  <2>1. /\ missed \in 0 .. pollFaults /\ pollFaults \in 0 .. MaxPollFaults /\ MaxPollFaults \in Nat
    BY ConsoleAssumption DEF ConsoleInv, ConsoleTypes
  <2>2. pollFaults' \in 0 .. MaxPollFaults /\ missed' \in 0 .. pollFaults'
    BY <1>1, <2>1
  <2> QED
    BY <1>1, <1>5, <2>2 DEF ConsoleInv, ConsoleTypes
<1>7. SaysWhatItDid' /\ Outlived' /\ Stopping'
  BY <1>1, <1>5 DEF ConsoleInv, SaysWhatItDid, Outlived, Stopping
<1> QED
  BY <1>5, <1>6, <1>7 DEF ConsoleInv

-----------------------------------------------------------------------------
(* The supervisor's poll.                                                  *)
LEMMA ConsolePollCorrect ==
  ASSUME ConsoleInv, ReadControl \/ Reconcile \/ write_status
  PROVE  ConsoleInv'
<1>1. UNCHANGED <<eligible, offAge, missed, userRow, late, pollFaults>>
  BY DEF ReadControl, Reconcile, write_status, SupSide, RowSide
<1> DEFINE Sup == [pc : {"read", "reconcile", "status", "slept", "down"},
                   said : {"running", "paused"}, applied : Nat]
           Control == [desired : {"running", "paused"}, seq : Nat,
                       state : {"running", "paused"}, age : 0 .. Cap]
           User == [active : BOOLEAN, live : BOOLEAN, beat : 0 .. Cap, tier : Plans,
                    granted : BOOLEAN]
<1> control \in Control /\ user \in User /\ sup \in Sup /\ engineOn \in BOOLEAN
    /\ engineAge \in 0 .. Cap
  BY DEF ConsoleInv, ConsoleTypes
<1>2. CASE ReadControl
  <2>1. UNCHANGED <<control, user>> /\ sup.pc = "read"
    BY <1>2 DEF ReadControl
  <2>2. CASE control.desired = "paused"
    <3>1. /\ engineOn' = FALSE /\ engineAge' = 0
          /\ sup' = [sup EXCEPT !.pc = "status", !.said = "paused"]
      BY <1>2, <2>2 DEF ReadControl
    <3>2. sup' \in Sup /\ sup'.pc = "status" /\ sup'.said = "paused"
      BY <3>1
    <3>3. ConsoleTypes'
      BY <1>1, <2>1, <3>1, <3>2, Ages DEF ConsoleInv, ConsoleTypes
    <3>4. SaysWhatItDid' /\ Outlived' /\ Stopping' /\ Followed'
      BY <1>1, <2>1, <3>1, <3>2 DEF ConsoleInv, SaysWhatItDid, Outlived, Stopping, Followed
    <3> QED
      BY <3>3, <3>4 DEF ConsoleInv
  <2>3. CASE control.desired # "paused"
    <3>1. /\ engineOn' \in BOOLEAN /\ (engineOn' => engineOn)
          /\ engineAge' = IF engineOn' THEN engineAge ELSE 0
          /\ sup' = [sup EXCEPT !.pc = "reconcile", !.said = "running", !.applied = control.seq]
      BY <1>2, <2>3 DEF ReadControl
    <3>2. sup' \in Sup /\ sup'.pc = "reconcile" /\ sup'.said = "running"
      BY <3>1
    <3>3. ConsoleTypes'
      BY <1>1, <2>1, <3>1, <3>2, Ages DEF ConsoleInv, ConsoleTypes
    <3>4. SaysWhatItDid' /\ Outlived' /\ Stopping' /\ Followed'
      BY <1>1, <2>1, <3>1, <3>2 DEF ConsoleInv, SaysWhatItDid, Outlived, Stopping, Followed
    <3> QED
      BY <3>3, <3>4 DEF ConsoleInv
  <2> QED
    BY <2>2, <2>3
<1>3. CASE Reconcile
  <2>1. /\ control' = control /\ sup.pc = "reconcile"
        /\ engineOn' = (user.active /\ eligible)
        /\ engineAge' = IF engineOn' /\ engineOn THEN engineAge ELSE 0
        /\ user' = IF user.active /\ eligible THEN [user EXCEPT !.beat = 0] ELSE user
        /\ sup' = [sup EXCEPT !.pc = "status"]
    BY <1>3 DEF Reconcile, WantsEngine
  <2>2. sup' \in Sup /\ sup'.pc = "status" /\ sup'.said = sup.said
    BY <2>1
  <2>3. user' \in User /\ user'.active = user.active /\ user'.tier = user.tier
    BY <2>1, Ages
  <2>4. engineOn' \in BOOLEAN /\ (engineOn' => user'.active)
    BY <2>1, <2>3, Zenon
  <2>5. engineAge' \in 0 .. Cap /\ (engineAge' = 0 \/ (engineAge' = engineAge /\ engineOn))
    BY <2>1, Ages
  <2>6. ConsoleTypes'
    BY <1>1, <2>1, <2>2, <2>3, <2>4, <2>5 DEF ConsoleInv, ConsoleTypes
  <2>7. SaysWhatItDid' /\ Stopping' /\ Followed'
    BY <1>1, <2>1, <2>2, <2>3, <2>4 DEF ConsoleInv, SaysWhatItDid, Stopping, Followed
  <2>8. Outlived'
    BY <2>1, <2>5 DEF ConsoleInv, Outlived
  <2> QED
    BY <2>6, <2>7, <2>8 DEF ConsoleInv
<1>4. CASE write_status
  <2>1. /\ UNCHANGED <<user, engineOn, engineAge>> /\ sup.pc = "status"
        /\ control' = [control EXCEPT !.state = sup.said, !.age = 0]
        /\ sup' = [sup EXCEPT !.pc = "slept"]
    BY <1>4 DEF write_status
  <2>2. sup' \in Sup /\ sup'.pc = "slept"
    BY <2>1
  <2>3. control' \in Control /\ control'.state = sup.said
    BY <2>1, Ages
  <2>4. ConsoleTypes'
    BY <1>1, <2>1, <2>2, <2>3 DEF ConsoleInv, ConsoleTypes
  <2>5. SaysWhatItDid' /\ Outlived' /\ Stopping' /\ Followed'
    BY <1>1, <2>1, <2>2, <2>3 DEF ConsoleInv, SaysWhatItDid, Outlived, Stopping, Followed
  <2> QED
    BY <2>4, <2>5 DEF ConsoleInv
<1> QED
  BY <1>2, <1>3, <1>4

(* Failed polls, the supervisor's own stop and start.                      *)
LEMMA FaultCorrect ==
  ASSUME ConsoleInv, PollFails \/ SupervisorStops \/ SupervisorStarts
  PROVE  ConsoleInv'
<1>1. UNCHANGED <<eligible, offAge, userRow, late, control, user>>
  BY DEF PollFails, SupervisorStops, SupervisorStarts, SupSide, RowSide
<1> DEFINE Sup == [pc : {"read", "reconcile", "status", "slept", "down"},
                   said : {"running", "paused"}, applied : Nat]
<1> sup \in Sup /\ pollFaults \in 0 .. MaxPollFaults /\ missed \in 0 .. pollFaults
    /\ MaxPollFaults \in Nat /\ offAge \in 0 .. Cap /\ Cap \in Nat
  BY ConsoleAssumption DEF ConsoleInv, ConsoleTypes, Cap
<1>2. CASE PollFails
  <2>1. /\ UNCHANGED <<engineOn, engineAge>> /\ pollFaults' = pollFaults + 1
        /\ missed' = missed + 1 /\ pollFaults < MaxPollFaults
        /\ sup' \in Sup /\ sup'.pc = "slept"
    BY <1>2 DEF PollFails
  <2>2. ConsoleTypes' /\ Stopping'
    BY <1>1, <2>1 DEF ConsoleInv, ConsoleTypes, Stopping
  <2> QED
    BY <1>1, <2>1, <2>2 DEF ConsoleInv, SaysWhatItDid, Outlived, Followed
<1>3. CASE SupervisorStops
  <2>1. /\ engineOn' = FALSE /\ engineAge' = 0 /\ pollFaults' = pollFaults + 1
        /\ missed' = missed /\ pollFaults < MaxPollFaults
        /\ sup' \in Sup /\ sup'.pc = "down"
    BY <1>3 DEF SupervisorStops
  <2>2. ConsoleTypes'
    <3>1. engineOn' \in BOOLEAN
      BY <2>1, Zenon
    <3>2. /\ engineAge' \in 0 .. Cap
          /\ pollFaults' \in 0 .. MaxPollFaults /\ missed' \in 0 .. pollFaults'
      BY <2>1, Ages
    <3> QED
      BY <1>1, <2>1, <3>1, <3>2 DEF ConsoleInv, ConsoleTypes
  <2>3. Stopping'
    BY <1>1, <2>1 DEF Stopping
  <2> QED
    BY <1>1, <2>1, <2>2, <2>3 DEF ConsoleInv, SaysWhatItDid, Outlived, Followed
<1>4. CASE SupervisorStarts
  <2>1. /\ UNCHANGED <<engineOn, engineAge, missed, pollFaults>> /\ sup.pc = "down"
        /\ sup' \in Sup /\ sup'.pc = "read"
    BY <1>4 DEF SupervisorStarts
  <2>2. ConsoleTypes' /\ Stopping'
    BY <1>1, <2>1 DEF ConsoleInv, ConsoleTypes, Stopping
  <2> QED
    BY <1>1, <2>1, <2>2 DEF ConsoleInv, SaysWhatItDid, Outlived, Followed
<1> QED
  BY <1>2, <1>3, <1>4

\* An interval passes: reports and engines age together.
LEMMA IntervalCorrect ==
  ASSUME ConsoleInv, Interval
  PROVE  ConsoleInv'
<1>1. /\ UNCHANGED <<eligible, engineOn, missed, userRow, late, pollFaults>> /\ sup.pc \in {"slept", "down"}
      /\ control' = [control EXCEPT !.age = Older(control.age)]
      /\ user' = [user EXCEPT !.beat = Older(user.beat)]
      /\ engineAge' = IF engineOn THEN Older(engineAge) ELSE 0
      /\ offAge' = Older(offAge)
      /\ sup' = [sup EXCEPT !.pc = IF sup.pc = "slept" THEN "read" ELSE sup.pc]
  BY DEF Interval, RowSide
<1>2. /\ control.age \in 0 .. Cap /\ user.beat \in 0 .. Cap
      /\ engineAge \in 0 .. Cap /\ offAge \in 0 .. Cap
  BY DEF ConsoleInv, ConsoleTypes
<1>3. /\ Older(control.age) \in 0 .. Cap /\ Older(user.beat) \in 0 .. Cap
      /\ engineAge' \in 0 .. Cap /\ offAge' \in 0 .. Cap
  BY <1>1, <1>2, Ages
<1>4. /\ control' \in [desired : {"running", "paused"}, seq : Nat,
                       state : {"running", "paused"}, age : 0 .. Cap]
      /\ control'.state = control.state /\ control'.age = Older(control.age)
  BY <1>1, <1>3 DEF ConsoleInv, ConsoleTypes
<1>5. /\ user' \in [active : BOOLEAN, live : BOOLEAN, beat : 0 .. Cap, tier : Plans,
                    granted : BOOLEAN]
      /\ user'.active = user.active /\ user'.tier = user.tier
  BY <1>1, <1>3 DEF ConsoleInv, ConsoleTypes
<1>6. /\ sup' \in [pc : {"read", "reconcile", "status", "slept", "down"},
                   said : {"running", "paused"}, applied : Nat]
      /\ sup'.pc = (IF sup.pc = "slept" THEN "read" ELSE "down")
  BY <1>1 DEF ConsoleInv, ConsoleTypes
<1>7. ConsoleTypes'
  BY <1>1, <1>3, <1>4, <1>5, <1>6 DEF ConsoleInv, ConsoleTypes
<1>8. Outlived'
  BY <1>1, <1>2, <1>4, Ages DEF ConsoleInv, Outlived
<1>9. Stopping'
  <2>1. Older(offAge) <= offAge + 1 /\ offAge \in Nat /\ Older(offAge) \in Nat /\ missed \in Nat
    BY <1>2, ConsoleAssumption DEF Older, Cap, ConsoleInv, ConsoleTypes
  <2>2. sup.pc = "slept" => sup'.pc = "read"
    BY <1>6
  <2>3. sup.pc = "down" => sup'.pc = "down"
    BY <1>6
  <2>4. engineOn => sup.pc # "down"
    BY DEF ConsoleInv, SaysWhatItDid
  <2> QED
    BY <1>1, <1>5, <2>1, <2>2, <2>3, <2>4 DEF ConsoleInv, Stopping
<1>10. SaysWhatItDid' /\ Followed'
  BY <1>1, <1>5, <1>6 DEF ConsoleInv, SaysWhatItDid, Followed
<1> QED
  BY <1>7, <1>8, <1>9, <1>10 DEF ConsoleInv

\* Every step keeps the invariant.
LEMMA ConsoleSteps == ConsoleInv /\ [ConsoleNext]_consoleVars => ConsoleInv'
<1> SUFFICES ASSUME ConsoleInv, [ConsoleNext]_consoleVars PROVE ConsoleInv'
  OBVIOUS
<1>1. CASE UNCHANGED consoleVars
  BY <1>1 DEF consoleVars, ConsoleInv, ConsoleTypes, SaysWhatItDid, Outlived, Stopping, Followed
<1> QED
  BY <1>1, CardCorrect, SwitchCorrect, PlanCorrect, ConsolePollCorrect, FaultCorrect, IntervalCorrect
  DEF ConsoleNext

(* The inductive invariant of the owner's console.                         *)
THEOREM ConsoleInvariant == ConsoleSpec => []ConsoleInv
<1> QED
  BY ConsoleStarts, ConsoleSteps, PTL DEF ConsoleSpec

(* Engines that have run as long as a report is trusted can be stopped     *)
(* from a fresh page, and a pause can be taken back, whatever polls failed *)
(* (SupervisorControls.tsx 31-50).                                         *)
THEOREM AlwaysAWayOutCorrect == ConsoleSpec => []AlwaysAWayOut
<1>1. ConsoleInv => AlwaysAWayOut
  <2> SUFFICES ASSUME ConsoleInv PROVE AlwaysAWayOut
    OBVIOUS
  <2>1. control.age \in 0 .. Cap /\ engineAge \in 0 .. Cap /\ STALE_AFTER \in Nat /\ Cap \in Nat
    BY ConsoleAssumption DEF ConsoleInv, ConsoleTypes, Cap
  <2>2. ASSUME engineOn, engineAge >= STALE_AFTER, control.desired = "running"
        PROVE  ShownStop(control)
    <3>1. control.state = "paused" => ~online(control)
      BY <2>1, <2>2 DEF ConsoleInv, Outlived, online
    <3> QED
      BY <2>2, <3>1 DEF ShownStop, paused, observed
  <2>3. control.desired = "paused" => ShownStart(control)
    BY DEF ShownStart, paused
  <2> QED
    BY <2>2, <2>3 DEF AlwaysAWayOut
<1> QED
  BY <1>1, ConsoleInvariant, PTL

(* A bot forced off is stopped within a poll, and an interval later for    *)
(* each poll that failed since (queries.ts:753).                           *)
THEOREM OffWithinAPollCorrect == ConsoleSpec => []OffWithinAPoll
<1>1. ConsoleInv => OffWithinAPoll
  <2>1. ConsoleInv => missed \in Nat /\ offAge \in Int
    BY ConsoleAssumption DEF ConsoleInv, ConsoleTypes, Cap
  <2> QED
    BY <2>1 DEF ConsoleInv, Stopping, OffWithinAPoll
<1> QED
  BY <1>1, ConsoleInvariant, PTL

(* At rest the row shows the stored plan, through choices that cross,      *)
(* refusals and reloads, unless a refusal had a later choice behind it or  *)
(* another page's call came in (AdminUserRow.tsx:36-50).                   *)
THEOREM PlanShownIsStoredCorrect == ConsoleSpec => []PlanShownIsStored
<1>1. ConsoleInv => PlanShownIsStored
  BY DEF ConsoleInv, Followed, AtRest, PlanShownIsStored
<1> QED
  BY <1>1, ConsoleInvariant, PTL

-----------------------------------------------------------------------------
(***************************************************************************)
(* The three together, as the run explores them.  What the invariants      *)
(* above leave open of the types: what nobody relies on but a reader, and  *)
(* the bounds of what is counted.                                          *)
(***************************************************************************)

BillingRest ==
  /\ deaths \in Nat /\ mandates \in [SubIds -> {"none", "created", "offered", "ended"}]
  /\ events \subseteq Event

\* Mandates go through their states, and every event names a kind, a mandate and an instant.
LEMMA BillingRestSteps ==
  ASSUME BillingInv, BillingRest, [BillingNext]_billingVars PROVE BillingRest'
<1>1. mandates' = mandates \/ \E s : \E m \in {"created", "offered", "ended"} :
                                mandates' = [mandates EXCEPT ![s] = m]
  BY DEF BillingNext, Webhook, Requests, Environment, Deliver, Apply, HandlerDies,
         StartSubscription, CancelSubscription, StartRecorded, CancelRecorded, CallDies,
         AdminSetTier, Tick, Emit, billingVars
<1>2. deaths' \in {deaths, deaths + 1}
  BY DEF BillingNext, Webhook, Requests, Environment, Deliver, Apply, HandlerDies,
         StartSubscription, CancelSubscription, StartRecorded, CancelRecorded, CallDies,
         AdminSetTier, Tick, Emit, billingVars
<1>3. events' = events
      \/ \E s \in SubIds, T \in EventTypes :
           events' = events \cup {[type |-> T, sub |-> s, ts |-> clock]}
  BY DEF BillingNext, Webhook, Requests, Environment, Deliver, Apply, HandlerDies,
         StartSubscription, CancelSubscription, StartRecorded, CancelRecorded, CallDies,
         AdminSetTier, Tick, Emit, billingVars
<1>4. clock \in Nat
  BY DEF BillingInv, BillingTypes
<1>5. events' \subseteq Event
  BY <1>3, <1>4 DEF BillingRest, Event
<1> QED
  BY <1>1, <1>2, <1>5 DEF BillingRest

Fits == IsFiniteSet(requests) /\ Cardinality(requests) <= MaxRequests

AccountRest ==
  /\ active \in BOOLEAN /\ live \in BOOLEAN
  /\ DOMAIN rows \subseteq Ids /\ \A i \in DOMAIN rows : rows[i] \in BOOLEAN
  /\ Fits /\ failures \in 0 .. MaxFailures
  /\ armedFor \in Exchanges \cup {"none"} /\ overlapped \in BOOLEAN /\ lost \in BOOLEAN

\* A request that begins finds room; one that answers or goes on takes no more.
LEMMA RequestsFit ==
  ASSUME Fits, NEW r
  PROVE  /\ Begin(r) => Fits'
         /\ r \in requests /\ Done(r) => Fits'
         /\ \A pc : r \in requests /\ Step(r, pc) => Fits'
<1>1. Cardinality(requests) \in Nat /\ MaxRequests \in Nat /\ IsFiniteSet(requests)
      /\ Cardinality(requests) <= MaxRequests
  BY FS_CardinalityType, AccountAssumption DEF Fits
<1>2. ASSUME NEW S, S = requests', IsFiniteSet(S), Cardinality(S) <= MaxRequests PROVE Fits'
  BY <1>2 DEF Fits
<1>3. CASE Begin(r)
  <2>1. requests' = requests \cup {r} /\ r \notin requests /\ Cardinality(requests) < MaxRequests
    BY <1>3 DEF Begin, Room
  <2>2. /\ IsFiniteSet(requests \cup {r})
        /\ Cardinality(requests \cup {r}) = Cardinality(requests) + 1
    BY <1>1, <2>1, FS_AddElement
  <2> QED
    BY <1>1, <1>2, <2>1, <2>2
<1>4. CASE r \in requests /\ Done(r)
  <2>1. requests' = requests \ {r}
    BY <1>4 DEF Done
  <2>2. IsFiniteSet(requests \ {r}) /\ Cardinality(requests \ {r}) = Cardinality(requests) - 1
    BY <1>1, <1>4, FS_RemoveElement
  <2> QED
    BY <1>1, <1>2, <2>1, <2>2
<1>5. ASSUME NEW pc, r \in requests, Step(r, pc) PROVE Fits'
  <2> DEFINE s == [r EXCEPT !.pc = pc]
             rest == requests \ {r}
  <2>1. requests' = rest \cup {s}
    BY <1>5 DEF Step
  <2>2. IsFiniteSet(rest) /\ Cardinality(rest) = Cardinality(requests) - 1
    BY <1>1, <1>5, FS_RemoveElement
  <2> HIDE DEF s, rest
  <2>3. IsFiniteSet(rest \cup {s})
        /\ (\/ Cardinality(rest \cup {s}) = Cardinality(rest)
            \/ Cardinality(rest \cup {s}) = Cardinality(rest) + 1)
    BY <2>2, FS_AddElement
  <2> QED
    BY <1>1, <1>2, <2>1, <2>2, <2>3
<1> QED
  BY <1>3, <1>4, <1>5

\* The requests of a step.
LEMMA RequestsStep == ASSUME [AccountNext]_accountVars, Fits PROVE Fits'
<1>1. requests' = requests => Fits'
  BY DEF Fits
<1>2. \A r : Begin(r) => Fits'
  BY RequestsFit
<1>3. \A r \in requests : Done(r) \/ Step(r, "dry") \/ Step(r, "write") => Fits'
  BY RequestsFit
<1>4. Worker \/ Engine \/ UNCHANGED accountVars => requests' = requests
  BY DEF Worker, Engine, Poll, PublishInsert, PublishFails, SupervisorRestarts, EngineBuys,
         EngineSells, web, accountVars
<1>5. ASSUME Actions
      PROVE  \/ requests' = requests
             \/ \E r : Begin(r)
             \/ \E r \in requests : Done(r) \/ Step(r, "dry") \/ Step(r, "write")
  BY <1>5 DEF Actions, SaveBegin, SaveOpenPositions, SaveGoDry, SaveKeys, TurnOn, GoLive,
              RequestDies, addStrategy, TurnOff, TurnOnBegin, GoLiveBegin, AddBegin,
              removeStrategy, setStrategyEnabled
<1> QED
  BY <1>1, <1>2, <1>3, <1>4, <1>5 DEF AccountNext

\* Switches and histories hold what the actions write.
LEMMA AccountRestSteps ==
  ASSUME AccountInv, AccountRest, [AccountNext]_accountVars PROVE AccountRest'
<1>1. Fits'
  BY RequestsStep DEF AccountRest
<1>2. requests \subseteq Request
  BY DEF AccountInv, AccountTypes
<1>3. failures' \in 0 .. MaxFailures
  <2>1. failures' = failures \/ (failures < MaxFailures /\ failures' = failures + 1)
    BY DEF AccountNext, Actions, Worker, Engine, Poll, PublishInsert, PublishFails,
           SupervisorRestarts, EngineBuys, EngineSells, SaveBegin, SaveOpenPositions, SaveGoDry,
           SaveKeys, TurnOn, GoLive, RequestDies, addStrategy, TurnOff, TurnOnBegin,
           GoLiveBegin, AddBegin, removeStrategy, setStrategyEnabled, accountVars
  <2> QED
    BY <2>1, AccountAssumption DEF AccountRest
<1>4. active' \in BOOLEAN /\ live' \in BOOLEAN /\ lost' \in BOOLEAN
  BY DEF AccountRest, AccountNext, Actions, Worker, Engine, Poll, PublishInsert, PublishFails,
         SupervisorRestarts, EngineBuys, EngineSells, SaveBegin, SaveOpenPositions, SaveGoDry,
         SaveKeys, TurnOn, GoLive, RequestDies, addStrategy, TurnOff, TurnOnBegin,
         GoLiveBegin, AddBegin, removeStrategy, setStrategyEnabled, setBotState, worker, web,
         accountVars
<1>5. armedFor' \in Exchanges \cup {"none"} /\ overlapped' \in BOOLEAN
  <2>1. \/ UNCHANGED <<armedFor, overlapped>>
        \/ armedFor' = armedFor /\ overlapped' \in BOOLEAN
        \/ \E r \in requests : GoLive(r)
    BY DEF AccountNext, Actions, Worker, Engine, Poll, PublishInsert, PublishFails,
           SupervisorRestarts, EngineBuys, EngineSells, SaveBegin, SaveOpenPositions, SaveGoDry,
           SaveKeys, TurnOn, RequestDies, addStrategy, TurnOff, TurnOnBegin,
           GoLiveBegin, AddBegin, removeStrategy, setStrategyEnabled, web, accountVars
  <2>2. ASSUME NEW r \in requests, GoLive(r)
        PROVE  armedFor' \in Exchanges /\ overlapped' \in BOOLEAN
    BY <1>2, <2>2, RequestFields DEF GoLive
  <2> QED
    BY <2>1, <2>2 DEF AccountRest
<1>6. DOMAIN rows' \subseteq Ids /\ \A i \in DOMAIN rows' : rows'[i] \in BOOLEAN
  <2>1. \/ rows' = rows
        \/ \E r \in requests, id \in Ids : addStrategy(r, id)
        \/ \E id \in Ids : removeStrategy(id)
        \/ \E id \in Ids, b \in BOOLEAN : setStrategyEnabled(id, b)
    BY DEF AccountNext, Actions, Worker, Engine, Poll, PublishInsert, PublishFails,
           SupervisorRestarts, EngineBuys, EngineSells, SaveBegin, SaveOpenPositions, SaveGoDry,
           SaveKeys, TurnOn, GoLive, RequestDies, TurnOff, TurnOnBegin,
           GoLiveBegin, AddBegin, web, accountVars
  <2>2. ASSUME NEW r \in requests, NEW id \in Ids, addStrategy(r, id)
        PROVE  DOMAIN rows' \subseteq Ids /\ \A i \in DOMAIN rows' : rows'[i] \in BOOLEAN
    BY <2>2 DEF addStrategy, AccountRest
  <2>3. ASSUME NEW id \in Ids, removeStrategy(id)
        PROVE  DOMAIN rows' \subseteq Ids /\ \A i \in DOMAIN rows' : rows'[i] \in BOOLEAN
    BY <2>3 DEF removeStrategy, AccountRest
  <2>4. ASSUME NEW id \in Ids, NEW b \in BOOLEAN, setStrategyEnabled(id, b)
        PROVE  DOMAIN rows' \subseteq Ids /\ \A i \in DOMAIN rows' : rows'[i] \in BOOLEAN
    BY <2>4 DEF setStrategyEnabled, AccountRest
  <2> QED
    BY <2>1, <2>2, <2>3, <2>4 DEF AccountRest
<1> QED
  BY <1>1, <1>3, <1>4, <1>5, <1>6 DEF AccountRest

ConsoleRest == adminPresses \in 0 .. MaxAdminPresses /\ control.seq <= adminPresses

\* Every restart asked for was a press.
LEMMA ConsoleRestSteps ==
  ASSUME ConsoleInv, ConsoleRest, [ConsoleNext]_consoleVars PROVE ConsoleRest'
<1>1. control \in [desired : {"running", "paused"}, seq : Nat,
                   state : {"running", "paused"}, age : 0 .. Cap]
  BY DEF ConsoleInv, ConsoleTypes
<1>2. control.seq \in Nat /\ MaxAdminPresses \in Nat
  BY <1>1, ConsoleAssumption
<1>3. \/ adminPresses' = adminPresses
      \/ adminPresses < MaxAdminPresses /\ adminPresses' = adminPresses + 1
  BY DEF ConsoleNext, Start, Stop, Restart, adminDisableBot, UserTurnsOn, apply, applyArrives,
         applyFails, PageReloads, LateCallArrives, ChangedElsewhere, ReadControl, Reconcile, write_status,
         PollFails, SupervisorStops, SupervisorStarts, Interval, SupSide, AdminPress, consoleVars
<1>4. CASE Restart
  <2>1. control'.seq = control.seq + 1
    BY <1>1, <1>4 DEF Restart
  <2>2. adminPresses < MaxAdminPresses /\ adminPresses' = adminPresses + 1
    BY <1>4 DEF Restart, AdminPress
  <2> QED
    BY <1>2, <2>1, <2>2 DEF ConsoleRest
<1>5. CASE ~Restart
  <2>1. \/ control' = control
        \/ \E s : control' = [control EXCEPT !.desired = s]
        \/ \E s, a : control' = [control EXCEPT !.state = s, !.age = a]
        \/ \E a : control' = [control EXCEPT !.age = a]
    <3>1. Start \/ Stop => \E s : control' = [control EXCEPT !.desired = s]
      BY DEF Start, Stop, setSupervisorDesiredState
    <3>2. write_status => \E s, a : control' = [control EXCEPT !.state = s, !.age = a]
      BY DEF write_status
    <3>3. Interval => \E a : control' = [control EXCEPT !.age = a]
      BY DEF Interval
    <3> QED
      BY <1>5, <3>1, <3>2, <3>3
         DEF ConsoleNext, adminDisableBot, UserTurnsOn, apply, applyArrives, applyFails,
             PageReloads, LateCallArrives, ChangedElsewhere, ReadControl, Reconcile, PollFails,
             SupervisorStops, SupervisorStarts, consoleVars
  <2>2. control'.seq = control.seq
    BY <1>1, <2>1
  <2> QED
    BY <1>2, <1>3, <2>2 DEF ConsoleRest
<1> QED
  BY <1>4, <1>5

\* Each of the three moves as it does alone.
LEMMA AccountsMoves ==
  [AccountsNext]_accountsVars =>
    [BillingNext]_billingVars /\ [AccountNext]_accountVars /\ [ConsoleNext]_consoleVars
BY DEF AccountsNext, accountsVars

\* What the three machines' bounds and flags keep, and which machine it is that runs.
AccountsRest == which \in Machines /\ BillingRest /\ AccountRest /\ ConsoleRest

\* Every row, request, event and count has the type its module gives it.
THEOREM AccountsTypeCorrect == AccountsSpec => []AccountsTypeOK
<1>1. AccountsSpec => BillingSpec /\ AccountSpec /\ ConsoleSpec
  <2>1. AccountsInit => BillingInit /\ AccountInit /\ ConsoleInit
    BY DEF AccountsInit
  <2> QED
    BY <2>1, AccountsMoves, PTL DEF AccountsSpec, BillingSpec, AccountSpec, ConsoleSpec
<1>2. AccountsInit => AccountsRest
  <2> SUFFICES ASSUME AccountsInit PROVE AccountsRest
    OBVIOUS
  <2>1. BillingRest
    BY DEF AccountsInit, BillingInit, BillingRest
  <2>2. AccountRest
    <3>1. Fits
      BY AccountAssumption, FS_EmptySet DEF AccountsInit, AccountInit, Fits
    <3>2. /\ active = FALSE /\ live = FALSE /\ failures = 0 /\ lost = FALSE
          /\ armedFor = "none" /\ overlapped = FALSE /\ rows = [i \in {} |-> TRUE]
      BY DEF AccountsInit, AccountInit
    <3>3. DOMAIN rows = {}
      BY <3>2
    <3>4. failures \in 0 .. MaxFailures
      BY <3>2, AccountAssumption
    <3> QED
      BY <3>1, <3>2, <3>3, <3>4, Zenon DEF AccountRest
  <2>3. ConsoleRest
    BY ConsoleAssumption DEF AccountsInit, ConsoleInit, ConsoleRest
  <2> QED
    BY <2>1, <2>2, <2>3 DEF AccountsInit, AccountsRest
<1>3. /\ BillingInv /\ AccountInv /\ ConsoleInv
      /\ AccountsRest
      /\ [AccountsNext]_accountsVars
      => AccountsRest'
  <2>1. [AccountsNext]_accountsVars => which' = which
    BY DEF AccountsNext, accountsVars
  <2> QED
    BY <2>1, AccountsMoves, BillingRestSteps, AccountRestSteps, ConsoleRestSteps DEF AccountsRest
<1>4. BillingInv /\ AccountInv /\ ConsoleInv /\ AccountsRest => AccountsTypeOK
  <2> SUFFICES ASSUME BillingInv, AccountInv, ConsoleInv,
                      which \in Machines, BillingRest, AccountRest, ConsoleRest
               PROVE  AccountsTypeOK
    BY DEF AccountsRest
  <2>1. BillingTypeOK
    BY DEF BillingInv, BillingTypes, Counted, BillingRest, BillingTypeOK
  <2>2. AccountTypeOK
    BY DEF AccountInv, AccountTypes, AccountRest, Fits, AccountTypeOK
  <2>3. ConsoleTypeOK
    <3>1. control \in [desired : {"running", "paused"}, seq : Nat,
                       state : {"running", "paused"}, age : 0 .. Cap]
      BY DEF ConsoleInv, ConsoleTypes
    <3>2. control.seq \in 0 .. MaxAdminPresses
      BY <3>1, ConsoleAssumption DEF ConsoleRest
    <3>3. control \in [desired : {"running", "paused"}, seq : 0 .. MaxAdminPresses,
                       state : {"running", "paused"}, age : 0 .. Cap]
      BY <3>1, <3>2
    <3>4. missed \in 0 .. MaxPollFaults
      BY ConsoleAssumption DEF ConsoleInv, ConsoleTypes
    <3> QED
      BY <3>3, <3>4 DEF ConsoleInv, ConsoleTypes, ShownRows, ConsoleTypeOK
  <2>4. which \in {"billing", "account", "console"}
    BY MachinesAssumption
  <2> QED
    BY <2>1, <2>2, <2>3, <2>4 DEF AccountsTypeOK
<1>5. AccountsSpec => []BillingInv /\ []AccountInv /\ []ConsoleInv
  BY <1>1, BillingInvariant, AccountInvariant, ConsoleInvariant, PTL
<1> QED
  BY <1>2, <1>3, <1>4, <1>5, PTL DEF AccountsSpec
=============================================================================
