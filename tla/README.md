# Strattice: TLA+ models, checks and proofs

Strattice runs crypto trading bots for many users. This directory holds TLA+
modules of the parts of it whose correctness depends on order, failure and
concurrency, TLC configurations that check them on small instances, and
theorems proved with TLAPS for every value of the constants.

`PROJECT.json` relates every definition to source lines, every property to a
hazard of the code and to a mutant that breaks it, and lists runs, findings and
theorems.

    tlc -config order_path.cfg MCOrderPath     # likewise the other runs
    tlapm OrderPathProofs.tla                  # likewise the other *Proofs

## 1. The system

| Component | State | Operations | Talks to |
| --- | --- | --- | --- |
| Trading engine (`bot/engine.py`), one process per user | positions in progress, candle windows, alert marks, cooldowns | boot recovery, `run_once` per poll, exits (ladder, stop, crash brake), strategy toggle, halt on KILL | executor, risk, feeds, notify |
| Executor (`bot/executor.py`) | none of its own | `place`: retry check, gate, POST, book | exchange client, `bot.db`, reconcile |
| Store (`bot/audit.py`), SQLite `bot.db` | `orders` (UNIQUE client_order_id), `positions`, `meta`, `skips` | `log_order`, `heal_order`, `set_position`, statistics, meta values; each its own transaction | executor, reconcile, engine, supervisor (reads) |
| Reconciliation (`bot/reconcile.py`) | none | `resolve_one`, `resolve_stuck_order`, `heal_lost_confirmations` | exchange client, `bot.db` |
| Risk gate and sizing (`bot/risk.py`, `sizing.py`, `costs.py`) | equity peak, cached balances | `check`, target quantity, de-risking ladders | `bot.db`, exchange client |
| Exchange calls (`bot/reliability.py`, `client.py`, `binance_client.py`) | two circuit breakers, one token bucket, clock guard | `allow`, `record_success/failure`, `acquire`, `retry_idempotent` | exchange |
| Notifications (`bot/notify.py`) | bounded queue, worker thread, spool file | enqueue, deliver, spool, flush | web app |
| Candles and feeds (`bot/candles.py`, `feeds.py`) | cached windows | refresh, cross-check, fall back | exchange client |
| Supervisor (`strattice/worker/supervisor.py`) | `_procs`, crash history, applied restart | poll D1, spawn, recycle, stop, hold, publish | D1, engine processes |
| Worker store (`worker/store.py`, `config_gen.py`, `entitlements.py`) | D1 rows | `active_users`, control and status rows, publish; config generation | D1 |
| Server actions and queries (`web/app/actions.ts`, `web/lib/queries.ts`) | D1 rows: bot state, strategies, credentials, preferences, subscriptions, billing events | keys, switches, go-live, strategies, preferences, checkout, console; reports over trades and equity | D1, Cashfree |
| Payment webhook (`web/app/api/cashfree/webhook`) | rows of events and subscriptions | record an event, change the subscription | D1 |
| Pages (`web/components`): account, settings, strategies, console, chart | what a tab shows, calls in flight | optimistic switches, forms, polls, streams | server actions, candle proxy, Binance stream |
| Simulator and builder (`web/lib/strategy-sim.ts`, `custom-strategy.ts`) | none | evaluate rules over candles, replay, split into folds | pages |
| Advice (`quiz.ts`, `StrategyAutoPick`, `BestStrategyFinder`) | answers, plan, ranking | score, plan, apply row by row | server actions |
| Rate limiter (`web/lib/rate-limit.ts`) | buckets per client | count, sweep | routes |
| Backtester, research, landing pages, auth, encryption, scripts | none shared | offline, rendering or third-party | - |

The web app writes what users want into D1; the supervisor polls D1 and runs one
engine per active user; each engine polls candles, asks its strategies, and
sends orders to the exchange through the executor, which records them in the
user's `bot.db`; the supervisor publishes `bot.db` back to D1.

### What is hard in it

* A POST of an order may time out, be answered late, fill later or in part, and
  the process may die anywhere around it; the only memory is what was written
  to `bot.db`, in two separate transactions per fill.
* The same decision comes up again in every poll of a candle, so a failed order
  is retried under the same client order id after a lookup that may itself be
  wrong or fail.
* The KILL file may appear between any two steps.
* Failures are counted across retries and calls, and a circuit half open
  depends on a probe whose outcome may never be recorded.
* Users, owner and payment events change D1 while the supervisor works on what
  it has read; engines and the supervisor die at any time.
* Webhooks and published rows are duplicated, lost or reordered.
* A page shows a switch before the server has agreed, rolls it back when it has
  not, and is one of several tabs on the same rows; answers to what the user
  has left arrive after answers to what he chose.
* The same rule of a strategy exists twice, in the page that previews it and in
  the engine that trades it; parameters are clamped and merged on both sides.

### What makes each part correct

* Order path: one order per decision, positions equal to the booked fills and
  to what was traded, at most one order after KILL, and halting.
* Exchange calls: a failing exchange is spared for the doubled pause, alerts
  come in pairs, a circuit whose calls go on closes again.
* Supervisor: never two engines per user, D1 obeyed by every completed poll,
  restarts leave no old engine, crash loops throttled but never abandoned.
* Risk gate: limits hold for entries and never trap a position.
* Billing: no one has more access than was paid for, however late and in what order
  the events come.
* Account: a new exchange stays in DRY_RUN until it is confirmed; the dashboard
  never stays wrong.
* Console: whatever polls fail, engines can be stopped; a bot forced off stops with
  the next poll that succeeds; the plan on show is stored.
* Pages: what is shown with nothing in flight is what is stored, or belongs to
  the market chosen last; only what was confirmed is removed.
* Simulator, builder, advice: a preview is what the engine runs, figures follow
  from the trades they summarise, advice is what the scores say.
* Reports: every view of the trades adds up to the same money.

The hazards list in `PROJECT.json` is the same at the level of lines.

## 2. Modules

| Module | Models |
| --- | --- |
| `DecisionLog` | abstract: what the order path promises of every decision and holding |
| `OrderPath` | executor, order and position tables, reconciliation, boot, engine loop, KILL file, the exchange |
| `MCOrderPath` | the instance of `OrderPath` TLC checks (which market each strategy trades) |
| `OrderPathProofs` | theorems about `OrderPath`: orders and refinement, positions and coins; and about `ApiClient` |
| `Recursion` | lemmas on sums, products, fractions, recursive tables, ranks and lists the other proofs cite |
| `ApiClient` | breakers, bucket, retry and the thread that calls |
| `Supervisor`, `SupervisorProofs` | the poll loop, engines, crash accounting, D1 rows; theorems |
| `Billing` | one subscription: checkout, webhook, cancellation, grant |
| `Account` | keys, switches, go-live, the engine's book and its publication |
| `AdminConsole` | the owner's console and the supervisor's poll |
| `MCAccounts`, `AccountsProofs` | the three machines above as one instance; theorems about each |
| `AccountPage` | bot controls and key form in several tabs |
| `Settings` | preferences row, its lazy table, the toggles of all tabs, the notify route |
| `PriceFeed` | chart, polls and trade stream |
| `RateLimit` | the limiter in memory |
| `ReadModel`, `EquityCurve` | reports over trades; the thinned curve and its drawdown |
| `MCScreens`, `ScreensProofs` | the six machines above as one instance; theorems about each |
| `Fractions` | exact arithmetic: fractions in lowest terms, their sums and products |
| `Templates`, `CustomRules`, `Signals` | parameters and gates; user-built rules on both sides; entry and exit rules (operators) |
| `Simulator`, `SimulatorProofs` | the bar loop, folds and recurring buys; what is proved of them and of the rules |
| `StrategyPage` | cards, rows, adding, removing, split, with the server actions behind them |
| `Preview`, `Builder` | the preview's fetches and chart; the builder around it |
| `Quiz`, `AutoPick`, `Finder` | the three advisers |
| `Lists` | what `Array.prototype.filter` returns, as the n-th of the elements kept |
| `MCStudio` | the machines of the strategy pages as one instance |
| `StudioProofs`, `BuilderProofs` | theorems about page and advice; about builder and replay in that instance |

### OrderPath

One engine thread with a program counter `pc`; a step is one SQLite transaction
or one network call with the local computation around it, so a `Crash` may fall
between any two writes the code makes separately. `status`, `booked` and `pos`
are the tables; `req` the locals of `place()` or `resolve_one`; `orders`, `wire`
and `coins` are the exchange, requests that timed out and may still arrive, and
what was really traded.

| Code | Action |
| --- | --- |
| `Engine.run` boot, `heal_lost_confirmations`, `resolve_one` | `Boot`, `HealRow`, `HealAbort`, `HealDone` |
| `run` loop, `run_once` | `StartCycle`, `Hold`, `Decide`, `EndCycle`, `Halt` |
| `place`: retried key, gate | `ResolveStuck`, `RiskPass`, `RiskRefuse`, `Abandon` |
| `place`: `create_order` returns, fails, or raises something else | `PostAnswered`, `PostFailed`, `PostRaised` |
| `place`: the writes | `RecordPlaced`, `SetPosition`, `RecordError` |
| process death | `Crash` |
| exchange (external) | `Fill`, `Expire`, `Arrive` |

Decisions of a strategy are free: any intent the position allows. Money limits
are a free refusal (`RiskRefuse`); the KILL check and the rule of one strategy
per market are exact. Left out: DRY_RUN orders, prices, fees and P&L, a failing
SQLite write (it ends where `PostRaised` or a crash does). `Dedup` is FALSE in
the runs: the code does not rely on the exchange refusing a reused id.
`booked` counts placed rows only; the quantity an error row carries is the one
asked for and no code adds it up.

### ApiClient

`Admit` and `FailFast` are a call asking its breaker (`allow`), `Acquire` the
bucket, `Answered`, `Transient` and `Escapes` the ways a request ends,
`Retry` the repetition of a public GET. Time is counted in token refills and
kept as ages, cut at the largest cooldown, so it needs no bound. The refusal of
the bucket after `max_wait` cannot happen with the code's constants.

### Supervisor

One poll is `ReadControl`, `ReadUsers`, `ReadStrategies`, one of `Keep`,
`Launch`, `Respawn`, `Trip`, `Wait` for every active user, `Cleanup`,
`WriteStatus`, `Sleep`; `PollFails`, `SpawnFails`, `Undecodable` and `Crash` end
it early. Any row of D1 may change between any two of these, and engines die at
any time (`Dies`). A time unit is one poll. A configuration is one value for
all that the change hash covers. The process manager is taken to end the
engines with the supervisor (systemd's control group, a container, pm2's tree
kill: `strattice/README.md:140`); without that, a supervisor that is killed
leaves engines nobody knows of, and `OneEngine` would not hold. The projection
of `bot.db` changes nothing here: `publish` is in `Account`, `ReadModel` and
`EquityCurve`, `heartbeat` in `AdminConsole`.

### The rows of one user: Billing, Account, AdminConsole

`Billing` splits the webhook at its awaits (record the event, then change the
subscription) and lets a request die in between; Cashfree (external) repeats and
reorders what it sends. Checkout is behind `PRICING_ENABLED`, a constant, because
the code ships it switched off. `Account` splits each server action the same way,
so two tabs interleave, beside the supervisor's poll, the engine's book and the
publisher with its separate delete and insert; `engine` is one process for
short, `Supervisor` has the long story. `AdminConsole` counts time in poll
intervals and keeps reports as ages; the owner makes any number of choices of plan
before the first is answered, loads the page anew meanwhile, and calls of the page
he left arrive late, once or several of the same plan.

A month of access is dated from the handling of its payment, as the code does it
(`route.ts:51-55`); `ts`, the time of the event, only tells events apart. What
`Billing` counts is therefore not the date on which access ends but how much of it
there is: `used` counts the ticks of access had, `Left` what is still open.

### What a page shows: AccountPage, Settings, PriceFeed, ReadModel, EquityCurve

A tab's calls run one at a time and in order: that is the router's action queue,
taken as given (external); calls of two tabs interleave. `AccountPage` takes the
server actions whole, `Account` has their splits. In `PriceFeed` a price is the
market it is a price of, and a chart what it was filled with and whose trades
were put into it since; React's clean-up and effect of one choice are one step,
and an answer carries the effect that asked for it. `ReadModel` and
`EquityCurve` are queries as operators over a table that only grows; `MCScreens`
gives them a fiscal year of a few days so that its border is met.

### Previews and engine: Templates, CustomRules, Signals, Simulator, Builder

Numbers are thousandths and arithmetic is exact: fractions in lowest terms, roots
compared by squares. The code computes in binary floating point, so a
comparison of two values that differ by rounding only may go the other way
there. `customEntryAt` is the browser's evaluator of a custom strategy and
`decide` the engine's, each translated from its own source; `LockStep` compares
them on every history of the run. Browser events are steps, and what React
renders in one batch is one step: a click and what it changes are seen together.

## 3. Runs

| Run | Bounds | Shows |
| --- | --- | --- |
| `order_path` | 1 strategy, lot 2, 2 candles, 3 POSTs, 1 crash, late requests, fills settled at the reply | `Ledger` (the inductive invariant, of which the types and `Tracking` are part), `OneLiveOrder`, `PositionIsLedger`, `BookAgrees` |
| `order_live` | 2 strategies of one market, lot 1, 2 POSTs, resting orders, KILL file that comes and goes, 1 crash except between the two writes | `ImplementsLog` (refinement of `DecisionLog`), `KillBound`, `KillHalts` |
| `breaker` | threshold 2, cooldown 1 to 3, bucket of 2, 2 attempts | `Paced`, `AlertedOnce`, `Recovers` |
| `supervisor` | 1 user, 2 configurations, 2 keys, window 3, limit 2, hold 1 to 2, 1 restart, 1 fault | `OneEngine`, `OnePoll`, `RestartMeansNew`, `Throttled`, `Applied` |
| `accounts` | billing: 2 subscriptions, 2 events of 4 kinds, 1 user request, 1 death, 1 grant, 3 instants with a month of 2; account: 2 exchanges, 2 requests at once, 1 failed call, 1 position; console: report stale after 3 intervals, 3 presses, 3 failed polls | `AppliedOnce`, `AccessWasPaid`, `ExpiredStaysOut`, `DryUntilConfirmed`, `NeverStuckStale`, `AlwaysAWayOut`, `OffWithinAPoll`, `PlanShownIsStored` |
| `screens` | chart: 2 markets, 2 ranges and the tape, 2 choices, 3 fetches, 2 lost sockets; limiter: 2 clients, 2 per window of 2; settings and account page: 2 tabs, 4 and 3 clicks, 1 failure; 3 trades over a year of 4 days; 5 snapshots thinned to 2 | `SettingsHonest`, `DryMeansDry`, `ShownIsOfMarket`, `OneConnection`, `Burst`, `ReportsAddUp`, `CurveHonest` |
| `studio` | replay: every template with periods of 1 to 3, histories of 5 to 8 bars; page: 2 templates, 2 rows, 4 clicks, 1 failure, 1 edit elsewhere; builder: 2 markets, 3 clicks, 1 failed save; the whole quiz; pick: 3 starting lists, 6 moves, 1 failure; finder: 2 coins, 2 ranges, 5 clicks | `PageHonest`, `ReplayHonest`, `LockStep`, `BuilderHonest`, `AdviceHonest`, `RemovesConfirmed` |
| `order_double`, `order_restart`, `supervisor_keys`, `account_off`, `book_currency` | smallest that reaches it | a documented statement the code does not keep (section 5) |

Why these bounds are enough for what they are to show: two POSTs of one decision
are a retry, three leave room for a retry that itself is lost and retried; two
candles let an old row meet a new one; lot 2 is the smallest that can be filled
in part; two strategies are the smallest that can compete for a market; one
crash between any two steps reaches every half-done write, since the boot pass
then runs on it. A cooldown of 1, 2, 3 is first, doubled and capped. One user
suffices for the supervisor's own invariants because users meet only in the
shared poll; the theorems hold for any number. `MaxFaults` bounds failed calls
and deaths of the supervisor, so that in `Applied` no failure lasts for ever;
engines may die without bound. Two tabs, two markets, two exchanges and two
overlapping requests are the smallest that can be in each other's way, and one
failure at any step reaches every roll-back; two subscription ids let a late
event of the old one meet the new one. Histories of five to eight bars let every
rule with periods of two or three be warm, enter, and leave by each of its
exits.

`MCAccounts`, `MCScreens` and `MCStudio` hold machines that share no variable. The
variable `which` picks the one that moves; the others are parked in an initial
state, so the runs explore the sum of the machines and not their product. A
property of such a run that names several facts (`SettingsHonest`, `ReportsAddUp`,
`CurveHonest` and those of `studio`) is the conjunction of the
named parts, each stated and explained in its own module. `PROJECT.json` gives
every property one mutant; the modules carry further ones, beside the definition
they change and marked "Mutant", and each breaks the part it is about: for
instance `RolledBack` to `NotRolledBack` (a refused toggle stays), `Full` to `OneMore` (the
limiter's off-by-one), `EXECUTED` to `AnyStatus`, `Peak` to `PeakBefore` (the
drawdown), `BracketGiven` to `BracketAny`, `setStrategyEnabled` to `EnabledUnseen`,
`Leave` to `LeaveCounted`, `OutOfTime` to `OutOfTimeLate`, `Invested` to
`InvestedPerBar`, `Arrives` to `AnyAnswerCounts`, `WindowsArrive` to `WindowsOfAny`,
`cleanExits` to `CleanPercent`, `Ahead` to `AheadOfTies`, `RemoveOne` to
`RemoveEarly`, `ShownAdd` to `AddWhileAdding`. The symmetry of `accounts` permutes
subscription ids and exchanges, that of `screens` the account page's tabs and the
limiter's clients, which no definition tells apart.

Restrictions of the properties, each in its statement: `OneLiveOrder` and
`PositionIsLedger` except decisions in `lost`: those whose order was sent and
whose rows a crash left unwritten (the runs `order_double` and
`order_restart` show why), and those a lookup declared absent while the timed-out
request was still on its way (`Forget`; nothing in the code waits for it). `BookAgrees` needs an exchange that settles before it
replies and reports the fill. `ImplementsLog` is for crashes other than between
the two writes of a fill.

Fairness. `OrderPath`: weak fairness of the engine as a whole; its thread runs
on and a dead process is started again (service manager or supervisor); no
fairness of the exchange, of the KILL file or of time is assumed. `ApiClient`:
weak fairness of time and of the thread while a call is in progress, and none of
starting one: candles are fetched in every cycle, but a signed call is made only
for an order, to size a purchase, or for the hourly comparison of balances while a
position is open (`engine.py`, `sizing.py`), so an engine that only holds may never
make another. `Recovers` therefore says of each breaker: if the exchange answers
for good and calls behind it go on being made, its circuit closes for good.
`Supervisor`: weak fairness of the poll loop, which never ends and is started again.

The other modules state no fairness and no liveness: whether a user clicks, a
reply comes or a socket closes is not the code's to promise.

`CHECK_DEADLOCK` is left on for the order path, the exchange calls and the
supervisor, which must always be able to go on. It is off for the pages and rows
of one user: users may stop clicking, and the bounds end every behaviour.

Further restrictions, each in its statement: `DryUntilConfirmed` except a go-live
that was in flight together with a request that stores keys (`overlapped`: the
action reads the exchange, then raises the flag in another call);
`NeverStuckStale` except an insert whose reply was lost; `DryMeansDry` and
`TabShowsStored` except what another tab has overtaken or a lost reply left
unknown; `PlanShownIsStored` except where the code does go wrong, which `spoiled`
names: a choice refused with a later one behind it (the roll-back shows a plan that is
not the one stored next), and a plan that changed behind the page, by a call of a page
that was left, another tab or a checkout, each until the page is loaded anew or a
choice made at rest is accepted. `OffWithinAPoll` allows one interval for each poll
that failed since the switch was thrown (`missed`, which the switch sets to nothing;
refusals of other calls and earlier faults do not count) and one more.
`AccessWasPaid` is about how much access there is, not of which tier: a checkout
writes the tier it asks for at once, so until the period paid for an earlier tier
ends, a cancellation of the new one gives access under the new name
(`queries.ts:39-51`); and a payment that is never applied, because its request died
after the record, gives less than was paid for. `RemovesConfirmed` is of this tab's
steps.
`CurveHonest` is about drawdown over the points drawn, not over those thinned
out, and compares falls from a peak above zero to a point not below it: a book
worth less than nothing has no share of its peak to lose. `LockStep` is for histories long enough that the indicators are warm.

## 4. Proofs

All theorems are about the specification without fairness and hold for every
value of the constants that meets the assumption its module names: natural
bounds, positive lots, windows and thresholds, names that are distinct from the
marks for "none", and

* a finite set of strategies (`OrderPath`): a book is a sum over them;
* prices above zero and ordered within a candle, volumes not negative, at least one
  bar per template; parameters that are numbers, the periods among them at least one
  bar and bands and margins not negative; definitions made of blocks of the catalogue;
  friction and what is left of a recurring buy as fractions, the latter above zero
  (`Simulator`: the catalogue's bounds and the gates allow nothing else). Templates
  and coins the page offers (`StrategyPage`);
* rows that the pick starts from have ids of their own, natural numbers as the
  database deals them, and live results are whole amounts (`AutoPick`);
* the range the finder opens with is one it offers, and a simulation gives one
  score per template (`MCStudio`);
* a default market that can be chosen (`MCStudio`) and a default exchange that can
  be linked (`MCScreens`); `Machines` are machines of the run (`MCAccounts`,
  `MCScreens`): with another name nothing moves.

**Order path.** `OrderPathProofs`: `TypeCorrect`; `TrackingCorrect`; from it
`OneLiveOrder` and `KillBound`; `ImplementsLogCorrect`, the refinement.
`OneLiveOrder` is not inductive: nothing in it forbids a second POST while the
first is still on the wire. `Tracking` adds what the code relies on without
saying so: an order that may trade is the newest of its id, so a lookup finds
it (`Standing`); a request still on the wire is the only one of its id that can
trade and its row says `error` (`OnWire`); and at every program point the
locals of `place()` agree with the row they were read from (`InProgress`). A key
is freed only when the lookup declares the order dead; `Standing` and `OnWire`
say that this is right unless the request is still on the wire, in which case
the decision goes to `lost`. The refinement follows from it step by step: a step
either leaves the fate of all decisions and all holdings as they are or is one
action of `DecisionLog`.

Of the book: `PositionIsLedger` and `BookAgrees`. Neither is inductive:
that a position is the sum of its rows is kept by a heal only if the row healed
was not placed before (`Tracking`), and that it is what was traded needs the two
sides of one fill to be compared before both are written. `Ledger`, which
`order_path` checks, says of every decision `bot.db` has not lost that its row,
the fill in hand and its only order at the exchange name one quantity
(`Settled`), and that a fill is only ever written for an order that is there
(`Written`). A step then changes the sum of the rows of one strategy by exactly
what it changes its position or the fill in hand (`BookStep`), and its coins by
what its orders trade (`CoinsStep`). The sums are those of the community modules,
folds over finite sets; `Recursion` shows what the proofs need of them (a term
taken out, a term changed, a sum split by classes) on a minimal counterexample in
place of an induction.

**Exchange calls.** `OrderPathProofs`, second part: the invariant `ApiInv` (alert debt, age and failure
count of each breaker and the call admitted), from it the types, `AlertedOnce`
and `Rested`: after `Threshold` failures in a row nothing is sent before the
current cooldown is over. `Paced` says more, namely which cooldown that is: `Due`
ties the cooldown the code keeps, doubled and capped one probe at a time, to the
power of two of the failures in a row (`PauseValues`).

**Supervisor.** `SupervisorProofs`: types and `Owned` (running processes are
exactly the live entries), which gives `OneEngine`; `Recycled` (no live engine is
older than the restart acted on or shown), which gives `RestartMeansNew`;
`Obeys`, which says at each point of the poll what it has already achieved for
users whose rows stayed, and gives `OnePoll`. `Fates` reduces every step to four
effects on one user's engine, and `Untouched` disposes of all steps the promises
do not see. `Throttled` rests on `Spread`: either all respawns of the window are
still among the exits counted, or the limit was last reached some polls ago and
the respawns since are at least a hold later. Hence no `Block` polls in a row hold
as many respawns as the limit (`Rare`), and a window is covered by blocks.

**The rows of one user.** `AccountsProofs` has an invariant for each machine, and
`AccountsTypeOK` of the three together.

* Billing: `Counted` (an event that has changed the row is recorded and nobody
  handles it any more) is what `AppliedOnce` rests on, since a count of at most
  one says nothing of who is still at work. `Spent` says of access had and left
  that it is at most a month for each payment already applied and each grant; a step
  that extends the period, to a month from now and no further, books one of them more,
  and a tick that passes takes as much from what is left as it adds to what was had.
  Payments applied are payments taken, which gives `AccessWasPaid`. `Cleared` (an
  expired row has no period) gives `ExpiredStaysOut`: a cancellation keeps the
  period, so it is the cleared period that keeps an expired user out.
* Account, for any exchanges, requests, failures and trades: `Armed` (while live,
  the stored keys are those confirmed and no request about to store others is
  past its check), `Numbered` (nothing remembered is newer than the last position
  opened) and `Republished` (what the read model can hold between the delete and
  the insert). `NeverStuckStale` needs `Numbered`: a position that comes back
  would look like the one published.
* Console, with a stale age of at most one interval past the one at which a report
  counts as stalled: `Outlived` (an engine that runs against a report of a pause is
  younger than the report) gives `AlwaysAWayOut`; `Stopping` adds to
  `OffWithinAPoll` that past the poll's look at the rows the engine is already gone;
  `Chain` (each call in flight remembers what the one before it asked for, and only
  the first can have been made at rest) gives, with `AtRest`, `PlanShownIsStored`.

**The screens.** `ScreensProofs` has an invariant for each of the six machines, and
`ScreensTypeOK` of all: its only part that is not a count is that the exchange
form offers, and so sends, only venues that can be linked.

* Chart: `OneConnection` is used by the other invariant, not only proved beside it:
  a price can only come from the one socket, of the market chosen, or from the
  effect that is alive (`AsksAreOurs`), so price, tape and candles are of the
  chosen market.
* Limiter: the requests a bucket counts are the last ones let through (`Kept`), the
  first of them opened its window at least a window after the one `MaxHits` before
  it (`Spaced`), and a key without a bucket is as good as one whose bucket expired
  (`Gone`), which is why the sweep is harmless.
* Account page: a tab nobody has overtaken has at most one call for the bot and one
  for the keys on its way (`Apart`), and each keeps a `Promise` in whatever order
  they are sent, served, answered or refused: a switch to dry, once it has
  succeeded, leaves the bot dry; a roll-back restores what the press found. With
  the calls through, what is left of the promises is `Rested` and `Seen`, and
  `DryMeansDry` follows.
* Settings: in a tab not left behind each call keeps a `Pledge` from click to answer
  about the row and what is shown. That Telegram is never on without a chat holds
  of every row ever read (`Paired`), so writing back an old row whole keeps it;
  that no write meets a missing column follows from `Healed`, since the page that
  sent it has read, and if need be repaired, that column.
* Reports: `ReportsAddUp` is about sums over trades grouped by strategy, venue, day
  and mode; `SumFibres` of `Recursion` turns each into the total, and the bounds of
  a fiscal year divide the days whatever day it starts on.
* Curve: `CurveInv` (rows are in the order of time) is why a window is the end of the
  log; the stride's arithmetic bounds points and gaps; the fold that computes the
  drawdown is compared with the worst fall on a minimal set of points where they
  would differ.

**The strategy pages.** `StudioProofs`, `BuilderProofs` and `SimulatorProofs`.

* Page: `PageInv` ties the server action in flight to what was confirmed at its
  click, and gives `RemovesConfirmed` and `PageIsFresh`. `StoredInv` follows a set of
  parameters from the card through the call to the row: wherever it is, it is a
  set of legal values of editable keys of its template, and gate and worker leave
  such a set as it is. `PageHonest` follows.
* Builder: `BuildInv` says of the requests on their way that those not disowned are
  of the market and interval selected, one of each kind at most; from it
  `AnalysisIsOfMarket`. `KeepInv` carries the rest of `BuilderHonest` through every
  edit: the definition edited has blocks of the catalogue with values of their kind,
  the one being saved and those saved are as the gate leaves them (`Gated`). The gate
  is the hard part: that it accepts what it returned (`GateRepeats`) needs that a
  clamped and rounded value is left alone (`Rounds`), that each of the nine blocks of
  the catalogue is consistent, and that of a list with one confirmation nothing is
  dropped. Marks stay in the plot because the scale is a fraction of the span between
  the lowest and the highest level drawn; the fractions are in lowest terms, found by
  Euclid's algorithm, of which the proof shows on a minimal pair that it divides both.
* Replay: `SimInv` puts the trades in order and bounds every hold, so the bars
  counted as exposure are the sum of the times held (`ExposureIsHolding`), and says
  that only parameters the cross-field rules accept are replayed (`Tuned`). The other
  parts of `ReplayHonest` are facts about the rules, the candles and the trades, for
  any numbers:
  * `OverlayExplains` and `EntryExcludesExit`, template by template (`EntryExplained`).
    That a close over the entry band is not under the exit band needs the gate's
    exit factor below the entry's; the fast average over the slow one, and the cloud,
    need the gate's order of periods. The supertrend and the averages of
    `macd_trend` are recursive over bars: `StepTable` shows, on the first bar where it
    would fail, that such a table exists and keeps its type, and `RatchetIs` that a
    trend that lasts has its support at or under the close.
  * `FoldsPartition`: the windows divide the bars (`WindowOf`), and a product over the
    trades is the product over the windows of the products within (`ProductFibres`).
  * `AvgCostIsAPrice`: each buy gives at least what one at the highest price gives and
    at most what one at the lowest does; `FractionsBound` adds that up.
* `LockStep`: block by block, the two evaluators compare the same fractions. They
  count bars from different ends (`SumShift`), the bot takes a deviation of differences
  from the mean where the page subtracts squares (`VarianceIs`), or a share of losses
  where the page takes one of gains (`RsiSame`). `WarmupIs` says what the warm-up is
  for: with that many bars no period of any block reaches before the first.
* Advice: `AdviceHonest` speaks of lists in order of score. A strict order on a
  finite set gives every element a rank and takes every rank once (`RanksOnto`), so
  the list by rank leaves nothing out; that covers the quiz's places and the ranking
  of the pick. `FindInv`: results on show are of the range selected, and what is
  ticked is being added, added, or named as failed. `PickInv`: while the pick is
  applied each strategy recommended is either still to be added or has a row that no
  removal to come names, which is why nothing is removed before everything is there.

Each of these modules proves the invariant inductive lemma by lemma, one per group
of actions; an action that touches one side of the state is first shown to leave
the other alone. Machines of one run share no variable, so a step of another
machine is a stutter of the one at hand.

Only model-checked: liveness (`KillHalts`, `Recovers`, `Applied`), which the prover
does not do; and `ENABLED`, so that no machine can get stuck is TLC's finding too.
Every other property a passing run checks is stated by a theorem.

## 5. Where the code and its documentation part

Each is a run that violates one property; the lines are in `PROJECT.json`.

* `order_double`: a death, or an exception other than the client's own, after
  the exchange took the order and before the row is written: the decision is
  sent again, though documented as never submitted twice.
* `order_restart`: a death between the order row and the position row: the
  position never shows the fill, and nothing repairs it.
* `supervisor_keys`: new API keys never reach an engine that is running.
* `account_off`: turning the bot off stops its engine at the next poll, though the
  page says open positions are still managed to their exit.
* `book_currency`: after a switch of exchange the headline adds amounts of two
  currencies and prints them as one.

Noticed while modelling, without a run of their own:

* Order path: a market order that fills on after its reply leaves the book at
  another quantity than the exchange (`executor.py:168-179`); a fill healed into
  the book skips the rule of one strategy per market (`reconcile.py:97-111`).
* Exchange calls: a probe that ends in an uncounted exception leaves the breaker
  half open and every further call passes (`reliability.py:182`).
* Supervisor: one row that cannot be decoded ends the poll for every user
  (`store.py:98-112`).
* Weights: the page says equal weights behave alike whatever their size
  (`StrategyManager.tsx`, `queries.ts:438-440`); the worker clamps them to 0..10
  (`config_gen.py:306`).
* Preferences: the row is read and written back whole, so two tabs lose one
  another's change (`queries.ts:148-167`).
* Billing: mails speak of a grace period, but `past_due` gives no access
  (`queries.ts:31-37`), and a cancellation after it gives the access back. An event
  whose request dies after the record is never applied (`route.ts:41`).
* Account: the go-live action checks the exchange in one call and raises the flag
  in another (`actions.ts:223-238`); after a switch the controls keep saying LIVE
  until the page is opened again; a lost reply to go-live shows DRY_RUN on a live
  bot.
* Adding strategies one by one: a failure half way leaves the rows before it, and
  a retry adds them again (`actions.ts:166-168`).
* Removing a row shifts the indices the engine's strategy names are made of
  (`config_gen.py:297`).
* Chart: while a new market loads, the old candles stay with the new price
  folded in (the page says it is loading); an older poll answered last puts older
  candles back.
* Preview: overlays are drawn "so the chart explains the entries"
  (`strategy-sim.ts:1904`), but on the bar of its flip the supertrend's new support
  may lie above the close that is bought (it is re-seeded without being compared with
  the close, `strategy-sim.ts:1199-1201`): what explains the entry there is the
  resistance it closed over, which the chart draws up to the bar before. The averages
  drawn for `macd_trend` start with the first candle while the rule's start at most 200
  bars before those it needs. `OverLevel` claims no more than that.
* Console: a plan refused while a later choice is on its way puts the row back to
  what neither stored (`AdminUserRow.tsx:44-46`).
* Advice: live results, even a loss, rank above every backtest
  (`StrategyAutoPick.tsx`); one coin that cannot be fetched fails the whole
  comparison (`BestStrategyFinder.tsx:67-77`).
* Dashboard: win rate and sparkline count paper and live trades alike; `days` of
  `dailyPnl` are days that had trades.

## 6. Not modelled, and what is left

Out of reach or without shared state: the backtester and the studies (floating
point over recorded data), landing and legal pages, third-party authentication,
the ciphers, one-shot scripts; of the simulator, statistics that divide by a
deviation; of the pages, layout, hover and formatting, and the logarithmic scale of
the preview (`StrategyPreview.tsx:200-209`; `MarksInPlot` is about the linear one); of
the chart, a pair without a symbol, for which its stream does nothing.

Not modelled, though the code has state there:

* Engine cycle and risk gate: the ladder's marker, which is set whatever became of
  the partial exit (`engine.py:262`), the cooldown after a refused sale
  (`engine.py:354`), the money limits that also block exits (`risk.py:122`),
  positions whose strategy was removed or renamed, going live on the book of a
  simulated run, the clock guard and the crash-loop guard.
* The engine's notifications: bounded queue, worker, spool and flush
  (`notify.py:88`, `notify.py:123`); a trade published once and never updated
  (`store.py:236`).
* The table behind the sign-in limiter (`rate-limit-store.ts:44`) and the limit on
  strategies checked on rows read before the insert.
* The Python twins of the built-in templates: only the custom strategy is compared
  on both sides.
* Feeds and candle windows of the engine.

Next would be `EngineCycle` with `RiskGate`, composed with `OrderPath` through the
decisions it hands to `place()`; and `Notify`.
