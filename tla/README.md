# Verification of the lead distribution platform

TLA+ models of the lead distribution API and its worker, the TLC runs that check
them on small instances, and machine-checked proofs about routing, the fair
share, the outbox, delivery, the configuration cache, the creation of forms, the purge, the heartbeat and the lead list.
Paths below are relative to the repository root; `src/...` is the TypeScript source.

## 1. The system

Visitors submit leads through one public form. Each lead is sold to one broker of
one distribution, by contracted percentages, opening hours and daily caps, and an
e-mail address is sold only once, ever. Two Node processes share one MySQL database:

- **lead-api** (`src/main-api.ts`): the HTTP API. With `INLINE_WORKER=true` it runs an
  outbox consumer of its own, under the worker id `<WORKER_ID>-inline`.
- **lead-worker** (`src/main-worker.ts`): the outbox consumer and the nightly purge.

```
 visitor ──> capture ─────tx──> leads(UNSENT) + outbox(PENDING)
                                        │ claim (FOR UPDATE SKIP LOCKED)
                                        v
                    outbox consumer ─> routeLeadHandler ─> RouteLeadUseCase (one tx)
                        │  │                │ snapshot: lead, candidates, zone, total
              heartbeat ┘  └ DONE/retry/    │ selectBroker   (pure)
                             DEAD           │ tryClaimSlot   broker_daily_counters
                                            │ EmailGuard     assigned_emails
                                            v markSent / markDuplicate / markUnsentReason
 administrator ─> assign ─> the same slot and e-mail claims, one lead by hand
               ─> retry  ─> a second outbox message
               ─> replay ─> DEAD message back to PENDING
               ─> brokers, members, settings ─> config_version + 1 ─> config cache
 worker timer ──> nightly purge of old leads and DONE messages
 readiness probe ─> worker_heartbeats
```

### Inventory

| Component | State it keeps | Operations | What makes it correct |
|---|---|---|---|
| Broker selection (`domain/services/select-broker.ts`, `entities/broker.entity.ts`, `value-objects/`) | none | eligibility, target, deficit, order | only eligible brokers; highest deficit; the split of the day follows the contract |
| Routing use case (`application/use-cases/route-lead.use-case.ts`, Prisma repositories) | `leads`, one transaction per message | gate, select, slot, e-mail, mark | a sale is final; redelivery is harmless; nothing is lost |
| Cap gate (`prisma-cap-gate.ts`) | `broker_daily_counters` | conditional UPDATE, INSERT IGNORE, UPDATE | the cap holds under concurrency |
| E-mail guard (`prisma-email-guard.ts`) | `assigned_emails` | claim | one sale per e-mail; a duplicate names a real sale |
| Manual assignment, retry (`manually-assign-lead.use-case.ts`, `leads.controller.ts`) | `leads`, `outbox` | POST assign, POST retry | the same invariants beside the workers |
| Capture (`capture-lead.use-case.ts`) | `leads`, `outbox` | one transaction | a captured lead is eventually routed |
| Outbox consumer (`outbox-consumer.ts`) | `outbox`, batch in memory | claim, handle, DONE/retry/DEAD, reap, crash, restart | at least once, one consumer per message, settled in the end, in order |
| Outbox replay (`ops.routes.ts`) | `outbox` | POST replay | only dead messages come back |
| Configuration cache (`cached-distribution-config.repository.ts`, `config-version.ts`) | a label and rows per process, `config_version` | read version, hit, refill | a hit is the configuration in force |
| Brokers, members, settings (`broker.service.ts`, `distribution.controller.ts`) | `brokers`, `distribution_brokers`, `distributions` | create, update, delete, PATCH, PUT members | sold brokers stay; every write moves the version |
| Form and distribution creation (`form.controller.ts`, `create-*.use-case.ts`) | `forms`, `distributions` | POST with existence check, slug loop, insert | one of each, under racing requests |
| Negative-slug cache (`negative-slug-cache.ts`, `public-form.controller.ts`) | LRU map with TTL | has, add, clear | bounded; a new URL resolves |
| Nightly maintenance (`purge-tasks.ts`) | timer, `lastRunDate` in memory | hourly check, paged deletes | once a night; thorough; never resells |
| Heartbeat and readiness (`outbox-consumer.ts`, `health.routes.ts`) | `worker_heartbeats`, base and delta in memory | timed beat, stop, probe | silence is noticed; the counter is right |
| Lead list (`leads.controller.ts`) | a cursor at the reader | GET pages with status and search filters | nothing twice, nothing left out |
| Composite views (`composite.controller.ts`) | none of their own | distribution page with preview, broker page, dashboard | parts read at different moments agree |
| Lead detail, ops metrics, plain aggregates | none of their own | SELECTs | not modelled |
| Authentication, rate limit, middleware, error envelope | library state | per request | not modelled |
| Contracts (Zod), environment, observability | none | pure parsing, counters nobody decides on | not modelled |

The hard behaviours are the interleavings: several routing transactions and a manual
assignment over stale snapshots and row locks; delivery again after a crash between
the routing commit and the DONE update; consumers that are slow instead of dead; a
version read outside a transaction and rows read inside it; a cache filled after an
await; a purge in pages beside everything else; pages of a list that are separate statements;
clocks of several zones read more than once in one request; timers that restart with the process.
`PROJECT.json` lists each hazard at the line where it bites, with the properties that
would catch it.

## 2. Modules

| Module | Models | Uses |
|---|---|---|
| `SelectBroker` | the pure selection (`WindowContains`, `RuleFires`, `TargetAfterLead`, `Deficit`, `Beats`, `Selected`, `NoWinnerReason`) | |
| `FairShare` | days routed by a single consumer, in several zones; the pages shown of them | `SelectBroker` |
| `FairShareProofs` | theorems about the selection and its days | `FairShare`, TLAPS |
| `Routing` | routing transaction, cap gate, e-mail guard, manual assignment, retry | `SelectBroker` |
| `LeadSale` | abstract: what the router promises, one atomic decision per lead | |
| `RoutingProofs` | theorems about `Routing`, and that it implements `LeadSale` | `Routing`, TLAPS |
| `DurableQueue` | abstract: what the outbox promises | |
| `Outbox` | the consumers, the reaper, replay | |
| `Delivery` | leads through the outbox: capture, routing, assignment, retry, replay | `Outbox`, refines `DurableQueue` |
| `OutboxProofs` | theorems about `Outbox`, the step refinement of `DurableQueue`, `Delivery` | `Delivery`, TLAPS |
| `ConfigCache`, `ConfigCacheProofs` | configuration writes and the version-gated cache; theorems | |
| `Onboarding`, `OnboardingProofs` | form and distribution creation, public lookup, negative cache; theorems | |
| `Maintenance`, `MaintenanceProofs` | the nightly purge; theorems | |
| `Heartbeat`, `HeartbeatProofs` | heartbeats, the worker part of readiness and of the dashboard; theorems | |
| `LeadList`, `LeadListProofs` | a walk through the lead list beside everything that changes it; theorems | |
| `MC*` | values for the constants and symmetry; `Outbox`, `Delivery` and `LeadList` need none | |

Definitions whose comment starts with "mutant" are plausible bugs of the definition
below them. They take no part in `Spec`; each property is tried against one of them,
to show that it notices.

### Routing

The database is modelled as InnoDB at REPEATABLE READ behaves, because the correctness
of the code is the interplay of these two rules: plain reads of a transaction see the
snapshot of its first read (`TakeSnapshot`, at `findById`), while UPDATE and INSERT act
on the latest committed rows and lock them until the end (`CounterLocked`,
`EmailLocked`). An UPDATE that finds no row locks the gap it looked in, which others may lock
as well, and the INSERT after it waits for all of them (`Gaps`, `InsertCounter`). Committed rows are the variables `lead`, `claims`, `counter`, `config`;
what a transaction has written but not committed is in its record `tx[p]`, and the
commit applies it. A step is one statement, or a run nobody can come between:

| Step | Code |
|---|---|
| `Capture` | `capture-lead.use-case.ts`: lead and message in one transaction |
| `BeginRouting` | transaction start, `findById`, the terminal-status gate |
| `Select` | `findCandidates` minus `capLosses`, `selectBroker`, no-winner reason |
| `ClaimSlot` | the UPDATE of `tryClaimSlot`; a loss (`LoseSlot`) selects again, the third one gives up; a manual assignment throws `BROKER_CAPPED` |
| `InsertCounter` | its INSERT IGNORE and second UPDATE, when there was no row |
| `ClaimEmail` | `EmailGuard.claim`: insert, or the prior row by e-mail, then by lead, in the snapshot |
| `CommitSent`, `CommitDuplicate`, `CommitUnsent` | the mark and COMMIT |
| `Acknowledge` | the consumer's DONE after the handler returned |
| `Abort` | thrown error, deadlock victim, lock wait or 15 s limit, crash: no trace, message delivered again |
| `BeginManual` | `ManuallyAssignLeadUseCase`, then the same claims and `CommitSent` |
| `ReadForRetry`, `Requeue` | POST retry: status check and insert, not in one transaction |
| `Reconfigure` | broker and member updates |

Abstractions: one instant of one day (weekday 1, 12:00), the plain repository
(`CONFIG_CACHE=false`), locks taken through foreign keys and the shared lock of a refused e-mail
left out (a victim InnoDB picks because of them is one of `Abort`'s), requests refused without a
state change are not steps. Which gap an absent counter row lies in depends on rows of other
brokers and days, so `Gaps` lets it hold any other brokers' absent rows.

`Settings` are the deployments a behaviour may be of: which of the processes there are (`crew`), and
what each broker's configuration may be changed to. `OneDecider` says that a setting has one consumer
and nobody who assigns by hand. Backoff and message claiming are `Outbox`'s, the clock is `FairShare`'s.

`LeadSale` says what the transactions amount to: a lead is sold, confirmed, refused or reopened
in one step, each decision takes one slot, and a sale never leaves the registry.
`Routing!ImplementsLeadSale` maps `claims`, the counters and the lead's status to it. (A sale
confirmed after it was reopened need not show the broker the registry has: `LeadSale` leaves the
broker of the lead row to `SoldToRegisteredBroker`.)

Rounding, in `SelectBroker`: percentages are exact hundredths of a percent, the code multiplies binary
fractions and rounds half up. The two can differ only where the exact product is a half (28.5% of
one lead is 0.28499999999999998 in the code, so 0.28). There `Selected` lets each percentage be
rounded either way, the same way for all who have it: more outcomes than the code's, none fewer.

### FairShare

Time is in absolute UTC minutes; a zone is two offsets and the instant between them. `Route`
reads the clock as the code does, once per candidate, once for the shared total and once for
`assignedAt`, so a midnight may fall between two readings. `sales` are the SENT leads, numbered in
the order they were sold; `counters` is the counter table, a function from broker and
local day to `sentCount`, the shared total by the distribution's, the broker page by UTC midnight of the local
date. The distribution page (`composite.controller.ts`) reads its members one by one and its
preview last, beside the router; the preview's own reads are one step (`ReadNext`). `Setups` are the
situations to start from. `TotalSentToday` counts by equality of the local day, where the code takes
the interval from `startOf('day')` to a day later: they differ where midnight comes twice, which
`SplitBetween` excludes for the distribution's zone.

### Outbox

`Lock` and `Claim` are the two statements of `claimBatch`; `ReadMessage`,
`HandlerReturns`/`HandlerThrows`, `MarkDone`/`MarkFailed` are `processOne`, with no
transaction around them. `Stall`, `Age` and `Reap` are the slow consumer and the five
minutes of the reaper, `DatabaseError` a failing update (it drops the rest of the
batch), `Crash`/`Restart` the process. Time is two flags per message: in backoff or
due; claim young or old. `availableAt` is an order with ties (`earlier`): whoever writes it
takes it from its own clock before its COMMIT, in milliseconds, so the message may come before others that
were there first or share their time (`Placed`), and ties are taken in any order (`TakeBatch`). `DoneError` is a
DONE update that failed, or was committed and whose answer was lost: the catch puts the message back
or buries it, DONE or not. A lost answer of another update is an error of the statement after it. `Crews` are
the deployments: the lead-worker alone, or with `INLINE_WORKER`. `DurableQueue` states the promise: a message stays queued until
it is delivered (handled at least once) or dead, and only a dead one comes back.

`Delivery` composes the outbox with what its messages carry: `Capture` writes lead and message
together, `Route` is the handler's transaction in one step (the detail is `Routing`'s),
`HandlerEnds` and `CrashHandler` are the ways a handler stops before or after that commit,
`Assign`, `ReadForRetry`, `Retry` and the replay are the administrator's.

### ConfigCache, Onboarding, Maintenance, Heartbeat, LeadList

`ConfigCache`: per routing process a cache, a transaction with its snapshot, and the two
concurrent requests of a round (`Promise.all`), each reading the version outside the
transaction and refilling inside it; beside it the configuration writes with their
checks, foreign keys and version bump. `Onboarding`: one step per stretch between two
awaits of the form, distribution and lookup handlers. `Maintenance`: time in ticks of a
fraction of an hour; the hourly timer, each firing up to `MaxLate` late and the next counted from
it, so that it drifts; its memory of the last date, which is UTC's, beside the hour, which is local time's,
over a change of summer time; and the two paged deletes. A sale is one step there. `Heartbeat`: ticks of fifteen seconds, `processedBase` and `processedDelta`,
the row the probe happens to look at, and the latest one, which is the dashboard's. `LeadList`: a request is one
statement with the key of the last row as cursor; between two of them rows are inserted, commit
late (`createdAt` is taken before the commit), change status and are purged.

## 3. Runs

| Run | Bounds | Shows |
|---|---|---|
| `routing` | 2 leads of one e-mail, 2 brokers, 2 selection attempts, 2 messages per lead, in two kinds of setting: 2 workers and 2 manual assignments with caps of 1 (`Race`); 1 worker and 1 retry, broker 1 changing between cap 1 and none, broker 2 out of the distribution as well (`Alone`) | `OneSalePerEmail`, `DuplicateNamesTheSale`, `EverySaleTookASlot`, `SlotWithinCap`, `CapNeverExceeded`, `NoLeadForgotten`, `WhoMayDeadlock`, `ImplementsLeadSale`; `SoldToRegisteredBroker` and `SentStaysSold` for one consumer |
| `fairshare` | every 5% split of three members over 25 leads; 33.33/33.33/33.34; shares whose targets are exact halves; mixed office hours over a weekday's turn; three calendars around their midnights; a change to summer time; a zone whose clocks go back over midnight; the distribution page read meanwhile | `ShareDriftBounded`, `CapPerCalendarDay`, `PageErrsByZone`, `PreviewAgreesWithRows`, `HighestDeficitWins`, `OnlyEligibleReceive`, `DroppedOnlyWhenNobodyMayReceive` |
| `outbox_consumers` | `Outbox`: 2 messages, 1 or 2 consumers, 1 crash, 1 stall, 1 error, 1 replay, batches of 2, 2 attempts | `DoneMeansHandled`, `SharedOnlyAfterStall`, `ExtraAttemptsAreFaults`; `TakenInOrder` where one consumer runs |
| `outbox_queue` | `Delivery`: 1 lead, 2 messages, 1 consumer, 1 retry, 1 replay, 1 crash, 1 error, no stall, under fairness | `ImplementsQueue`, `EventuallyDecided`, `NoLeadStranded` |
| `config_cache` | 1 broker, 2 settings, 1 router, 2 administrators, 4 writes | `CoherentUnlessOverlapped`, `SoldBrokerStays` |
| `onboarding` | 2 creators, 2 founders, 2 visitors, 3 slugs, one of them reserved, cache of 1 | `OneOfEach`, `NegativeCacheBounded`, `ResolvesEventually` |
| `maintenance` | 3 leads (two of one e-mail), pages of 2, one night; and without leads three nights in eleven zones; hours of 3 ticks, days of 3 hours, firings up to 1 tick late; 1 restart or failed statement | `SoldOnceEver`, `OncePerNight`, `NeverTwoNightsSkipped`, `CompletedPurgeIsThorough` |
| `heartbeat` | worker and inline consumer, 1 message and 2 starts each, 1 failing or slow statement | `SilenceIsNoticed`, `RunningIsReady`, `NeverOvercounts`, `TotalNeverFalls` |
| `lead_list` | 3 leads, 3 distinct creation times at most, 2 statuses, pages of 1 and 2, search or not | `NeverListedTwice`, `NothingSkipped` |

Each component's module has a `TypeOK`, and each of them is proved (section 5). The abstract `LeadSale` and
`DurableQueue` are typed by the mapping into them; the types of `Delivery` are part of its proof
(`DeliveryTypeOK` in `OutboxProofs`).

Why the bounds are enough. Every routing conflict is between two transactions over one
e-mail or one counter row, and the loser goes on to another broker: two workers and two manual
assignments with two brokers that one sale each fills contain each pair, the loss and the second
selection, and they do close circles of counters: two first claims of the day in one gap, and a
cap loser with a transaction that makes its first claim. The settings `Alone` have redelivery, the second
message and the cap that is lifted and imposed. In `maintenance` a day of three hours keeps the
hour of the purge apart from both neighbours, firings a third of an hour late drift by an hour a day, the
most the theorem allows, and the zones are UTC, clocks set back and forward before, in and after
the hour of the purge, west of Greenwich, and with midnight UTC in that hour. A batch of two with two
messages has a first and a rest; two attempts have a retry and a last one; each fault may hit
at every point of a run. Two requests of each kind suffice for check-then-act races. A negative cache of one entry
never has to refresh an entry beside another one (that takes two); `CacheIsBounded` is for any limit. A page
smaller than the number of leads gives the paged delete, and the list, several rounds. In
`fairshare`, three members is the least number for which the order of deficits is more
than a comparison, and 25 leads pass the period of every 5% split (20). Beyond the bounds stand
the theorems of section 5, which have none.

Bounds that are not the program's: `MaxMessages`, `MessageCount`, `MaxLeads`, `Setups` (`leads`, `pages`),
`MaxCrashes`, `MaxStalls`, `MaxErrors`, `MaxReplays`, `MaxVersion`, `MaxClock`,
`MaxFaults`, `MaxHandled`, `MaxRestarts`. Because of them the finite models can stop, so
their configurations say `CHECK_DEADLOCK FALSE`; `Routing` and `Heartbeat` always have a
next step and are checked for deadlock. Symmetry is used for workers, manual
assignments and leads of one e-mail, and for administrators of configuration; the liveness runs use none.

### Where the code does not do what its documents say

Three runs end in a counterexample to a statement of the repository:

- `routing_lost_update`: "SENT is terminal" (data-model.md:203). `markUnsentReason` writes
  UNSENT over any status, so a routing transaction that found nobody takes back a manual
  sale committed after its snapshot.
- `routing_duplicate_slot`: "A duplicate collision aborts the surrounding transaction, so a burned
  slot rolls back with it" (route-lead.use-case.ts:41). The branch returns (line 143), the
  transaction commits, and the counter keeps a slot no lead was sold for. The same words at
  manually-assign-lead.use-case.ts:51 are true, since that one throws. `OneSlotPerSettledLead` and
  its theorem say what the counter does count.
- `maintenance_sold_lead`: leads older than 90 days are removed (spec.md SC-013).
  `assigned_emails.leadId` restricts the delete, so one old sold lead makes its page's
  DELETE fail and ends the night, the outbox part included.

Other departures appear in the properties as the exception they need, so that what still
holds is stated exactly:

- two first claims of a broker's day need not converge, as prisma-cap-gate.ts:9-10 says: both may
  lock the gap, and then InnoDB rolls one of them back, whose message is delivered again
  (`WhoMayDeadlock` names the case; `NoLeadForgotten` is what remains);
- SENT is terminal as long as one consumer decides alone (`SentStaysSold`);
- the e-mail guard's "claimed" for the lead's own row does not look at the broker
  (`SoldToRegisteredBroker` rests on the gate before it);
- a counter row created without a cap stays open when a cap is set later that day, and one created
  under a cap stays closed, "sentCount < 0", when the cap is lifted (prisma-cap-gate.ts:27;
  data-model.md:70 says "0 = unlimited"): `SlotWithinCap` and `CapNeverExceeded` speak of counters
  that began the day under a cap;
- INV-6 "workers never share a message" fails after a five-minute stall
  (`SharedOnlyAfterStall`); a backlog is worked off in order (readiness-and-outbox test) only as far as
  `availableAt` agrees with the order of commits, by one consumer, until a dead message is replayed
  (`TakenInOrder`); and the attempt bound of FR-022 fails when a crash keeps a failure from
  being recorded (`ExtraAttemptsAreFaults`);
- the cache is not "structurally" fresh: a write inside an open routing transaction can leave a
  stale entry under the new version (`CoherentUnlessOverlapped`);
- of two overlapping replay requests the second can reset a message that is no longer DEAD
  (`ops.routes.ts:83`); `ImplementsQueue` is checked with one request at a time and the theorems on
  sharing, attempts and the queue assume it (`OneReplayAtATime`);
- no code writes the status FAILED of schema.prisma:20 (data-model.md:197): a lead whose message is
  dead keeps UNSENT without a reason (`EventuallyDecided`, `NoLeadStranded` name the dead message);
- the broker page counts from UTC midnight of the local date (composite.controller.ts:173), so it shows
  too little east of UTC and too much west of it (`PageErrsByZone`). The sign is that of both offsets of
  the zone: on the day of a change the UTC midnight may lie on the other side of it. Where clocks
  go back over midnight the local day has two beginnings and the page may err either way;
- the lead that is routed while a broker's midnight passes is counted on the day before and sold on
  the day after (`CapPerCalendarDay` allows that one, and a second where clocks go back over midnight, since
  that day has two midnights);
- from the second page on the cursor's OR replaces the search's (leads.controller.ts:77), and a search never
  looks at the phone (api.md:133-134 promises both); `Candidates` of `LeadList` is so, and
  `NothingSkipped` holds of what matched on the first page;
- a lookup that began before the form existed may cache its miss after the clear, for one TTL
  (`ResolvesEventually`);
- "Runs at ~03:00 local time once per day; safe under restarts" (purge-tasks.ts:67): a restart shortly before
  the hour skips the night; the timer drifts and may step over the hour of one night, never of the
  next as well (`NeverTwoNightsSkipped`); a night on which clocks skip the hour has none; where they
  go back over it, a restart may repeat the purge; and if the hour holds midnight UTC, the date
  of `toISOString` changes in it, so that a purge may use up the next night's date, or a repeated hour have
  two (`OncePerNight`);
- a failed initial read lowers `processedTotal`, a slow one can count twice
  (`TotalNeverFalls`, `NeverOvercounts`); with an inline consumer readiness looks at one row only
  (`RunningIsReady`);
- targets are rounded to hundredths of a lead, so the highest deficit wins up to one hundredth, that
  one included: on the first lead of a day 27.5% and 28.5% are both 0.28 in binary fractions, and the lower id
  wins (`HighestDeficitWins`);
- "less than a lead away from the contract" is not true of every share: a member of half a percent or
  less that is handed the lead of a midnight can win a second one by rounding (`ShareDriftBounded` says
  so; the run's shares are 0 or at least 5%, and `SharesAreKept` assumes more than half a percent).

Found while reading, without a property: `OUTBOX_MAX_ATTEMPTS`, `OUTBOX_BATCH_SIZE` and the poll
interval are parsed (`env.ts:22-24`) but not passed on (`container.ts:81-89`); `isOpenNow`
of the pages leaves working days out; a duplicate is attributed to the prior broker where data-model.md:195 says
"no broker attributed"; FR-005's refusal to delete a member is not in `broker.service.ts`.

## 4. Fairness

Safety needs none. The liveness runs use:

- `Delivery` (`DeliveryFairness`): weak fairness of a consumer's poll loop and reaper (both are
  `setInterval` timers of a live process, `outbox-consumer.ts:50-53`), of its restart (the process
  manager restarts it, `deploy/ecosystem.config.js`), of the passing of time (`Due`, `Age`), and of an accepted
  replay finishing. A handler may throw every time; it must only return or throw, which the
  15 s transaction limit guarantees. Nobody has to assign, retry or ask for a replay. Nothing is
  assumed about crashes, stalls or errors except that they are finitely many.
- `Onboarding` (`Fairness`): weak fairness of the expiry of an entry, of the steps of a lookup already
  begun, and of the clear that follows an insert. Nobody is assumed to ask.

## 5. What is proved

The theorems hold for every value of the constants, under the typing assumptions the modules
name (`RoutingAssumption`, `OutboxAssumption`, ...) and what the third column adds.

| Theorem | States | Assumes besides |
|---|---|---|
| `TypeCorrect` | `Routing`: `Spec => []TypeOK` | |
| `EmailSoldOnce` | `[]OneSalePerEmail` | |
| `DuplicatesAreReal` | `[]DuplicateNamesTheSale` | |
| `CapHolds`, `SlotsFit` | `[]CapNeverExceeded`, `[]SlotWithinCap` | |
| `NothingForgotten` | `[]NoLeadForgotten` | |
| `SalesAreCounted` | `[]EverySaleTookASlot` | |
| `CounterDeadlocks` | `[]WhoMayDeadlock` | |
| `DecisionsAreAtomic` | `Spec => ImplementsLeadSale` | |
| `SalesStand`, `RegisteredBuyer` | `SentStaysSold`, `[]SoldToRegisteredBroker`, both about settings with one decider | |
| `SlotsAreSettled` | `[]OneSlotPerSettledLead`, about settings with one decider | |
| `FairShareTypeCorrect` | `FairShare`: `Spec => []TypeOK` | |
| `NoLeadIsDropped`, `OnlyEligible` | `DroppedOnlyWhenNobodyMayReceive`, `OnlyEligibleReceive` | |
| `DeficitDecides` | `HighestDeficitWins` | |
| `SharesAreKept` | `[]ShareDriftBounded` | three members at most; where everyone is always open, they have 100% between them, each nothing or more than half a percent, and the distribution's clocks do not go back over midnight (`SplitBetween`) |
| `CapByCalendar` | `[]CapPerCalendarDay` | |
| `PageErrs`, `PageNeverContradictsItself` | `[]PageErrsByZone`, `[]PreviewAgreesWithRows` | |
| `OutboxTypeCorrect` | `Outbox`: `Spec => []TypeOK` | |
| `ClosedWasHandled` | `[]DoneMeansHandled` | |
| `NobodyShares` | `[]SharedOnlyAfterStall` | one replay request at a time |
| `LimitedAttempts` | `[]ExtraAttemptsAreFaults` | one replay request at a time |
| `TakenUpInOrder` | `TakenInOrder`, about deployments where one consumer runs | |
| `QueueIsDurable` | every step of `Outbox` is one of `DurableQueue` or none | one replay request at a time, no stalls |
| `DeliveryRunsOutbox` | `DeliverySpec => Spec` of `Outbox` | |
| `NoLeadIsStranded` | `DeliverySpec => []NoLeadStranded` | |
| `ConfigCacheTypeCorrect` | `ConfigCache`: `Spec => []TypeOK` | |
| `CacheIsCoherent`, `SoldBrokersStay` | `[]CoherentUnlessOverlapped`, `[]SoldBrokerStays` | |
| `MaintenanceTypeCorrect` | `Maintenance`: `Spec => []TypeOK` | the first hour is within the bound of the clock (`HourTicks <= MaxClock`) |
| `PurgedOnceANight`, `NeverSoldAgain` | `[]OncePerNight`, `[]SoldOnceEver` | |
| `OneOfTwoNightsIsPurged` | `[]NeverTwoNightsSkipped` | the firings of a day are together at most an hour late (`DayHours * MaxLate <= HourTicks`) |
| `CompletionIsThorough` | `CompletedPurgeIsThorough` | finitely many leads |
| `OnboardingTypeCorrect` | `Onboarding`: `Spec => []TypeOK` | |
| `OneFormOneDistribution`, `CacheIsBounded` | `[]OneOfEach`, `[]NegativeCacheBounded` | |
| `HeartbeatTypeCorrect` | `Heartbeat`: `Spec => []TypeOK` | |
| `SilenceIsReported`, `CountedAtMostOnce` | `[]SilenceIsNoticed`, `[]NeverOvercounts` | |
| `TotalIsCumulative` | `TotalNeverFalls` | |
| `RunningIsSeen` | `[]RunningIsReady` | a beat may be one tick old (`StaleAge > 1`), there is a consumer |
| `LeadListTypeCorrect` | `LeadList`: `Spec => []TypeOK` | |
| `ListedOnce`, `ListedAll` | `[]NeverListedTwice`, `[]NothingSkipped` | |

### Routing

None of them is inductive as it stands. `TypeInv` adds to the types what a transaction's record
holds at each step (`TxShape`). `SaleInv` says why an e-mail is sold once: the registry has
one row per e-mail (`Registry`) and never loses one, so a snapshot shows a part of it
(`SnapshotsArePast`); an uncommitted insert is alone with its e-mail (`FreshIsExclusive`, the
unique key's lock); whoever is about to commit SENT or DUPLICATE has the row that
justifies it (`SentIsBacked`, `DuplicateIsBacked`). `CapInv` says why caps hold: a counter
row is locked by one transaction at most, who has taken a slot holds its lock until the
commit, a gap somebody has locked keeps others' inserts out (`GapsKeepOut`), and so the room seen by the conditional UPDATE is still there when it is used.
`QueueInv` says why no lead is forgotten: whoever is about to mark a message DONE has decided on
its lead, and whoever gives a lead up has a reason (`DoneIsDecided`). Each is shown to
hold initially and to be kept by every action, one step per action; steps that
only move a transaction without touching the tables share the lemmas `QuietStep`,
`CapQuiet` and `QueueQuiet`. The counts need no
positive caps: a counter opened under a cap is bounded by the largest one whoever changes them.

`SlotInv` says that claims are finite and each has a slot; it rests on the lock of the counter and
the unique key, since a commit adds one of each. For `WhoMayDeadlock`,
`HoldersHaveLost`: a transaction that holds a counter row while it still claims has lost a cap
race, and one that holds a gap is about to insert into it. The property is about
counters alone: who waits for an e-mail holds a slot, and who holds an e-mail has only its commit
before it, but a refused INSERT also takes a shared lock, which is not in the model. `DecisionsAreAtomic` maps the commits to `Sell`, `Confirm` or `Refuse` (by
`SentIsBacked`, `DuplicateIsBacked`, `FreshIsExclusive`), the overwriting mark to `Reopen`, and all
other steps to none.

What one consumer keeps rests on `DeciderInv`, where only the crew runs (`Crewed`): a transaction still deciding has a lead that is not settled, and
the lead of every registry row shows that sale. It is kept because nobody else is deciding when a
transaction commits; with a second decider the first half fails, which is what
`routing_lost_update` shows. `SettledInv` then counts: a commit adds one slot and one settled lead.

### FairShare

- The calendar: a zone's days run forward but at its change (`CalendarRuns`).
- The window: the code's comparison of opening, closing and minute holds exactly when fewer
  minutes have passed since the opening than the window is long, midnight or not
  (`WindowIsHalfOpen`), so the rules of `canReceiveAt` select those who may receive
  (`EligibleMeansMayReceive`). `OnlyEligible` is this lemma for the selected, at the minute they were
  looked at.
- The sort: a set that is not empty has a first element under deficit, then id (`SomebodyWins`: a
  minimum of a well-founded order, taken twice), so nobody is selected only if nobody may receive.
- The rounding: half up to hundredths, the exact halves either way, moves a target by at most half a
  hundredth (`RoundingIsHalf`, `DeficitIsRounded`), so who is placed first has an exact deficit at most one
  hundredth below anybody's (`BeatsByRounding`).
- `CapInv`: the sales of a broker's day are at most those its counter of that day has counted, one
  more once the clock has passed into that day, another where that midnight comes twice, and none for a
  day that is still ahead (`DaysInv`); no counter passes its cap (`CountersCapped`).
  `CapPerCalendarDay` alone is not inductive: it does not say which counter a sale was counted by.
- `PageErrs` needs no invariant: the start the page counts from lies after the broker's midnight, or
  before it, by the sign of the offsets.
- `PageInv`: a row shown as capped has a counter at its cap, and counters only grow (`RowsInv`); the
  rows show an instant that is past (`RowsAreTrue`); the preview comes after all of them
  (`PreviewComesLast`).
- `ShareInv`: a counter lies between what was surely and what was perhaps counted on its day
  (`CountedInv`), the two differ by the strays alone, and whoever was sold a lead has a share
  (`SoldToShares`). On every day nobody lags a lead behind the contract, one more per stray, and nobody is ahead of it by
  more than a lead less half a percent, plus two thirds of a lead per stray (`SharesKept`). The run's
  bound of a lead each way is not inductive: it does not leave the room that rounding takes. The
  greedy step (`Greedy`) keeps it: the winner has the highest of at most three deficits that add up
  to one lead and the strays, so at least a third of that up to rounding; and who loses to a higher
  deficit is not a lead behind itself.

### Outbox and Delivery

`OutboxInv` adds to the types that a busy consumer has a batch without repetitions, and that
whoever is about to write DONE has a message that was handled. `ExclusiveInv` (as long as nothing
stalled) says that what a consumer holds is PROCESSING and fresh, that no two batches meet, that
what it has locked is still PENDING, and that a replay asks for a dead message; only then is
every DONE, retry, DEAD, reap and replay a step `DurableQueue` allows. A second replay request breaks
the last part, hence `OneReplayAtATime`.

`BoundsInv` counts who has a message, and what that may cost. Without a stall it is one consumer; each stall
lets one more in (`HoldersOf`), and a locked row stays pending and in one batch, whatever stalls
(`LockedInv`). An attempt past the limit needs a holder that will put the message back as if the
limit were not reached, or a fault that kept a failure from being recorded: once the limit is
reached, attempts, holders that would put the message back and the retry already granted are
together at most the limit and the faults (`AttemptsOf`).

`OrderInv` is for deployments where one consumer runs, until a replay: messages are posted in order; one
that was never tried is due and has the `availableAt` of its capture; a locked batch leaves no untried
message behind that is older by number and by `availableAt` (`earlier`); and in a batch such a one has been
tried before the younger is taken up. Backoff disturbs none of this, since it takes an attempt to get one.

`DeliveryInv` adds what becomes of a lead: from the
routing commit to the DONE update the lead of the message is decided, closed messages carry
decided leads, and an UNSENT lead has a message at all.

### ConfigCache, Onboarding, Maintenance, Heartbeat, LeadList

- `CacheInv` (`ConfigCache`): an open transaction reads the latest configuration, or was open when the latest version
  was written (`SnapshotCurrent`), and no label is of a version to come (`LabelsPast`): so an entry
  under the present version can only be stale in the second case.
- `SingletonInv` (`Onboarding`): there is at most one form and one distribution, made by the request
  that was told "created", and whoever is about to insert has an unreserved slug, or the slug of an
  existing form.
- `CacheInv` (`Onboarding`): the negative cache holds no slug twice and at most its limit, at every step between two
  awaits; a lookup that adds has its slug removed first (`RemoveOne` says what is left of the
  sequence), and makes room after.
- `NightsInv`: the purge of a night started at a moment of its hour, and the next firing is an hour later
  for each start so far, because every timer, that of a restarted worker included, first fires an hour after
  it is set (`Started`). Two moments of one hour lie an hour apart only where clocks go back over it, and never
  two hours (`AnHourApart`). The date matters only there: an undisturbed worker remembers it.
- `DriftInv`: j hours after the hour of a skipped night began the timer fires j hours later, late by less
  than j times `MaxLate` (`OnTrack`): it was skipped by the firing just after its hour, not by one long before. A
  day later the firing is therefore late by less than an hour, within the next night's hour, and the date
  remembered is an earlier one (`AnotherDate`), which is where midnight UTC in the hour would not do.
- `ThoroughInv`: a page that was not full held all that was old, and nothing grows old before the purge
  ends.
- `SalesInv`: an e-mail that was sold has its registry row, which no page of the purge removes.
- `Shape` (`Maintenance`): the types are kept by every action only together with what the tables owe
  each other: every registry row keeps its lead, which is SENT, because the pages delete no lead
  that has one.
- `BoundsInv` (`Heartbeat`): what a row, a base and a delta count stays within the messages of
  all starts.
- `HeartbeatInv`: a row is at least as old as its writer is away (`AgesInv`), a running consumer has
  beaten in this tick or will (`BeatsInv`), and before the initial read there was no beat, so base and
  delta never exceed what was handled (`CountsInv`).
- `WalkInv`: the cursor splits the order of the rows, what was listed lies at or before it and what is
  due beyond, and a committed row never changes its key.

### Only model-checked

Every invariant that a passing run checks is stated by a theorem. Under narrower hypotheses than the
definition: `ShareDriftBounded`, which is false of four members or more (the greedy rule then drifts
by a whole lead and more, as simulations of the same module show), so its theorem is about three at
most. Out of the prover's reach: the liveness properties (`EventuallyDecided`, `ResolvesEventually`,
the fair part of `ImplementsQueue`; its safety is `QueueIsDurable`), ENABLED, and what would need
induction over data. No module uses RECURSIVE.

## 6. Not modelled

- Authentication, rate limiting, middleware and the error envelope: stateless calls into libraries.
- Contracts (Zod) and environment: pure functions of their input; what they let through is the
  range of the modelled inputs.
- Observability: counters and logs no decision reads.
- `GET /leads/:id`, lead counts, recent leads, outbox depths, metrics and log tail: single
  SELECTs or sums, nothing to interleave. Of the lead list, the broker and date filters.
- Capture's validation, IP resolution and the identical 202 answer; the database and migration
  probes of readiness.
- A broker deleted while its counter is being claimed (`INSERT IGNORE` inserts nothing): `Routing` never
  deletes brokers, `ConfigCache`'s `Close` takes it as no sale.
- Real clocks are `FairShare`'s and, in ticks, `Maintenance`'s. A clock that is set back or forward by the
  system (not by its zone) is in neither; of the outbox's clocks only the order they give is
  (`Placed`).
- Waiting for the shared lock of a refused e-mail and for foreign keys: who is a victim there is `Abort`.

## 7. Plan

Done, the most important behaviour first: `SelectBroker`, `Routing` with its proofs, `LeadSale` and the
refinement, `Outbox` and `DurableQueue`, `Delivery` (dead messages, retry and replay over leads),
`FairShare` over several days, zones and pages, `ConfigCache`, `Onboarding`, `Maintenance`, `Heartbeat`,
`LeadList`, who waits for whom in `Routing`, and the proofs of section 5.

What would come next:

1. `Routing` inside `Delivery`, in place of its one-step `Route`, by way of `LeadSale`.
2. Shared locks and foreign-key locks in `Routing`, for a property of all deadlocks.
3. A broker deleted in the middle of a routing transaction, with its counter row.
