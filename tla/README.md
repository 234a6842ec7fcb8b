# SIGEC-Campo in TLA+

SIGEC-Campo takes a field work order of an electricity utility from the
planner's desk to a technician's phone, works offline there, and brings the
answers back to a supervisor, to other corporate systems and to the corporate
geodatabase. This directory holds its formal model: TLA+ modules translated
from the code, instances that TLC checks exhaustively, and proofs that TLAPS
checks for every instance. Paths below are relative to the repository.

    tlc -workers 2 -config MCWorkOrders_serial.cfg MCWorkOrders   # model-check
    tlapm WorkOrdersProofs.tla                                    # check proofs

`PROJECT.json` is the index: components, runs, the lines each definition models
(`map`), a mutant for each property, findings, hazards and theorems.


## 1. Inventory

### How the parts meet

    planner (web) ──assign, transfer──┐                 ┌──publish──> integration_event
    supervisor (web) ──decide─────────┤  FastAPI        │               │ Celery, every minute
                                      ├─ backend ───────┤               └──POST──> ERP, OMS, …
    phone (Kotlin) ──pull, push───────┤  PostgreSQL     │               └<──GET─── their orders, faults, claims, materials
    arcpy agent (Python 2.7) ─batches─┘                 └──asbuilt_proposal, asbuilt_batch
    Celery beat: delivery pass (1 min), pre-review (5 min), plans and purge of positions (nightly)

* Each HTTP request runs in one database session (`infra/database.py`,
  `expire_on_commit=False`), under Read Committed, with no `SELECT … FOR
  UPDATE` and no ORM version column. What a handler decides, it decides on
  rows another session may be changing: all the interleaving of the backend
  comes from there.
* Every service appends to the audit trail inside the transaction of what it
  records, and `audit/service.py` takes an advisory lock of the business unit
  until that transaction ends. Sessions of a unit therefore overlap up to their
  first `record` and are one at a time from there to the commit. A handler that
  decided before it recorded is not helped by that; a handler that reads after
  it is.
* Unique keys do the rest: an insert of a key that another transaction inserted
  and has not committed waits, and fails when that one commits.
* The phone is offline for days. It captures into an outbox, pushes batches,
  and pulls pages of orders by cursor. The network loses requests and answers.
* The integration worker and the agent are processes of their own that can be
  killed between any two steps, and whose answers arrive late or never.

### Components

State is what survives the operation; "hard" is what tests hardly reach.

| Component | State | Operations | Hard | Correct when | Module |
|---|---|---|---|---|---|
| Work orders (`backend/app/workorders`) | `work_order` with state, version, owner; `device_custody` chain; milestones | assign, assign by lasso, reassign, transfer ownership, `transition`, correct a milestone, save a crew | two sessions over one row; a version compared in Python; custody read before it is closed; corrections that arrive late | every order off the desk has a holder on record, the chain only grows, a phone that owes is flagged, the version a planner named is the one assigned; the times are those of the phone | `WorkOrders`, `TimeLog`, `Crews` |
| Responses (`responses`) | `form_response`, provenance, evidence | save, submit, register and confirm evidence, dictate, confirm, discard | overwritten while a supervisor decides or confirms | nothing submitted is rewritten until it is returned; no value of a model's alone | `WorkOrders`, `Captures` |
| Review (`review`), pre-review (`prereview`) | decisions, batches, blind reviews, agent runs | decide, batch, draw, withhold, reveal; a pass every five minutes | two supervisors; a report, a return or a draw in between; passes that die | what other systems were told is what some approval signed; the order stands where the last decision left it; every order is rated | `ReviewDesk` |
| Sync server (`sync`) | devices, `sync_operation_log`, deliveries | enrol, declare for a crew, pull, push, publish a package, wipe | transactions that commit out of the order of their timestamps; replays; ledger entries not yet committed | behind a phone's cursor all is right; a replay changes nothing | `DeltaPull`, `DeviceOutbox`, `WorkOrders`, `Packages` |
| Phone outbox (`android/core/sync/…/Outbox.kt`) | operations with state, attempts, wait | enqueue, nextBatch, markInFlight, acknowledge, retryLater, park, requeue, expedite | kills, lost answers, calls given up that the server commits, budgets | nothing is lost, nothing applied twice, nothing waits for ever | `DeviceOutbox` |
| Integration outbox (`integrations/service.py`, `workers`) | `integration_event` | publish, pass, mark delivered or failed, retry, abandon | overlapping passes over loaded copies, kills between POST and commit, one broken connector | never a delivery that was not taken; retries end | `IntegrationOutbox` |
| Inbound adapters (`integrations/*_adapter.py`) | inbound events, orders with an external reference | import orders, faults, claims | two imports of one page; a page cut short; one reference in two systems | orders and ledger tell one story | `Intake` |
| As-built staging and batches (`gis_gateway`), agent (`gis-agent`) | `asbuilt_proposal`, `asbuilt_batch`, results; the geodatabase | stage, create batch, record and apply results; stage rows, append, rebuild, report | two sessions batching the same rows; an agent killed between Append and report | what is on record as applied is in the geodatabase; a batch answers for all it carries | `AsBuilt` |
| Fronts (`workorders/fronts.py`) | parent of an order | attach, detach, blocking | rows judged before they are written | one level; a work ends after its fronts | `Fronts` |
| Outages (`outages`) | requests, their links, the permit form | request, approve, reject, hand back, expire, link, unlink, send the permit | approve and reject at once; the sweep over a return; a link undone while the permit is sent | a permit is sent only under a grant; the trail accounts for the row | `OutagePermits` |
| Plans (`plans`) | plans, targets, `plan_issue` | write, run by night or by hand, skip | two runs racing for one asset and period; the plan written again meanwhile | one order per asset and period; every asset accounted for; a calendar plan fires once a period | `Plans`, `Periods` |
| Work proposals (`proposals`) | `work_order_proposal` | generate, raise or join from the field, approve, reject, merge | the findings are one JSON column; two deciders | no accepted finding is lost; every decision is on record | `Proposals` |
| Zones (`zones`) | zones, zone of an order | import, draw, switch off, backfill | a file with broken and repeated features | an import accounts for each feature and a zone has the polygon that was taken | `Zones` |
| Catalogues (`catalogs`) | entries with revision, version | write, retire, import, delta | revisions drawn before the commit; pages | what a device asked past, it holds | `Catalogs` |
| Regulatory limits (`regulatory`) | periods of a limit | set, correct, verify, judge a day | a correction that reaches into the past | a verdict of a past day stands | `Parameters` |
| Model profiles (`model_profile`) | drafts, published profile | draft, decide, publish | metadata synchronised meanwhile | what was published is not edited | `Profiles` |
| Forms (`forms`) | published versions, pinned version | publish, retire, pin | published while orders are assigned | the shape of an assigned order stands | `PublishedForms` |
| Positions (`dispatch/positions.py`) | last position, consent | report, consent, withdraw, purge | one phone, several people | no dot of a person who said no | `Positions` |
| Audit trail (`audit`) | chain of events per unit | record, verify | appends of transactions that roll back | appends continue the chain; tampering shows | `AuditTrail` |
| Dispatch (`dispatch/service.py`) | the delivery ledger | board of crews, readiness of phones | orders and phones change hands after a delivery | what the dispatcher is told is so of the phones | `Dispatch` |
| Capture policies (`policy`, `PositionSchedule.kt`) | rows of a unit and its zones | set, resolve, ask whether it is working time | night shifts, days off, midnight | the phone sleeps through no working minute | `CapturePolicies` |
| Attachments, packages, uploads (`attachments`, `storage`, `Uploads.kt`) | files of an order, packages of a zone, uploads by parts | attach, withdraw, publish; open, send, close, confirm | two publications; lost answers | a package serves what the screens list; a file that counts is whole | `Packages`, `Uploads` |
| Dictation (`voice/normalizer.py`, `extractor.py`) | none | normalise, extract | the order of the passes | what is proposed is what was said | `Dictation` |
| Matching (`model_profile/matching.py`) | drafts of a profile | propose, build | scores that tie and compete | a value is written in the code of its own domain | `Matching` |
| Suggestions and routes (`assignment`, `routing`, `auth/scope.py`) | crews | suggest, route | loads and positions that move; the phantom node | nobody fit is forgotten; no shorter order exists | `Crews`, `Routes` |
| Phone conflicts and form rules (`android/core`) | none of their own | decision tables | – | – | not modelled |
| Inference, token checks, reports, analytics, web, simulators | read models, pure rules, I/O | – | – | – | not modelled |

The hazards, each at its line, are listed under `hazards` in `PROJECT.json`
with the properties that would catch them.


## 2. The modules

| Module | Extends / instances | What it is |
|---|---|---|
| `OrderLifecycle` | | states, the transition table and the subsets the code tests for |
| `WorkOrders` | `OrderLifecycle` | the handlers that move an order, as concurrent database sessions |
| `Delivery` | | abstract: captured work takes effect once and is forgotten only after |
| `DeviceOutbox` | instances `Delivery` | outbox, network and server ledger |
| `IntegrationOutbox` | | ledger of outbound events, passes, the integrations screen |
| `DeltaPull` | | cursor, pages, withdrawals, declarations |
| `AsBuilt` | | staging rows, batches, the agent and the geodatabase |
| `ReviewDesk` | `OrderLifecycle` | decisions one by one and in batches, pre-review, blind sample, events of an approval |
| `Captures` | `OrderLifecycle` | one response: what was sent, proposed, confirmed and photographed |
| `OutagePermits` | `OrderLifecycle` | outage requests, their links to orders, the permit sent under them |
| `Proposals` | | the tray of proposed work and the findings of the field |
| `Intake` | | imports from the other systems |
| `AuditTrail` | | chains of events, the lock of a unit, verification |
| `Periods` | | dates, labels of periods and when a plan fires, as operators |
| `Plans` | `Periods` | runs of one preventive plan |
| `Fronts`, `Zones` | `OrderLifecycle` | works and fronts; polygons and the zone of an order |
| `Catalogs`, `Parameters`, `Profiles`, `PublishedForms`, `Positions` | | what administrators keep, and a phone's position |
| `CapturePolicies`, `Packages`, `Uploads` | | policies and the working day; packages of a zone; a file sent by parts |
| `Dictation`, `Matching` | | from speech to a proposal; from metadata to a profile |
| `Crews`, `Routes` | `Routes` extends `Crews` | crews, who sees them, which to send; in what order to visit |
| `Dispatch`, `TimeLog` | `Dispatch` extends `OrderLifecycle` | what the dispatcher is told; the milestones of an order |
| `WorkOrdersProofs`, `DeviceOutboxProofs`, `IntegrationOutboxProofs`, `DeltaPullProofs`, `AsBuiltProofs`, `ReviewDeskProofs` | the module named | its theorems |
| `OfficeProofs` | `OutagePermits`, `AuditTrail`, `Proposals`, `Intake`, `Packages`, `TimeLog`, `Uploads`, `CapturePolicies`, `Routes` with `Crews`, `Matching` | the theorems of each, one part after another |
| `PlanningProofs` | `Plans` with `Periods`, `Fronts`, `Zones`, `Profiles`, `PublishedForms`, `Positions`, `Captures`, `Catalogs`, `Parameters`, `Dispatch`, `Dictation` | the same |
| `MCWorkOrders`, `MCDeviceOutbox`, `MCIntegrationOutbox`, `MCAsBuilt`, `MCReviewDesk` | one each | instances for TLC; `DeltaPull` and `Profiles` need none, their `.cfg` says all |
| `MCOffice` | `OutagePermits`, `Proposals`, `AuditTrail`, `Intake`, `CapturePolicies`, `Packages`, `Uploads`, `Dictation`, `Matching`, `Crews`, `Routes`, `TimeLog` | one instance for twelve components that share no state |
| `MCPlanning` | `Plans`, `Fronts`, `Zones`, `Catalogs`, `Parameters`, `Profiles`, `PublishedForms`, `Positions`, `Captures`, `Dispatch` | the same for the other screens |

Definitions keep the names of the code (`assign_device_to_crew`, `_reaches`,
`nextBatch`, `retryLater`, `record_batch_results`). A definition commented
"Mutant" is a plausible bug in the definition that follows it; it is used only
to see that a property can fail.

### WorkOrders

A handler is a `…Begin` step that copies the rows it reads into the session's
`txn` record and a `…Commit` step that writes its changed columns over whatever
is stored then (`Written`), as SQLAlchemy's unit of work does. `RowFree` is the
row lock of an uncommitted UPDATE, which only a push holds across steps, since a
push applies its operations one by one and commits once. `Rollback` may end any
session. Milestones are set by the transition that causes them, the version
grows by one per transition and per assignment, `arrived` is what
`sync_operation_log` can say of a phone and an order, and `handed` the delivery
ledger. Abstracted: the text of reasons (a reassignment's reason is optional,
RF-321), the content of answers, notifications, the audit rows written in the
same transaction. No handler asks whether a phone that pushes still holds the
order, and the model does not either. The audit lock is not modelled here: every
handler decides before it records, and without the lock the sessions only
interleave more, so what holds here holds of the code.

### DeviceOutbox and Delivery

`Outbox.kt` is pure: the worker that persists it and makes the calls is not in
the repository and is external (`Kill`, `Restart`, `Elapse`, `NetworkChange`).
No operation of the outbox brings an operation back from IN_FLIGHT unless the
caller says the attempt failed, so `Restart` assumes a worker that does. The
length of a wait (`delayFor`) is a flag; the connection's default rule
(`NetworkQuality.allows`) decides what goes up; the transfer budget is whatever
member of `Budgets` the worker asks for. On the server a call is a session of
its own: `Replay` and `Apply` are the two branches of `push_operation`, a
unique ledger id makes the second of two concurrent sessions wait or fail
(`Claimable`, `Fail`), and `Commit` is the end of the request. `Delivery` has no
queue, network or session: its only steps are keep, settle and forget.

### IntegrationOutbox

`next_attempt_at` is abstracted to three things: due and in which order
(`older`), ahead (`waiting`), or null. A pass loads its rows once and writes
back only the columns that changed with respect to what it loaded. The order of
events inside a batch is left open; screen handlers are one step each; inbound
events, which are recorded as delivered on arrival, are left out.

### DeltaPull

`updated_at` is `now()`, the start of the transaction, so a transaction that
commits late lands behind. A phone that asks and the answer it receives are one
step, with `PullLost` for the answer that does not arrive; the phone's side of a
page is external (the HTTP client is not in the repository) and releases a
withdrawn order at once. An order names one door at a time (a phone, its person
or its crew). `behind` is a history variable: the orders that changed for a
phone at or behind its cursor. `block_device` has no caller and is left out.

### AsBuilt

Server and agent share a payload and a report. The agent's steps are those of
`BatchApplier.apply`; a guard that trips, an exception outside the Append and a
killed process all end a run unreported (`Kill`). `append_to_target` appends
the whole staging class, which is what `Append_management(staging_class,
target_class)` does and nothing empties. Polling and the call of
`apply_results`, `create_batch` and `batch_payload` are in no endpoint yet: the
model lets them be called at any time their own guards allow. The False that
`rebuild_connectivity` returns without a licence is discarded by `apply`, so it
changes nothing here.


### ReviewDesk and Captures

A decision is Begin (reads order, report and response), Judge (moves the order,
reads whether a draw is pending, and holds the audit lock from its first
`record`) and Commit. The pre-review pass takes no such lock: it claims a batch,
stores a run and its report, may draw the order for the blind sample, and may die.
What the agents conclude is any risk. One pass runs at a time (`Workers` of
one): beat starts one every five minutes and `task_time_limit` ends it after two.
The events an approval owes are the enqueue functions of `integrations/`, keyed
as they key them; a delivery pass is one step here and a module of its own
(`IntegrationOutbox`). `Captures` keeps the answers column, the provenance of
each value a model proposed and the photographs; a confirmation writes back the
whole column as it read it, fields it does not confirm included, and a push of the
phone replaces it. The run has two fields and two screens, so that a copy goes stale in
a field another screen dictates, discards or confirms; one value is enough, because
what is asked is where a value came from.

### OutagePermits, Proposals, Intake, AuditTrail

Requests are two steps, Begin and Commit, with nothing locked in between; the
sweep that expires requests is one more session. `permit` records under which
request a permit was sent, `ptrail` what the audit trail says. In `Proposals`
the findings of a row are one JSON column, so joining writes the list that was
read; the unique index is for open proposals of an asset and defect. `Intake` is
one loop for three adapters: an import's rows are its own until it commits, an
insert of a key another import holds waits, and a page cut short rolls back. The row
of a page nobody answered has a key of its own (`Key` without `ItemKey`), which owes
no order. `import_external`, which only tests call, is left out. In
`AuditTrail` a digest is the sequence of all that was hashed into it, so that
digests agree only when chains do: a collision is out of the model.

### Plans and Periods

A run is Begin, a read of what is pending and attended, one step per asset with
an order to create, and a commit. The row of `plan_issue` is inserted in a
savepoint: the loser of a race cancels its own order in the same transaction.
The plan may be written again between runs. `Periods` is arithmetic on dates,
written from the code with `date.toordinal` as a formula, and checked against
`FiresOncePerPeriod` for every calendar cadence started in any month.

### Fronts, Zones, Catalogs, Parameters, Profiles, PublishedForms, Positions

Each is the handlers of one service with the sessions its rows meet. A polygon is
the set of places inside it; the arithmetic of the other rules and the geometry
itself are abstracted. In `Zones` the last import is kept with its file, what it was
asked and the zones there were before it; a backfill is Begin and Commit. `Catalogs`
draws a revision when a row is flushed and shows it when the session commits.

### CapturePolicies, Packages, Uploads

`CapturePolicies` keeps two columns of a policy, those the hours depend on, with
the fall-back from zone to unit, and two operators for one question, the server's
`within_workday` and the phone's schedule, compared hour by hour. In `Packages`
a session reads and commits later; the version read plus one meets a unique key.
In `Uploads` a file is the sequence of its bytes and the store an external party
that may answer or not; the phone dies between any two requests and asks what
arrived.

### Dictation and Matching

Both are pure algorithms inside a small machine that feeds them. A token is a
kind and a content; the passes are recursive functions over the places of the sentence,
in the order of the code, and a sentence is built from what the technician means, so that the property can
compare what is proposed with what was meant. In `Matching` a name is an
identifier with the tokens it splits into and scores are ten-thousandths, with
the thresholds of the code and its greedy choice, one round of a recursive function for
each value taken.

### Crews, Routes, Dispatch, TimeLog

Places lie on a line by kilometre. `suggest` is one operator over the rows as they
stand, asked between any two edits; who comes `i`-th is the crew that `i - 1` others
outrank, which is what the sort leaves. `Routes` takes the solver at its best, as one
that returns a least cycle of the graph the code hands it, so that what fails is
the reduction and not the search. `Dispatch` holds what the server knows
(`handed`) against what the phones have (`copies`); how a cursor finds what
changed stays in `DeltaPull`. A blocked phone that asks is told to erase itself
(`ToldToWipe`); `acknowledge_wipe` is an action of its own, taken for any phone that is
enrolled. `TimeLog` is the phone's log, its outbox and two
kinds of correction over one row per milestone, with the phone's clock ahead or
not.


## 3. Abstract specifications

`Delivery` is refined by `DeviceOutbox` under `held <- Held`,
`refused <- {op : ledger[op] = "rejected"}`: checked by TLC as the property
`Delivers`, and proved as `ImplementsDelivery`. Pure algorithms are compared with
a reference definition: `Periods` with `FiresOncePerPeriod`, `Routes` with the
shortest of all orders of the stops, `Dictation` with what was meant,
`CapturePolicies` with the server's own working day.


## 4. What TLC checks

Every property of a passing run has a mutant: the check of `PROJECT.json`
replaces a mapped definition by its buggy form and expects that property to
fail.

| Run | Instance | Properties | What it shows |
|---|---|---|---|
| `serial` | 1 order, 2 phones, 2 assignees, 2 planners, one session, 3 custody rows, version ≤ 15 | `OneHolder`, `SettledTogether`, `AnswersFrozen` | what the handlers keep when requests do not overlap, from creation to approval and round the return loop |
| `race` | the same order, two sessions open at once, version ≤ 4, 2 custody rows | `CustodyAccounts` | what survives lost updates |
| `rf311` | two sessions | violates `OptimisticLock` | finding 1 |
| `outbox` | a form and its photo, two calls, 2 attempts, budgets 3 and 5 (the photo's size is 4) | `SettledOnce`, `Delivers`, `NothingStuck` | losses, kills, calls that overlap, payloads over the budget |
| `integ_drain` | an event whose connector has a URL and one whose has not, two passes, 2 attempts | `DeliveredWasTaken`, `Settled` | overlapping passes, kills, people and the business writing the same rows |
| `pull_cursor` | 2 orders, a phone, 2 people, a crew, 2 transactions, pages of one, 4 moments, one declaration | `CursorCovers`, `CatchesUp` | late commits, lassos over a page boundary, lost answers, phones that start over |
| `asbuilt` | 3 proposals (one for ArcFM), 2 batches of ≤ 2, an agent, 2 sessions, rows ≤ 2 before a run | `AppliedIsThere`, `CompletedAnswers` | stolen rows, kills, repeated batches, late reports |
| `asbuilt_once` | the same | violates `AppliedOnce` | finding 2 |
| `desk` | an order from the field and one already rated, 2 supervisors, a pass that may die once, 2 captures, 2 decisions | `ApprovalTold`, `LastDecisionStands`, `EveryOrderRated` | two decisions at once, alone or in a batch, over reports, draws, returns and deliveries |
| `office` | twelve scenes: 2 requests of outage, an order, 2 deciders and 4 events; a tray of 2 proposals, 2 supervisors, a phone, a pass; 2 audit chains of 3, 2 writers; 2 imports of 2 references; a unit and a zone with day and night shifts, 2 editors; a work and its front, a file, 2 publishers; sentences of 2 parts; 3 types over classes of a small geodatabase; 3 files of up to 3 parts; 2 crews and 3 orders, 2 edits; routes of 2 and 3 stops; 2 milestones, 2 phones and a supervisor | `PermitUnderGrant`, `TrailAccounts`, `FindingKept`, `TrailHolds`, `LedgerExplains`, `SleepsThroughNothing`, `PackageServes`, `SpokenAsMeant`, `WrittenInItsCodes`, `FileIsWhole`, `SuggestsTheFit`, `RouteIsShortest`, `PhoneTimesStand` | what the office decides, sends out and leaves on the trail, and the algorithms it trusts |
| `planning` | eleven scenes: 2 runs over 2 assets, 2 days and a rewritten plan; 3 orders as work and fronts; 2 zones, files that repeat a code, with and without replacement, and a backfill; plans of four cadences started in any month of 2 years; 2 catalogue codes in 2 scopes; 3 days of limits; 2 types on 2 classes; 2 versions of a form, an order, 2 publishers; a phone of 2 people over 4 days; a response of 2 fields with a photo, 2 dictations and 2 screens; an order, 2 crews and 2 phones | `OnceAPeriod`, `WorksSettleLast`, `ImportAccounts`, `CalendarFires`, `DeviceMirrors`, `NoDotAfterNo`, `AnswersFromPeople`, `BoardIsTrue`, `PastStands`, `PublishedStands`, `ShapeStands` | what planners, administrators and dispatchers see and technicians fill in |
| `adopted` | `Profiles` alone, one synchronisation | violates `AdoptedIsThere` | finding 3 |

`office` and `planning` are several questions in one run. Their components read
none of each other's state; `scene`, chosen in the initial state, says which of
them moves, so the run explores each component's states once and never their
product. `office` has 2.2 million distinct states, `planning` 2.1 million.
Some properties are a conjunction of what one component promises: `SettledOnce` is
`NothingDropped` and `AppliedOnce`, `CustodyAccounts` is `HolderOnRecord` and
`DebtShown`, `TrailHolds` is `AppendsContinue` and `TamperingShows`, `OnceAPeriod`
is `IssuedOnce` and `EveryAssetRecorded`, `WorksSettleLast` is `OneLevel` and
`SettledLast`, `PackageServes` is `OnePackageInForce` and
`PackageOpensWhatScreensList`.

### Why the bounds are enough

* One order: no handler of `WorkOrders` but the lasso touches two, and the lasso
  assigns each by itself. Two phones are needed for a handover, two sessions for
  a race; `MaxVersion` 15 lets the serial run complete a lifecycle with a return,
  4 lets the race reach a double assignment and a transfer. Three custody rows
  allow a reassignment of a reassignment.
* Two operations with different rank and a dependency give every pair of
  outcomes in a batch; two calls give the one abandoned and its repetition; two
  attempts give a retry and an exhausted budget.
* Two passes and two events are the least with overlap and with a stuck
  neighbour. `MaxPayload` 2 lets the business publish anew once in mid-flight.
* Two transactions commit in either order; pages of one make every pair of
  orders cross a page boundary; four moments give two late commits.
* Two sessions and two batches are the least in which one takes rows from the
  other; `MaxRows` 2 allows a batch applied twice; three proposals with batches
  of two leave one for the next.
* At the desk, two captures and two decisions allow a return, the work done again
  and a second decision over an event that was queued, or has left, by then. The
  second order is only there to make a batch of two.
* Four events on a request's trail are request, grant, return and grant again, or
  two decisions that crossed; two requests let an order be moved from one to the
  other. Two runs, two assets and one rewriting of the plan let each run lose a
  race on one asset and win it on the other.
* Two publications begun are the least that race; one file on a work and on its
  front shows whether the front carries the work's. Two parts of a sentence let
  a number stand before a unit, after a code, or between two. Files of four
  and five bytes in parts of two have a last part that is full and one that is
  not; a third file is over the limit. Three stops are the least in which an order can be the worse of two.
* One order, two crews and two phones let an order, and a phone, change hands;
  three mishaps are an enrolment, a declaration and a reinstallation in any order.
  A clock of two hours and a phone one ahead meet each side of the slack.
* In `Fronts`, `Parameters`, `Profiles`, `Positions` and `Catalogs` one session
  edits at a time: their properties are about sequences of calls, and most of
  them fail with two (below). The device of `Catalogs`, the clock of `Positions`
  and the synchronisations of `Profiles` still come between any two steps.
* `CHECK_DEADLOCK FALSE` everywhere: the bounded systems stop when their bounds
  are spent, and the real ones may rest.

Symmetry is used only in runs without temporal properties over fairness: over
sessions and planners in `WorkOrders`, over the two plain proposals, the
sessions and the batches in `AsBuilt`, over the two runs of a plan in `planning`.

### Fairness

* `WorkOrders`, `AsBuilt`: none; only safety is stated. Nothing in the
  repository polls for batches, so no liveness of them would be justified.
* `DeviceOutbox`: waits end (a clock), the worker runs again after a kill and
  gives up calls nobody answers, the server ends what it began, and the worker
  does not for ever miss the moment to send an operation that is next (strong,
  because a batch in flight disables it again and again). `NothingStuck` assumes
  a good network in the end, and that people stop putting work ahead: a
  technician who saves or requeues for ever operations of a higher band does
  keep the photographs waiting, by design of the bands.
* `IntegrationOutbox`: delays end, and each pass gets on; Celery's beat starts
  one a minute. `Settled` assumes a last kill and a last time somebody puts an
  event back.
* `DeltaPull`: the phone goes on pulling, and an answer arrives now and then.
  `CatchesUp` assumes the office rests and that nothing changed behind the
  phone's cursor.
* `ReviewDesk`: beat starts a pass every five minutes and a pass gets on with each
  order it holds. `EveryOrderRated` rests on a last kill; an order whose run
  failed counts as rated, since that state is terminal and nothing runs it again.
* The other modules: none; only safety is stated.

### Findings

1. `rf311` – `workorders/models.py:196` promises an optimistic lock; `assign`
   compares the version in Python and writes by primary key, so two planners who
   read the same version both assign and both custody rows stay open.
2. `asbuilt_once` – nothing checks `proposal_id` nor empties the staging class:
   a batch repeated after a kill, or after an Append that failed, duplicates its
   elements in the network (ADR-008).
3. `adopted` – `publish_draft` validates again because a synchronisation may have
   removed a class (`model_profile/drafts.py:193`), with a check that reads no
   metadata: a profile that maps onto a removed class is adopted.

### What else the documents say and the code does not keep

Stated as definitions in the modules, under a heading of their own or beside the
property they would strengthen, and violated in instances no run lists:

* `WorkOrders.ReworkedBeforeApproval`: a returned response blocks no approval.
* `DeviceOutbox.RefusedForCause`: a requeued operation keeps its id and gets the
  recorded rejection.
* `IntegrationOutbox.Settled` with batches of one: events of a connector without
  a URL stay the oldest and fill every batch. `NewestDelivered`: a payload
  published while its event is being sent is marked as delivered.
* `DeltaPull.NextPullBrings`: declaring a phone for a crew writes no order.
* `ReviewDesk.BatchWasRated`: a batch approves a capture its report was not of.
  Two units that share a reference break `ApprovalTold`: `publish` looks an event
  up with no unit.
* `Captures.SubmittedIsImmutable`, `ConfirmedOnSubmission`,
  `ConfirmedThatProposal`: a confirmation writes its copy over a submitted
  response, and a later proposal takes over the confirmed row. `AnswersFromPeople`
  does not see the first: what is put back was said by somebody, only earlier.
* `Intake.ClaimsBecomeWork`, `FailureIsShown`, `OwnOrder`: one namespace of
  references for three systems; an import that failed raises after it recorded
  the failure, which is rolled back with it.
* `AuditTrail.LastRemovalShows`: the last event of a chain can be dropped unseen.
* `Proposals.DecidedOnce`, `MergedTravels`: two deciders read an open row; with
  two phones a finding that joined is lost (`FindingKept`).
* `CapturePolicies.DayHasAnEnd`: two requests, or a zone over its unit, leave a day
  that begins and ends at one hour, which is then no working time at all. Two
  screens that edit one policy, and two that edit one crew, mix their columns.
* `Packages.WithinBudget`: a file that comes back after being withdrawn is not
  counted, nor are two attached at once. The board takes a phone that pushed after
  a package was built for one that holds it, whether it fetched it or not.
* `Uploads.NotFromNothing`: an upload whose closing was not answered is no upload
  any more, and the phone opens another. The server closes an upload with the
  parts it is told, all of them or not: the phone asks, and the hash is what finds
  a short file (`FileIsWhole`). The metered budget is one per operation, not per day.
* `Dictation.WholeCodes`: seven digits are proposed as a code of six.
* `Matching.ReimportBuilds`, `GapsSayAll`: a draft made again of the mapping in force may be built
  otherwise, and problems are found that the gaps did not announce.
* `Crews.OneRule`: a zone in other capitals opens by its identifier and is on no
  list. A crew that is switched off keeps its orders and leaves the board.
* `Routes.FixedStartIsShortest`: with a fixed start the phantom node may stand between
  two stops, and the route may be longer than the order asked for.
* `Dispatch.NobodyWaits`, `SyncingClears`, `PullingCounts`: a delivery to a former
  phone counts for ever, and only a push says that a phone synchronised.
  `AcknowledgedWhenBlocked`, `WipedIsEmpty`: `acknowledge_wipe` is documented as
  accepted from a blocked phone and asks neither whether it is nor who calls, so a
  phone in use, with its orders, may be on record as wiped.
* `Zones.ZoneStands`: the zone of an order is written over by a second backfill that
  found it without one.
* `TimeLog.ServerAcceptsTheSame`, `LastMadeStands`, `TrailChains`,
  `EndsAfterItStarts`: the slack is counted from two clocks; the correction that
  arrives last wins; two at once start from one value; nothing compares the end of
  the work with its beginning.
* `Withdrawals.kt:44`: an order cancelled by the office can only have been decided
  from review, when its phone says "synced", which is not in `FIELD_PROGRESS`: the row
  of the table for work cancelled under a phone never applies. `resolveField` has
  no caller.
* `OutagePermits.OutageDecidedOnce`: two deciders read an open request and both
  leave a decision.
* Two sessions break `OneLevel`, `SettledLast` and `FrontsFrozen` (`Fronts`),
  `DeviceMirrors` and `VersionTells` (`Catalogs`) and `NoDotAfterNo`
  (`Positions`; also when consent is not required). One administrator is enough
  to break `PeriodsApart` and `VerifiedAsRead` (`Parameters`).
* `PublishedForms.AssignedStands`: an order assigned before anything was published
  pins a number whose file may still change. `Plans.NoOverlap`: writing a plan moves the
  anchor of its periods, so two periods of days can overlap.

## 5. What TLAPS proves

For every value of the constants, from the assumptions named in each module and
nothing else. Each safety theorem goes the same way: an inductive invariant, a
lemma per action that it is kept, and a temporal step.

* **WorkOrders.** `TypeCorrect`. `AlwaysHeld` (`HolderOnRecord`): a stored order
  off the desk having an open custody row is not inductive, because a session
  may write a state it derived from rows no longer stored. `HeldInv` adds
  `CarriesHeld`: if an open session is about to write such a state, the chain
  has an open row already or its own commit adds one. `AlwaysTimed`
  (`WorkIsTimed`) adds `CarriesTimed`, the same for the milestones a push carries
  in its `marks`. `ChainOnlyGrows` (`CustodyAppendOnly`) is an action property
  proved from `TypeOK` and lemmas on what `Closed`, `Flagged` and `Append` leave
  of a chain. `DebtAlwaysShown` (`DebtShown`) is inductive as it stands, because
  `HandedOver` asks `arrived` as it is at the commit; `CustodyAlwaysAccounts` joins
  the two in what the run checks; its weight is that the
  phone's latest row exists (`Greatest`, from the well-ordering of the naturals)
  and that only the holder's row is closed (`OnlyHolderCloses`).
  Under `OneAtATime` – no two sessions open at once – `SerialInv` adds `Stands`:
  what an open session carries still agrees with the rows it read. It gives
  `SerialHolder` (`OneHolder`), `SerialSettled` (`SettledTogether`), `SerialLock`
  (`OptimisticLock`) and `SerialAnswers` (`AnswersFrozen`) for every number of
  orders, phones and planners: what fails with two sessions fails of
  interleaving alone.
* **DeviceOutbox.** `OutboxInv` is `TypeOK`, `BudgetLeft` (who is not parked has
  attempts left), `WaitsForItsOwn` (what is in flight belongs to the call waited
  for, or to a dead worker), `CallsHonest` (an answer's outcomes are in the
  ledger or claimed by that session), `ClaimsDisjoint` (no two sessions claim one
  operation, the unique id), and the properties. It gives `OutboxTyped`,
  `NeverDropped`, `ExactlyOnce`, the two as `NothingLostNothingTwice`,
  `ParkedWithReason`, and with it every step maps
  to a step or a stutter of `Delivery` (`ImplementsDelivery`).
* **IntegrationOutbox.** `LedgerInv` adds `PassHonest`: what a pass is about to
  mark as delivered was taken. It gives `LedgerTyped`, `NoFalseDelivery`,
  `NeverUnscheduled`, and the action property `SettledStays`.
* **DeltaPull.** `PullInv` is `TypeOK`, `LedgerCoversPhone` and `CursorCovers`.
  The weight is in lemmas on pages: a non-empty page has a last position
  (`PageHasLast`, from the well-ordering of the naturals) and no holes
  (`PageHasNoHoles`: what changed and lies at or before a member of the page is
  in the page), so what the new cursor passes over, the page brought
  (`NothingSkipped`).
* **AsBuilt.** `AsBuiltInv` adds `AgentsHonest` and `ReportsHonest`: what an
  agent staged is in the staging class, what it or a report in flight calls
  applied is in the network, and each covers all its batch still carries. Two
  lemmas carry it: the geodatabase only gains rows (`AgentKeeps`), and nothing
  of the server's makes a batch that is out carry more (`ServerKeeps`). It gives
  `AsBuiltTyped`, `AppliedForReal`, `BatchesAnswer`, `ArcfmUntouched`.

* **AuditTrail.** `TrailInv` is the types, `Locked` (who appended and has not
  committed holds the unit's lock, so there is one such transaction) and that
  every chain is `Unbroken` as each transaction sees it. A commit turns what its
  writer sees into what all see. It gives `TrailTyped`, `AppendsAlwaysContinue`
  and, with what dropping or rewriting an event does to an unbroken chain,
  `TamperingAlwaysShows`; together `TrailAlwaysHolds`.
* **OutagePermits.** `PermitInv` is the types, `RowsInv` (what the stored rows say
  of themselves: `TrailAccounts`, and that a grant on the trail was by another
  than the one who asked) and `ReadsInv` (what open sessions read: the links
  they judged exist, a decision in flight was judged against a row that had a
  request, a permit about to be sent was under a grant). It gives `PermitTyped`,
  `PermitAlwaysUnderGrant`, `TrailAlwaysAccounts`.
* **Plans.** `RunsOK` says of each open run that its orders are the rows it wrote
  or were cancelled, and that what it has been through has a row; `Apart` that
  two runs' unstored rows have different keys, which is the unique index. The
  lock of the trail is not needed. It gives `PlansTyped`, `AlwaysIssuedOnce`,
  `EveryAssetAlwaysRecorded`, together `AlwaysOnceAPeriod`.

* **ReviewDesk.** `DeskTypes`. `LastDecisionAlwaysStands` needs no more than the
  types: a commit appends the decision and writes its outcome together, and no
  other step writes one; its weight is what each commit leaves of the rows it does
  not decide (`CommitAppends`, `DecisionsGrow`). `ApprovalsAlwaysTold` rests on
  `ToldInv`: what is signed is in the payload, what is owed is under its key, a key
  holds events of one order only, and what a session saw delivered stays so, which
  is why a commit that leaves a delivered row alone still owes nothing. It assumes
  `OneUnit`, orders with references of their own. `ReportsAlwaysWithheld` rests on
  `BlindInv`: what a pass has still to run has no run yet, which is what keeps a
  report that was already read from being put under a draw; it assumes `OneWorker`.
* **Proposals.** `ProposalInv` is the types, that sessions point at rows that are
  there, one open row per asset and defect (the partial unique index, kept by two
  phones that both read before the other's proposal) and `DecisionsOnRecord`: it
  is inductive once a merge is known to name an order that exists
  (`ProposalAlways`). `KeptInv` adds that who joins has read the findings as they
  stand: `FindingsAlwaysKept`, with `OnePhone`.
* **Intake.** `IntakeInv` speaks of the rows of open imports together with those
  committed: an import's unstored rows are explained by its own orders or by stored
  ones, no two imports make one order (`ImportsApart`, from the unique key an insert
  waits for), and each item of the page is either left to do or has its order. It
  gives `IntakeAlways` and, from it, `LedgerAlwaysExplains`, for any number of
  imports.
* **Packages.** `PackageInv`: only the last version is not superseded, a publication
  read a version there was, and a file somebody withdraws is a row. A publication
  whose number was taken meanwhile writes nothing, so `PackageAlwaysServes`
  needs no lock.
* **TimeLog.** `TimeLogInv` joins three things that arrive at different moments: the
  log of a phone, its outbox and the row of the server. `RowSaysTrail`: the correction
  on the row is what the last entry of the trail says. `OutboxFromLog`: what leaves a
  phone is of its log and not earlier than its first time, however far its clock is
  from the server's. `AloneOnRecord`, the heart of it: for a phone that worked alone
  with nothing refused, the first transition in the outbox that passes a milestone not
  on the row carries the time of the log (`PassesFirst`), and the last correction in
  it the correction of the log (`CorrectsLast`); what joins the outbox or leaves it
  keeps both (`OutboxAppended`, `OutboxTaken`). With an empty outbox they are the row:
  `TimesAlways`, `PhoneTimesAlwaysStand`, with no restriction on phones or desks.
* **Uploads.** `UploadsInv`: an upload holds parts of its own file, one that left an
  object was closed with every one of them, and what a phone believes was held by the
  store when it last asked (`UploadsAlways`). That the parts are the file
  (`PartsMakeTheFile`) is an induction over their number: `Assembled` is a recursive
  function, shown to exist by giving its values, and the induction is the lemma `UpTo`,
  the least number that is not in a set (`WFMin`, over the naturals), since the
  library's own principle takes an operator. `PartsCounted`: the server's quotient and
  remainder and the phone's rounding up are one number, for any size and part.
  Together, `FileAlwaysWhole`.
* **CapturePolicies.** Two facts meet. Whatever rows two editors save over each other,
  the hours in force are those of a day: `PolicyInv`, kept although a row may be refused
  after another took its place, says that no row and no screen starts a day at the
  midnight that ends it (`_is_clock`). And of such hours the scheduler of the phone is
  right: the moments `within_workday` allows are those of a shift, also across midnight
  (`HoursAreShifts`); within a week of any moment a shift starts (`ShiftWithinAWeek`), so
  the search for the next minute ends before its limit, and it passes over nothing
  (`WakesOnShift`). The modular arithmetic is done by naming quotients and remainders
  first. Hence `AlwaysAwakeForAShift`, for any length of day and week and any working
  days.
* **Periods.** `CalendarAlwaysFires` is about dates, not steps: the days of a later year
  come later (`LaterYear`, with the leap years of `YearByYear`), and a cadence of 1, 3, 6
  or 12 months has one month per period congruent with the one it started in
  (`OneMonth`), so each period of the second year is fired in once, under its own label
  (`FiresOnce`, for every plan and anchor; the property takes those of `CalendarPlans`).
* **Routes.** `SumOf` is a recursive function over the legs; it exists and runs leg by
  leg (`SumRuns`), so a first or a last leg of nothing adds nothing (`FirstIsFree`,
  `LastIsFree`). With both ends free these are the two legs of the ghost: the cost of a
  cycle is the length of its path (`GhostIsFree`), and a cycle of least cost is a
  shortest path (`AttemptShortest`; the least exists because lengths are naturals). A
  permutation of finitely many stops reaches them all (`Permutes`, from `FS_Injection`),
  so each order is visited as often as it was asked for (`OnceEach`).
  `RouteAlwaysShortest`, for any number of stops; that the solver is at its best is in
  the model, and nothing is claimed of a fixed start, where the ghost misleads it.
* **Crews.** `CrewsInv` is the types of work and positions, which is what scores are
  computed from; the weight is in what `suggest` answers. The rank of a crew is how many
  outrank it: it grows strictly along the order, so it is an injection into `0 .. n - 1`,
  and one of a finite set into a set of its size leaves no place empty (`EachPlaceTaken`,
  from `FS_Injection`): nobody is forgotten and nobody shown twice (`SuggestionFair`).
  That who is nearer never scores less goes through two divisions and a rounding to the
  even neighbour; `RoundedOnward` compares fractions of different denominators by
  cross-multiplication. `InOtherHands` and `BoardCounts`: whom the order is with makes no
  difference to who is suggested, and the load that was scored is the one the board
  shows, `SumRuns` reused. Hence `AlwaysSuggestsTheFit`, for any roster, work and edits.
* **Matching.** The greedy assignment is a course of rounds (`Goes`, `GoesWithin`): the
  pairs left shrink at each, so it ends within their number, and what one round decided no
  later one changes: each value has at most one code, each code one value, and a pair
  that was passed over lost a side to one that agrees no less (`AllAssigned`). A table shared by two attributes is written by one of them
  (`TableOfItsOwn`). `MatchingInv` carries it through snapshots, drafts and choices by
  hand: the document of a draft is the one its decisions make of the metadata it was
  opened over. `CodesAlwaysItsOwn`, for any model, vocabulary and metadata.
* **Numbers in words** (`Dictation`). `NumbersReadBack` is about words, not steps: each
  number below a thousand million is read as it was said. A scale splits a sentence at
  the first place it stands (`ScaleSplits`), none stands in the words of a lesser number
  (`ThousandsReadBack`), and below a thousand at most one word has each rank, so the sum
  of the words is the sum of the ranks (`SmallReadBack`, by the nine forms such a number
  is said in).
* **Zones.** `Import` goes through a file with a recursive function over its places,
  shown to exist as in `Uploads`; `WholeFile`, by `UpTo`, is what it leaves: the features
  taken and refused make up the file, one is taken per code, each refusal has its cause
  (`OneMore` is the step of the induction). `ZonesInv` then carries the report through
  drawings, backfills and other imports, since no zone goes and only a drawing or the
  next import changes a polygon: `ImportsAlwaysAccount`.
* **Fronts** (`OnePlanner`). `FrontInv` adds to `OneLevel` and `SettledLast` that what
  the open request judged is so still: `WorksAlwaysSettleLast`.
* **Profiles** (`OneMapper`). `ProfileInv`: a session that saves or publishes works on
  a row that is a draft still, and what is no draft validates. From it the action
  property `PublishedAlwaysStands`.
* **PublishedForms.** `FormInv`: a session that publishes ends only versions that were
  published. With lemmas that rows keep their shape and pins stay, the action property
  `ShapeAlwaysStands`, for any number of publishers.
* **Positions** (`OneReporter`, `ConsentAsked`). `PositionInv`: who consented has not
  said no since, a dot stays only under a consent, and the open session read what is
  so still. `PositionAlways`, `NeverADotAfterNo`.
* **Captures.** `CaptureInv` says of the copies that confirmations will write back
  what `AnswersFromPeople` says of the row, field by field: `CaptureAlways`,
  `AnswersAlwaysFromPeople`, for any number of fields, values and screens.
* **Catalogs.** `CatalogInv` (no revision beyond the last drawn) holds of any number
  of editors; `MirrorInv` adds that whatever is uncommitted comes after what
  is committed and after what the device asked from, which takes `OneEditor`:
  `DeviceAlwaysMirrors`. Its lemma on pages is that of `DeltaPull`: a page leaves
  nothing behind its last revision.
* **Parameters.** `ParameterInv`: an open call ends only periods that exist and start
  before its own; `ClosesOpen`, with `OneAdmin`: those it ends are open still. A period
  cut short at the day before the call's says the same of every earlier day,
  hence the action property `PastAlwaysStands`.
* **Dispatch.** `DispatchInv` says of each phone: copies follow what was handed, that
  follows the order; what was handed as it is now is there unless lost; what it has
  news of changed or was lost. `DispatchAlways`,
  `BoardIsAlwaysTrue`, with no restriction.

Assumptions: phones answer for assignees, `None` is none of the things it stands
beside (nor are `NoAnswer`, `Nothing`, `NoPeriod`, `Undecided` and their like),
operations and order ids are naturals, ranks and sizes are given, limits and budgets
are positive, the bounds of the models are naturals, what needs ArcFM are proposals,
nobody is no writer, codes of crews are a list and tasks finite, each asset type and
each attribute has a key of its own and asks an enumeration once
(`src/profiles/amd/core.yaml`), what is ranked by name has a place in the alphabet, a
calendar is ordered and not empty, a plan visits each asset
once, every front has a work, the catalogue of codes and that of assets and defects
are finite, there is a tablet, clocks are whole hours apart from the server's, a day
has hours and a week days of which some are worked, a phone reports at least once a
day, calendar plans are plans by the month, stops lie on a line and a request has at
least one, files of zones have features, files have sizes, and no supervisor has the
name of a phone. TLC evaluates each of them in the runs.

Some theorems assume in their statement that one session writes at a time:
`OneAtATime` (`WorkOrders`), `OnePhone`, `OnePlanner`, `OneMapper`, `OneReporter`,
`OneEditor`, `OneAdmin`; the code does not promise it, since these handlers read and
write without a lock. Each is needed: with two sessions TLC finds the property
violated, `PublishedStands` by a save that writes over the draft another session
published meanwhile, `PastStands` by a period extended back by who had read it open.
What the theorems say is that overlap is all that can break them, whatever the number
of orders, codes, days or people. `OneWorker` is what beat and the time limit give;
`OneUnit` and `ConsentAsked` are configurations (a unit that shares references, or that
asks no consent, does break them). The runs have instances of each hypothesis.

Only model-checked:

* `Settled`, `NothingStuck`, `CatchesUp`, `EveryOrderRated`: liveness under fairness
  is beyond the prover.
* `SpokenAsMeant`: it holds of the vocabulary of the instance, in sentences of two parts,
  and is not claimed of every lexicon; a window of six words may reach past a phrase into
  the next. Its numbers are proved (`NumbersReadBack`); that the passes leave the words
  around them alone is checked for every sentence of the instance.


## 6. Plan

1. `WorkOrders`, `DeviceOutbox` over `Delivery`, `IntegrationOutbox`, `DeltaPull`,
   `AsBuilt`, `ReviewDesk` – modelled and proved.
2. `AuditTrail`, `OutagePermits`, `Proposals`, `Intake`, `Packages`, `Plans`, `Fronts`,
   `Profiles`, `PublishedForms`, `Positions`, `Captures`, `Catalogs`, `Parameters`,
   `Dispatch`, `TimeLog`, `Uploads`, `CapturePolicies`, `Periods`, `Zones`,
   `Routes`, `Crews`, `Matching` – modelled and proved.
3. `Dictation` – modelled and checked; its numbers proved.
4. Next proofs: that each pass of `normalize` leaves alone what it is not about.
5. Next models: the admission queue of the inference gateway; plans over a feeder
   or a zone; the import of metadata.


## 7. Not modelled

The phone's conflict tables (no caller joins them to the outbox), its offline lock
and form rules, the inference gateway (planned above); pure rules with tables of
tests (check digits, the other regulatory limits, criticality, validation of
answers), formatting and transport of each partner's payload, signed URLs, reports,
calls to AI models and statistics over them, token checks and the filter by
business unit (a session belongs to one unit), the web console, simulators and the
training of models, which are not the running program. `PROJECT.json` gives the
reason for each. The mapped lines are some three tenths of the repository: the
rest is queries, schemas, rendering and typed plumbing that keep no state across
steps. Inside the modelled components: observations by field, overlaps and
coverage of zones, the end date of a plan, the board's word on packages.
