# A verification project for the SOC platform

The repository is a multi-tenant security operations platform: endpoint agents
and log sources send events, a pipeline of workers over Redis Streams stores
them, runs detection rules, raises alerts, triages them with a language model
and shows them in a console.  The modules here model the path of an event from the
agent's disk to a triaged alert, the rules and the asset inventory it meets on the
way, and the control plane around it: credentials and their cached status, tenants
and their provisioning, users and their sessions, and the jobs that end a tenant's
data.  These are the places where
at-least-once delivery, concurrent processes and crashes meet rows and copies of
rows that must stay right.

Contents: [inventory](#inventory), [modules](#modules), [runs](#runs), [findings](#findings),
[observations](#observations), [proofs](#proofs), [limits](#limits), [plan](#plan).

## Inventory

Paths are below `services/dataplane/src/dataplane` unless they say otherwise.

| Component | State | Operations | What is hard | What makes it correct | Modelled in |
|---|---|---|---|---|---|
| transport, `packages/pipeline` | stream, group cursor, pending-entries list | XADD with MAXLEN, read, claim, handler, dead letter, XACK | workers race for a claimed entry, a worker dies between effect and XACK, the cap drops entries | nothing is lost silently, retries are bounded, every entry is settled | `StreamConsumer` |
| priority score, `scoring.py` | none | pure function | rounding, clamp, tiers | the contract `docs/contracts/priority-score.md` | `PriorityScore`, in `Triage` |
| normalizer, `workers/normalizer.py` | event store, dead-letter rows, usage counters, onboarding flag | validate, dead-letter, bulk create, fan out, count | crash between store and fan-out, partial bulk failure, duplicates in a batch, across batches and across months | every event stored or dead-lettered, once | `Normalizer` |
| rule publication, `rulepub/` | pack and rule rows | compile, validate, publish | two publications overlap, one fails half way | a reader sees a whole pack | `RuleCompiler`, `Detector` |
| detector, `workers/detector*.py` | rule pack, overlays, failure windows | reload, evaluate, disable at run time | reload against evaluation, stale overlays, a decision that is lost | a switched-off rule stops firing within the TTL, the newest pack is loaded | `Detector` |
| alerter, `workers/alerter.py` | alerts, links, groups | guard, upsert with dedup window, correlate, recompute, publish | two transactions on one key, redelivery, late events, analysts | one open alert of a key, counts tied to links, a priority that lags the count only by a model call | `Alerter` |
| alerts API, `api/alerts.py` | alert state | acknowledge, close, reopen, bulk | compare-and-set against the alerter | closed alerts take no hits | `Alerter`, `Triage` |
| triager, `triage/`, `workers/triager.py` | triage status, AI severity, priority, token budget | assemble, call, validate, persist | a call of seconds between read and write, two runs of one alert, the budget read once | bounded spend, every alert ends triaged, the score uses the severity shown and no answer buries an alert | `Triage` |
| asset inventory, `workers/asset_dedup.py`, `api/assets.py`, part of `api/enrollment.py` | assets, identities, pins, devices | match, merge, split, enroll, heartbeat | the asset is resolved before it is locked, a correction against the matcher | corrections stick, rows about a device agree, the cap holds | `Inventory` |
| agent, `agent/` (Rust) | disk buffer, drop counters, identity files | spool, shed, deliver, report, renew, stop | restart, full disk, lost answers, revocation | at-least-once delivery, bounded buffer, drops reported | `Delivery`, `Access` |
| ingest API, `api/ingest.py`, `core/quotas.py` | quota windows, usage | accept a batch | lost answers, concurrent requests at the limit | an accepted batch is in the stream | `Delivery`, `Access` |
| status stores, `core/status_stores.py`, `api/enrollment.py`, `tenantstatus.py` | rows of devices, ingest keys and tenants, copies in Redis | check, fill, revoke, freeze, renew | a copy written after the change, a copy without expiry, a renewal whose answer is lost | a late request is refused, a device that renews is served | `Access` |
| provisioning, `controlplane/saga.py`, `routes/signup.py` | account, links, saga, steps, tenant | signup, verify, run, fail, resume | crash between statements, two tasks on one saga | a tenant that is active is complete, a verified account settles | `Provisioning` |
| sessions and users, `controlplane/sessions.py`, `routes/auth.py`, `routes/users.py` | users, invites, sessions and their sets | login, logout, invite, change, revoke | a login overlaps a revocation, rights read at the start of a request | a session does not outlive the rights it stands for, an admin remains | `Sessions` |
| jobs, `jobs/`, `routes/internal.py` | job locks, trial and billing state, the data of a tenant in three stores | freeze, purge, expire, mark offline, lapse; change of plan | a lock that expires under its job, a sweep that fails half way, a conversion under the sweep, the calendar | a purged tenant keeps what is retained and what came late, no tenant in use loses data, no event goes early, every trial ends | `Lifecycle`; also `Access`, `Inventory` |
| investigation quota, entitlements client, tenancy resolvers | daily counter; cache | take; fetch | | | not modelled, see [limits](#limits) |
| web console, schemas, audit, telemetry, gateway, agent providers | | | | user interface, field validation, append-only logs, configuration, event sources of the operating system | not modelled |

Components interact through five streams (`pipe:raw`, `pipe:normalized`,
`pipe:detections`, `pipe:alerts.triage`, `pipe:asset.observations`), each read by
one consumer group with the same transport code, and through shared rows: the
alerts table is written by the alerter, the triager and the API; the pack tables by
the publication, the API and the detectors; assets and devices by the dedup
workers, the API and the jobs; the tenant row and its copy by both planes.

## Modules

`StreamConsumer` is the transport: one stream, its group, the producer and the workers of
`consumer.py`.  Every await at which another worker can run is a step (`poll_once`,
`claim_stuck_once`, `process`, `give_up`, `handler_returns`, `handler_raises`, `to_dead_letter`,
`ack`); `crash` ends a worker anywhere, and `IdleElapses` is the minimum idle time of the claim.
The handler is abstract: it returns or raises.  `AtLeastOnce` is the queue its users rely on: a
message is settled only after its effect or when it expired.  `StreamConsumer` is shown to
implement it, and the workers below are modelled over it: a message that is being handled or was
handled may be delivered again (bounded by `MaxDuplicates`, in `Alerter` together with the
failures by `MaxFaults`), and a message whose handler died is delivered again.

`PriorityScore` is `scoring.py`, function by function.  `Triage` and `Alerter` extend it.

`Normalizer` is the handler of `pipe:raw`, one step for each call to PostgreSQL,
Elasticsearch or Redis.  A run of the handler has a number, which stands for
the `event_id` drawn anew in each run; a document is its place (month and `_id`)
and its run.  The bulk request stores at most one of the events with one `_id`
and may refuse any of them.

`Alerter` is the handler of `pipe:detections`, the transitions of the API and, of a triage
run, its read and its write of the alert's row, whatever the state of the alert then is.  Its
variables are the committed rows.  A transaction is three steps: the guard; the
upsert with the query of candidates, which takes the lock of the key or of the
row; and the other writes with the commit.  A statement that meets a lock waits.
That the second attempt of the upsert always inserts follows from the lock the
first one keeps.  Of the priority it keeps the
count it was computed from (`scored_count`) and, for one that a triage run wrote, the hits
counted while the run waited for the model (`arrived`).

`Triage` is the graph of `graph.py` over the rows it shares with the alerter and
the API.  It keeps the severity of the rule, the inputs of the last computation of the
priority, the Redis counter of the budget and what the model really used.  One answer costs
one unit.  The answer is any severity or an invalid text.

`RuleCompiler` is the rule language: which documents compile, which events they match,
and which packs validate.  Conditions are trees over a set of nodes, strings are
model values with folding and tests as relations.  Recursion is by recursive functions.
`RuleTables` has the tables of the packs, what each worker holds of them, and their
correctness.  `Detector` extends both with the publication as a
transaction of three steps, the toggles, and the worker: its poll task and its
handler share the pack, its overlays expire, its tracker counts failures in buckets
of time and disables a rule for all.

`AssetTables` has the rows of assets, identities, pins and devices and what must be true of them,
`Inventory` the transactions on them.  The dedup handler is two steps, the plain reads of
`_resolve` and the writes, with anything in between; `strays` are the assets that a write half on
outdated reads created, or wrote to after a merge.  Enrollment counts and inserts under its
advisory lock; merge and split are atomic under their row locks.

`Delivery` is the agent: channel, drain task, segment files, delivery task, heartbeat and main
task, with the mutex of the buffer free while a request is on the wire. The server accepts,
refuses, answers 413 or DEVICE_REVOKED, and its answers may be lost.  An append that fails has
shed segments before it and leaves nothing of its own line.  A crash keeps the files and nothing
else.

`Access` is one row, device, ingest key or tenant, and its copy in Redis.  A request reads
the copy or the row, writes the copy with HSET and EXPIRE and decides; a change
commits the row and then deletes the copy.  The renewal of the certificate is a
request whose row honours two serials, and the agent's files are written one by one.
Time is ticks: of the copy, of the overlap of serials, and of the requests.

`Provisioning` is one account on several processes of the control plane: every statement of
`verify` and `ensure_started` is a step, and so is every step of the saga with its row.  What a
task has still to do is the set of the steps that its query found not done; the least of them is
next.  `raced` and `halfway` record the two cases in which the code promises nothing.

`SessionTables` is one tenant: users, sessions in Redis with the role they were given,
changes of users in flight, and what must be true of them.  `Sessions` adds the
set of a user's sessions, logins and changes of users as several steps each.

`Lifecycle` is the scheduler of `jobs/`: replicas that run the same jobs one after another, each
under a lock in Redis with a lifetime and a token.  The purge of a tenant is four steps (one
transaction in PostgreSQL, whose order of tables must respect the foreign keys, the indices, the
keys, the status), each of which may fail; the retention sweep reads clock, tenants and plans once
and deletes monthly indices one by one.  Beside it operators change plans and the pipeline stores
events of any past day, also for a tenant that is frozen or purged: only the API looks at the
status.  `requires_name` is the setting of the cluster that refuses the wildcard of the purge.
`outlived` records that a lock expired under its job, `late` the events stored while the tenant
was frozen under a sweep, or purged, `lost` that a purge deleted data, `overlap` that a tenant was
converted while a sweep had it listed or after data was lost.  Time is days; every interval is
shorter, so every job is due on every pass.

The `MC` modules give the constants of the runs.  Definitions named `..._mutant` are
changed forms of an action, each with a mistake the code could contain: replaced
for the original, the run finds the property it is listed for violated.

## Runs

Bounds are constants named `Max...`.  Deadlock is not checked because a behaviour ends when its
bounds are used up.  Each passing run checks the safety and the liveness of its module on one
instance; what is proved, the proofs extend to all.  Symmetry is used where only invariants are
checked (`inventory`, `sessions`).

| Run | Instance | Shows |
|---|---|---|
| `stream` | two workers, two entries, one of them malformed, cap of one, limit of three deliveries, one crash. Two workers are enough for every race of the code, which involves a claimer and a previous owner; the cap makes the second XADD trim an entry that may be unread, pending or in a handler | `HandlerRunsBounded`, the refinement of `AtLeastOnce` (no entry leaves the queue without effect, dead letter or trim), `EventuallySettled` |
| `normalizer` | two workers; a batch with a malformed event and one repeated in the batch, a batch with a resent copy and an event without source id; one redelivery; one death or refusal. The bound of runs is batches + redeliveries + failures, so it never stops a retry | `StoredOrDeadLettered`, `StoredOnce`, `UnpublishedOnlyByFailure` |
| `alerter` | two workers, four hits: the second finds the window of the first expired or, taken first, makes it a late event; a second rule on the same host; a malformed one; one redelivery or failure, two transitions, one triager; four rows. The hits of a key cross the first tier, at 2; the proof covers the others | `OneOpenPerKey`, `CountTracksLinks`, `PriorityTracksCount`, `TriageMissedOnlyByFailure`, `ClosedTakesNoHits`, `EveryHitEnds` |
| `triage` | two workers on one alert of a low or critical rule, two attempts, cap of two, two redeliveries, one failure, one more occurrence, two changes by an analyst. The bound of `BudgetBounded` is reached | `BudgetBounded`, `ScoreUsesDisplayedSeverity`, `NotBuried`, `EventuallyTriaged` |
| `detection` | one detector, two packs published by overlapping publications, four rules of which one does not compile at load and one may fail on a regular expression, two tenants, one toggle, two events, one failing run. Time has two buckets, the length of the window and of the TTL. That a rule disabled by one worker stops at the others rests on the proof | `ReaderFindsWholePack`, `SwitchedOffWithinTTL`, `PackEventuallyLoaded` |
| `inventory` | two workers, two concurrent enrollments of one machine with a host name and a MAC address, log lines that carry either, three assets, two of merges, splits, revocations, silences. Two workers make every overlap of reads and writes; the third asset is what a split or a duplicate needs | `PinsWin`, `DeviceRowAgrees`, `OverlapConfined`, `EnrollmentsWithinCap` |
| `delivery` | three events of two classes, one of which may exceed the buffer, a buffer of two lines, segments of two, batches of two against a server limit of one, one crash, shutdown or write error. The third event is the one that is shed or overtaken | `AccountedUnlessOvertaken`, `DiskBounded`, `DropsHeardOnce`, `EventuallyDelivered`, `RevokedAgentStops` |
| `access` | two requests, a TTL of two ticks, length of a request and overlap of one tick each, three certificates, two changes, one fault. A request may begin before a change and write the copy after its delete, a second one may renew its expiry, and a third reads it TTL + 2 Span after the change | `LateRequestRefused`, `RenewalKeepsAccess` |
| `provisioning` | two processes, two tasks, two links, two attempts of a step, two crashes or errors: one to fail a step and one to cut a task off, or both to fail a step for good | `ActiveIsProvisioned`, `OutcomeAgrees`, `VerifiedSettles` |
| `sessions` | two users, three sessions, one login and two changes in flight, three changes, one fault. Two admins and a change of each are the least at which the last admin can go | `StaleOnlyByOverlap`, `AdminRemains` |
| `lifecycle` | two replicas, one trial that ends on day 0, in December; months and the longer retention of one day, a purge on the day after the freeze; three days, two event days, one change of plan, one failure, crash or outlived lock; a cluster that accepts the wildcard or not. Two replicas make every conflict of the lock; three days take a trial from freeze to purge and an event past its retention over the turn of the year | `AloneUnlessOutlived`, `PurgedKeepsRetained`, `DataLostOnlyByOverlap`, `RetentionKeeps`, `TrialEnds` |
| `delivery_overtaken` | the instance of `delivery` | violates `AccountedFor`, see [findings](#findings) |

Fairness.  `StreamConsumer` assumes weak fairness of each worker's own steps and of
`IdleElapses`, the passage of time.  `Alerter` and `Triage` assume only
that some worker steps while one can, which fairness of every worker implies.  The
services run with `restart: unless-stopped` (`compose.yaml`), a handler call ends (the
model call has a timeout), and the loop of `run()` alternates reading and claiming.
Deaths are never fair, and bounded by a constant: for ever repeated deaths end in
the dead-letter table, which is `StreamConsumer`'s subject.  In the other modules
redelivery until the handler returns is the assumption that `EventuallySettled`
discharges, as long as there are fewer failures than `max_delivery_attempts`.
`Detector` assumes that the poll task of a worker runs and its queries end; nothing of
the publications or the handler is fair.  `Delivery` assumes weak fairness of the agent's
tasks, a restart by the service manager, and strong fairness of the server's
definite answers: a server that is asked again and again at last answers; errors and
lost answers may come any number of times before.  `Lifecycle` assumes that each replica
goes on, that a lock whose owner is gone expires and that time passes; faults are never
fair.  `Provisioning` assumes that the event loop runs its
requests and tasks and that a process that ended is started again
(`restart: unless-stopped`).  `Normalizer`, `Inventory`, `Access` and `Sessions`
have no liveness property.

## Findings

| Run | Property | The code |
|---|---|---|
| `delivery_overtaken` | `AccountedFor` | `commit` advances each queue by a number of lines. When the segment of the batch on the wire is shed in the meantime, the number falls on newer lines: they are deleted unsent and are in no drop count, which `buffer.rs:12` promises |

What holds around it is `AccountedUnlessOvertaken`: without a segment shed on the wire, crashes,
lost answers, 413 and shedding lose nothing silently.

## Observations

Behaviours of the code that the models contain and no run states.

- A worker that claimed an entry before another worker's XACK finds it no longer
  pending; `_delivery_count` then answers 1, and the handler runs for an entry that
  may already be dead-lettered.  `HandlerRunsBounded` bounds how often.
- A limit of N deliveries, N > 1, gives an entry N - 1 handler runs: the claim that
  counts to N dead-letters it unprocessed.  The code `HANDLER_FAILED` is reached only
  with a limit of one.
- Two alerts created at once on one host do not see each other's uncommitted rows,
  so neither puts them in a correlation group, and two creators that each see an
  older alert can make two groups.
- Reopening an alert changes its state only.  `docs/contracts/priority-score.md:54`
  lists reopen among the recomputations of the priority.
- A redelivered batch writes its dead-letter rows again: the table has no key that
  the second insert would meet.
- The index of an event follows the month of its ingest time when it has no usable
  event time.  A copy resent in another month has the same `_id` in another index and
  is stored again; `StoredOnce` is about one index.
- Two deliveries of one hit may pass the guard before either commits, and the event is
  then counted twice.  `CountTracksLinks` ties the count to the deliveries committed.
- `persist` writes the priority from the count it read before the model call, and to a closed
  alert too; the tier can be behind until the next crossing, by the hits of that call
  (`PriorityTracksCount`).  A later run of the same alert that ends unavailable keeps the
  priority an earlier run derived from the model.
- A crash between store and fan-out hides an event from the detector for ever: the
  redelivered batch takes it for a duplicate (`UnpublishedOnlyByFailure`); compare
  ADR-0004.
- Two publications that overlap may leave both packs active; the reader takes the newer one.  A
  runtime-disable decision is lost when a hit before it or its row cannot be written, and the
  rule is not flagged again by that worker.  Searches that time out keep a thread each of the
  pool of four.
- A machine seen in logs before its agent enrolls keeps its name on the first asset
  and has two billable assets, without any overlap of transactions;
  `docs/prd/platform-foundation-mvp.md:231-235` (AC-22) wants one, and no property here claims it.
  After an overlap an identifier may be bound to a merged asset, or an asset to none
  (`OverlapConfined` says that no other asset suffers).
  A split copies the agent status; a merge can make an asset of a revoked device
  billable.  Returning machines and log assets may exceed the cap, which only
  enrollment checks.
- An event larger than the server's limit stays at the head of its queue for ever.  A
  failed heartbeat loses the drop counts it took (`DropsHeardOnce` bounds this).  An event of
  a low class may shed segments of a higher one when nothing else is left.
- HSET and EXPIRE are two calls.  When the second is lost the copy never expires, and
  a revoked credential can be accepted until some change deletes the copy, whereas
  `docs/contracts/api-contracts.md:113` promises 60 seconds.  `LateRequestRefused` holds without
  that loss, with the bound TTL + 2 Span: a request writes the old copy back after the
  delete, at its own end, and a second one that began before may set the expiry of that copy
  again at its end.  A bound of TTL + Span holds only for a TTL of one tick; the attempt to prove
  it showed the second renewal.
- A request that read the row before a renewal writes the old copy back after
  `invalidate_device`.  The server then refuses the new serial of an active device until the
  copy ends, up to the TTL and two requests later (`RenewalKeepsAccess`).
- Two renewals of which the first answer is lost replace the serial the agent still
  uses.  A failed save leaves the new dates in memory, so the agent does not try
  again before a restart, and files of two certificates on disk.
- A process that dies inside `verify` after the link was used, or starts while another
  is inside it, leaves an account in `provisioning` for ever or a failed saga without a
  tenant; `ensure_started` calls itself safe under retries, but the link cannot be used
  again.  Two tasks on one saga can end with the saga succeeded and the tenant failed.
- A login that overlaps a role change keeps a session with the old role until it
  expires.  Two admins can remove each other (`AdminRemains` says that nothing else does).
- A purge lists the tenants that are due and then deletes without looking at them again
  until the last statement.  A tenant converted in between, or after a sweep that failed half way, is
  active with its data gone, whereas AC-11 (`docs/prd/platform-foundation-mvp.md:168-171`) says
  that "previously collected data is intact".  `DataLostOnlyByOverlap` says that nothing else
  loses data of a tenant in use.
- The purge deletes a tenant's indices with a wildcard (`jobs/tasks.py:327`).  Elasticsearch 8,
  which `compose.yaml:137` pins at 8.17.4, refuses that unless `action.destructive_requires_name` is
  false, which no file of the repository sets.  As configured, every purge therefore ends after
  its rows in PostgreSQL are gone, and no tenant is ever marked purged.  `Lifecycle` has both settings:
  `PurgedKeepsRetained` shows that no tenant is purged where names are required, and `TrialEnds` is
  about the other clusters.
- The pipeline checks no status: a batch accepted before the freeze and handled during or after
  the purge is stored, and an alert may be raised for it.
  `docs/compliance/mvp-design-requirements.md:27` (CR-11) wants what is still in the streams
  deleted; the code leaves it there.  The rows of `llm_metering` and `audit_log` stay by design
  (`0008_grants_and_registry.sql:94`).
- A sweep stops at the first error, so a tenant whose purge fails every time keeps the
  tenants listed after it from being purged.
- The ingest quota reads its window and adds to it in two calls, so that concurrent
  batches can exceed it; a rate-limit counter whose EXPIRE is lost is never reset.

## Proofs

Every theorem holds for all values of the constants that satisfy the named assumption of its module,
which says that bounds are numbers, that sets that are counted are finite and that the values
standing for "nothing" are outside their sets.  The bounds of the runs (`Max...`) are arbitrary in
the proofs: a theorem with any bound of failures is one about any number of failures.  A property is
seldom inductive as it stands; each module below proves an inductive invariant `IInv` first and
reads the properties off it.  Every safety property of a passing run, invariant or action property,
is stated by a theorem.

`AccessProofs`, `AlerterProofs` and `NormalizerProofs` have a second part, about `Sessions`,
`Detector` and `Inventory`.  They extend the module of its tables (`SessionTables`, `RuleTables`,
`AssetTables`), where the properties are, and have its processes as an instance (`Ses`, `Det`,
`Inv`): two components cannot both be extended, since each has its own `Init` and `Next`.  The
component's assumption is therefore a hypothesis of each theorem and not an assumption of the
module; the run of the component evaluates it.  A name that both components use, such as `Workers`
of `Normalizer` and `Inventory`, is declared once and says nothing in one part about the other, as
no fact of one part is cited in the other.  An instance has its own copy of every definition: the
last step of a theorem, and for `Cardinality` the lemma `SameCardinality`, identifies the two.

`StreamConsumerProofs`.  `NoSilentLoss` is not inductive: an XACK removes an entry from the pending
list, so the worker that is about to send it must have completed the effect (`AckHasEffect`), and a
read moves the cursor, so cursor, trim and batches must lie within the stream (`CursorsInStream`).
`NoLoss` follows, and `Implementation`, the refinement of `AtLeastOnce`: sent are the published
entries, effected the handled and dead-lettered, expired the trimmed, settled those read and no
longer pending; each action is matched with one of the queue or a stutter.
`HandlerRunsBoundedHolds` needs a second invariant (`RunsInv`): each delivery is a chance to run the
handler, held by one worker until it looks at the entry.  While the entry is pending, runs and open
chances are no more than its deliveries; once it is not, no chance is added, and the worker that
settled it has none.

`NormalizerProofs`: `StoredOrDeadLettered`, `StoredOnce`, `UnpublishedOnlyByFailure`.  The invariant
says what a run knows at each of its steps: past the dead-letter transaction the malformed events
have rows (`RowInv`), past a bulk request without refusals the valid ones exist (`BulkInv`), and a
document that is not published is in the hands of its run, unless that died (`HeldInv`).

`NormalizerProofs`, on `Inventory`: `PinsWin`, `DeviceRowAgrees`, `OverlapConfined`,
`EnrollmentsWithinCap` (invariant `InventoryInv`).  A dedup worker reads in one transaction and
writes in another.  What it holds in between is true however old it is (`WorkersHold`): the asset
it found exists, if only as a merged one, and an observation of a device names an enrolled one,
whose identity is bound, so that the matcher never makes an asset for a device.  This keeps rows
and identities of devices together and pins in place.  While nothing was committed in between,
what it holds is also current, that is active or a stray already (`FreshInv`), so a write that
leaves a new stray behind is one on outdated reads, which `OverlapConfined` needs.  For the cap,
an enrollment between count and insert holds the lock and counts as one asset already (`CapInv`).
`_resolve` takes the identifiers in the order of a sequence; the lemma `IdsOfSequence` gives their
set.

`AlerterProofs`: `OneOpenPerKey`, `CountTracksLinks`, `PriorityTracksCount`,
`TriageMissedOnlyByFailure` and the action property `ClosedTakesNoHits`.  `LockInv` says what the locks
of the transactions in flight protect: an inserter owns its key and has closed what was open under
it, an updater owns an open row, no two own the same.  The count is the harder part: two deliveries
of a hit may both have passed the guard.  `EveryCountPaid` therefore counts the handlers past the
guard together with the occurrences, against links, duplicates and hits not linked yet.  For the
priority, a triager holds a count between one and the current one, and adding `arrived` to the count
scored gives one of the tier of the current count: a triager's write makes the sum the count itself.

`AlerterProofs`, on `Detector`: `ReaderFindsWholePack` and the action property
`SwitchedOffWithinTTL` (invariant `DetectorInv`), for any number of overlapping publications.  A
publication supersedes only packs that were committed before it (`TxInv`), so the one that commits
last leaves its own pack active, and a version that a refresh has in its hands was committed whole
(`FetchInv`).  An overlay that differs from its row was read before the row changed, and expires one
TTL after it was read (`CacheInv`); a hit is looked up in an overlay that has not expired.

`DeliveryProofs`: `DiskBounded`, `DropsHeardOnce`, `AccountedUnlessOvertaken`.  All three rest on
one order: events are numbered as they are emitted and go through the channel into the queue of
their class, so the lines of a queue have increasing numbers (`FilesInv`) and an event is in one
place (`PlaceInv`).  Therefore a shed segment takes as many lines off the disk as it counts events,
and no event is counted twice (`DiskInv`, `DropsInv`).  `AccountedUnlessOvertaken` is about
`commit`, which moves a queue forward by a number of lines: that number covers a prefix whose events
are on the wire, or received once the answer is 202 (`PrefixInv`).  A segment shed while the batch
is on the wire shortens the queue under that number; this is the one step at which the prefix is
lost, and it sets `overtaken`.  The finding is the same step seen from the other side.

`TriageProofs`: `BudgetBounded`, `ScoreUsesDisplayedSeverity`, `NotBuried`.  The bound of the budget
sums over workers what each may still charge; the invariant counts instead the pairs of a worker and
a number up to that amount (`Chances`), a set that a charge makes smaller by one and the check of
the budget, passed only below the cap, keeps within the product of workers and answers of a run.
The module also proves the contract of the score for every occurrence count: `ScoreBounded`,
`ScoreRoundsHalfUp`, `ScoreMonotonic`, and as a lemma that 2, 5 and 20 are exactly the counts at
which the occurrence part changes.

`AccessProofs`: `LateRequestRefused`, `RenewalKeepsAccess`.  Both follow a copy that differs from
the row, in status or serial: it is written by a request that read before the change (`FillIsOld`), its
expiry is set by one that began at most one Span after (`RenewedEarly`), and with an expiry it ends
before requests count as late (`CopyEnds`).  The second is also about the one renewal that can be in
flight: until the agent has installed the answer its serial is the previous one of the row, whose
overlap is longer than the request (`SerialKnown`), and a late request carries the serial the row has
by then (`RecentInv`).

`AccessProofs`, on `Sessions`: `StaleOnlyByOverlap`, `AdminRemains` (invariant `SessionsInv`).  A
live session is in its user's set or its login is about to put it there (`LiveListed`); a login
holds the row as it is, or a change is yet to read the set, or the login is marked (`LoginRow`); so
a stale session is one that some change is still to delete (`StaleCovered`) or one of the exceptions
the property names.

`ProvisioningProofs`: `ActiveIsProvisioned`, from the fact that a task leaves out only steps that
are done (`PassedHaveEffect`), and `OutcomeAgrees`, whose invariant (`SettleInv`) holds while one
task at a time runs the saga: what a task has still to do is what is not done.

`LifecycleProofs`: `AloneUnlessOutlived`, `PurgedKeepsRetained`, `DataLostOnlyByOverlap` and the action
property `RetentionKeeps`.  A sweep looks at a tenant when it lists it and when it marks it; over
the steps between the proof carries that a listed tenant is condemned (`SweepOK`): while frozen it
stays due, so that what is stored for it counts as late and what was deleted stays deleted
otherwise (`EmptyOK`), and once converted its trial cannot end again, so that the mark
does not find it frozen.  Retention rests on
two lemmas about the calendar, for months of any equal length and any month to start with: an index
names one month (`Months`), and a day lies before the end of its month (`DayBeforeMonthEnd`).

## Limits

- Only model-checked, on the instances above: all liveness, for which the proof system has no
  rules of fairness (`EventuallySettled`, `EveryHitEnds`, `EventuallyTriaged`,
  `PackEventuallyLoaded`, `EventuallyDelivered`, `RevokedAgentStops`, `VerifiedSettles`,
  `TrialEnds`).  The rule language in `RuleCompiler` is recursive; what it computes for every
  rule would need induction over data, and the proofs about `Detector` leave it opaque: they
  hold whatever the rules compile to.
- One tenant, one stream, one account at a time, except in `Detector`.  Tenants share no
  other row of these components.
- Redis persistence (`appendfsync everysec`) may lose the last second of a stream or of
  the session store; that is not modelled, nor is a failover of PostgreSQL.
- `Normalizer` does not model what happens to a batch at the delivery limit:
  `StreamConsumer` does, for every handler.
- `Alerter` leaves out history rows and the statistics of a correlation group,
  which no code reads back.  A deadlock of two transactions, which PostgreSQL ends
  by aborting one, is an instance of `fail`.
- `Triage` covers one day: the budget counter does not roll over.
- `Lifecycle` has months of one length, one table for those without foreign keys, and no
  dead-letter cleanup.
- `Delivery` has lines of one length and no corrupt lines; `Access` follows one row and
  keeps abuse freeze and trial freeze of a tenant apart.
- Some properties state an exception by a history variable, because the code has no answer to
  the case: `overtaken` in `Delivery`, `lostExpire` and `failed` in `Access`, `raced` and
  `halfway` in `Provisioning`, `overlapped` and `usurped` in `Sessions`, `outlived` and
  `overlap` in `Lifecycle`.  They do not catch the excepted case itself, only every other way
  to the same harm.  The hazards in `PROJECT.json` say so where one is such a case, and the
  [observations](#observations) describe it.
- An overlap of transactions in `Inventory` is confined to the assets it wrote (`strays`); what
  becomes of those is not bounded.
- `RuleCompiler` is more detailed than the properties of `Detector` need: it gives the run rules that
  compile, fail to compile or fail on an event for the reasons the code has.
- Texts (prompts, summaries, event fields, passwords) are flags: valid or not.

### Not modelled

The investigation quota is one Lua script, a single atomic step.  The entitlements client
caches limits that are constants here.  The tenancy resolvers and the gateway parse
headers and keep no state.  Of the worker runtime, the loop is in `StreamConsumer` and the
writing of dead letters in its users; settings, signals and connections are left out.  Event
schemas, audit rows and telemetry are field checks and append-only logs on which
no modelled decision depends.  Login throttles, signup abuse controls, enrollment
tokens and the cleanup of old dead letters are the parts of modelled components that are left
out: the first three only refuse, and nothing modelled reads what the last deletes.
Agent providers are event sources of the operating system; the web console is a user
interface over these APIs.

## Plan

1. Done: transport, score, normalizer, alerter with the API's transitions, triage.
2. Done: rule language, publication and detector; inventory; agent; credentials and
   status; provisioning; sessions.
3. Done: the end of a tenant's data (`Lifecycle`); proofs of the transport, normalizer, alerter, triage and
   score, credentials, provisioning, sessions and lifecycle.
4. Done: proofs of inventory, publication, detector and agent.
5. Enrollment tokens, if a later revision gives them state that other components depend on.
