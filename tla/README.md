# Verification of game-analytics

TLA+ models of the analytics platform under `src/`: an HTTP front door takes
batches of game events, a queue hands them to a worker, the worker logs, judges,
deduplicates and counts every event, a sweep copies the counts from Redis to
Postgres, a nightly job ships the raw log to object storage, and a dashboard
reads the counts; two SDKs feed the door and one configuration steers all of it.
TLC checks small instances of the models; TLAPS proves the main results for
every value of the constants.

Paths below are relative to `src/` (the application is in `src/src/`).

## 1. The system

| part | state | operations | talks to |
|---|---|---|---|
| front door (`ingest/`) | credential cache, rate-limit windows in Redis, memory watermark | authenticate, shed, limit, enqueue | queue, Redis, exception tally |
| queue (BullMQ in Redis) | jobs waiting and active | deliver at least once, four at a time | worker |
| worker (`workers/ingest.worker.ts`) | none of its own | run every record of a job concurrently, swallow a record's exception, tally a refused record; run the flush sweep | kernel, flush |
| kernel (`workers/kernel/`, `common/kernel/`) | dedup markers in Redis | validate, correct the clock, route, append to the raw file, check the seal, deduplicate, write durable rows, update hot buckets | all stores |
| hot buckets (`hot-bucket.writer.ts`, `rehydrate.ts`) | one Redis hash per game and day or per event name, with a seeded marker | seed from the durable floor, increment | Redis, Postgres |
| flush (`workers/flush/`) | dirty registry in Redis | mark, drain, upsert absolute values with a merge per column | Redis, Postgres |
| raw day files (`workers/rawfile/`) | a file per game and day, one writer per path | append with group commit and fsync, seal, decode | disk |
| cold storage (`cold-storage/`) | an upload row per file, objects in a bucket | seal, gate, upload, verify, record, delete locally, expire | disk, S3, Postgres |
| dashboard (`dashboard/`) | none | merge live and durable counts | Redis, Postgres |
| monetization | purchase rows, spine extension, staged companions, revenue cells | reserve a transaction, roll up, pair companion and server records, class-N snapshot | Redis, Postgres |
| sessions | user spine, active-day sets, session cells | first seen, activity bits, cohort cells | Redis, Postgres |
| economy | balances with last-writer-wins order, flow cells, supply snapshots | compare and set, snapshot | Redis, Postgres |
| GDPR | erasure ledger | park until days seal, erase, tombstone | all stores |
| operator, security, configuration, panel | accounts, credentials, secrets, configuration with audit | administration over Postgres, caches | Postgres, Redis |
| client SDK, server SDK (`packages/`) | persistent or in-memory event queue, session | enqueue, flush, retry, evict | front door |

What makes it hard:

* **Concurrency.** One Node process, but every `await` is a point where another
  record of the batch, another batch or an overlapping sweep runs. Nothing is
  locked; correctness rests on idempotent commands and on their order.
* **Failure.** The worker may die anywhere; the queue delivers again. Redis may
  come back empty. A sweep or a record may throw in the middle. A write to the
  raw file may be partial, fail, or be cut by a power failure.
* **Ordering.** A snapshot may be written after a newer one; a floor is read
  before the check that needs it; a late record is appended to a day that is
  being shipped.

What correctness means for each part: *counters*: nothing is counted twice,
published beyond what was counted or silently forgotten; *raw file*: whatever is
counted is durable and readable; *cold storage*: the local file is deleted only
when the bucket holds it; *dashboard*: a figure between what was counted when it
was asked for and when it was shown; *monetization*: a transaction is in exactly
one revenue column once; *sessions*: a user is new on one day; *economy*: a
balance never goes back in time; *GDPR*: an erased subject does not come back;
*SDKs*: an event leaves the queue only when it was accepted or is beyond help.

## 2. The modules

| module | role |
|---|---|
| `PublishedCount` | abstract: totals are counted one by one, figures are published up to the total |
| `DayCountFlush` | dedup claim, rehydrate, increment, mark, exception tally, flush sweep, failures |
| `DashboardRead` | composes `DayCountFlush` with pages that read both stores |
| `RawDayFile` | raw appends of one day's file, seal, nightly shipment, failures |
| `Purchase` | purchases of a day: money tables, companions, revenue cells, class-N flush, failures |
| `RevenueRead` | composes `Purchase` with the revenue, package, coverage and whale pages |
| `SessionTime` | operators: skew correction, logical days, seal, a session's interval and its share of a day |
| `UserSpine` | sessions into the durable spine and its projections, re-scan, erasure |
| `SpineRead` | composes `UserSpine` with the session, retention and active-user pages |
| `Economy` | currency cap, flow hashes, balances, both flush domains, day page |
| `ConfigContract`, `GameConfig` | the inventory of knobs; the administered row, its audit and the nodes' caches |
| `IngestKernel` | extends `GameConfig`: batches through the nine steps, all kinds, exceptions, crashes |
| `EventHandoff` | abstract: an accepted event is held until it was taken or given up |
| `ClientQueue` | browser SDK: queue, transport, beacon, restart; implements `EventHandoff` |
| `ClientSession` | browser SDK: session tracker and open-session record |
| `FrontDoor` | guard with credential cache, brake, token bucket, enqueue, revocation |
| `ServerSdk` | extends `FrontDoor`: the server SDK's queue, flush loop and shutdown |
| `DayCountFlush_proofs` (with `DashboardRead`), `RawDayFile_proofs`, `Purchase_proofs` (with `RevenueRead`), `UserSpine_proofs` (with `SessionTime`), `Economy_proofs`, `IngestKernel_proofs`, `ClientSdk_proofs` (`ClientQueue` and `ClientSession`), `ServerSdk_proofs` | theorems and proofs |
| `MC...` | instances for TLC |

The modules share a rule: one Redis command, script or transaction, one SQL
statement and the code between two `await`s are atomic, everything else
interleaves. Where a module takes several such steps as one because another
module takes them apart (seeding, marking and draining of a bucket, which
`DayCountFlush` has step by step), its header says so.

### DayCountFlush

A record is one delivery of an event. Its handler is the sequence of awaits of
`GenericHotUpdateHook.update` (or `ExceptionTallyWriter.tally` for a refused
record), repeated for each cell it touches: `Claim` (step 6, `SET NX EX`),
`ReadFloor` (Postgres), `CheckSeeded` (`HGET`), `SeedBucket` (`MULTI` of `HSETNX`
and the marker), `Increment` (`HINCRBY`, or the merge script of a catalog entry),
`Describe` (the tally's `HSETNX` of the names of its row), `MarkDirty` (`SADD`).
A sweep is `SweepDrainCnt`, `SweepDrainCat` (one Lua script per registry), then
per bucket `SweepCheck`, and `SweepRemark` or `SweepRead` (`HGETALL`) and a
`SweepUpsert` for each row. One Redis command, script or transaction and one SQL
statement are atomic; everything else interleaves.

Failures, each with a bound and `MaxFailures` over all: `Crash` (handlers and
sweeps vanish, unacknowledged jobs are delivered again), `SweepFail` (an exception leaves the sweep with what
it drained), `RecordFail` (`processOne` swallows an exception), `RedisLoss`
(Redis restarts empty while the worker goes on; BullMQ lives in the same Redis,
so its jobs are gone too).

Data kept abstract: a field that is absent is the count 0; the dedup marker does
not expire (its TTL is far longer than a redelivery); catalog entries are a
count without seen times and property types; ranks are display only and never
flushed. The history variables `base`, `incs` and `hits` are what the properties
compare with.

### DashboardRead

`dayCounts` and `exceptionDay` start both reads at once and take the greater
count per name. `Ask`, `ReadLive` and `ReadStored` are the three moments;
everything of `DayCountFlush` may happen in between.

### RawDayFile

One path. A record's handler: `Start` (the batch takes its clock), `Lookup` and
`MakeWriter` (`writerFor`, with the `await mkdir` between check and set, so two
writers for a path can exist), `AppendFrame`, then it waits; `Settle` is
everything after the append has resolved, and `Ack` the end of the job. A writer:
`TakeBatch`, `OpenFile`, `Write`, `Sync`; an open that failed is kept, and every
later flush of that writer is a `RejectBatch`. The nightly run: `RunStart` (list and
close), `SealDrained`, `ReadUnlessRecorded`, `Gate` (a second read), `Put`,
`VerifyAndRecord`, `RetentionPass`, `RemoveFile`, `StampRow`.

The file is a sequence of frames; `Torn` is a frame some of whose bytes are
missing. `decodeFrames` stops at it or throws, so no frame behind it is ever
returned. Deleting the file while a writer has it open leaves that writer
writing to a file without a path (`inode`). `ReadFile` and `Gate` are not ordered
with a write that is under way: the read may return part of it (`overlapped`), and
the gate may find it torn. A power failure keeps the synced
frames and any part of the rest; acknowledged records are not delivered again.

Faults, together at most `MaxFaults`: a crash, an I/O error of a flush, a short
write (its result is not looked at), an error of S3 or Postgres or a damaged
object. The retention setting is a nondeterministic choice at each pass. Cold
storage is taken to be enabled for the game, and only this day's file is
followed; another file of the game shows in `RunStart`, which may go on to the
retention pass without a local file of this day.

### Purchase

One game, one day. A record is a delivery of a server row (the money) or of a
client companion (the context); both name the attempt they belong to.

*Row.* `CheckClaimed` is steps 5 and 6 (the gate only looks, it claims nothing)
and the eligibility check of step 7. `PreRead` and `Commit` are the read and the
commit of the one transaction of `PurchaseDurableHook.write`: the payer is read
at read-committed isolation without a lock, so they are apart, and `INSERT ... ON
CONFLICT DO NOTHING` decides. Step 8 (`rollupServerRow`) is `ReadFloor`,
`CheckSeeded` and `SeedHash` for each of the hashes mon, meta, payer and rev,
`ReadContext` (the staged companion), `Resolve` (the dimensions, through the
cardinality guard), `Rollup` (one script), `StageServer`, `Mark`. `seedDay` seeds cnt,
rev, loc, cat, meta and the payer hashes at once (`Promise.all`,
`purchase-hot.hook.ts:484-494`); the model seeds one hash mon for the first four and
takes the hashes one after another. A seed reads and writes one hash and its marker; a
handler rolls up and marks only after all of its seeds are back, and pages read none of
the four, so nobody looks at them half seeded.

*Companion.* `Arrive` (step 6, by transaction id or by event id), `Join` (is the
row staged?), then either `StageCompanion`, or the same seeding, `Resolve`,
`Move` (one script: both cells and the generation) and `Restage`; `Mark`.

*Sweep.* `SweepDrain`, `SweepRead` (one script reads hashes and generation
together), then `SweepMembers`, a `SweepCell` for each cell, or `SweepTotal`, in
the order of the registered domains; `Accepts` is the guard on generations.

`Seal`, `Expire` (a stage lives 48 hours), `Crash`, `RecordFail` and `SweepFail`
happen at any time, the failures up to `MaxFailures`. Redis is lost before the
day's deliveries begin: the rows of `Before` are in Postgres as `Stored`, and
Redis is empty. A loss between two steps of a handler is not modelled here.

A cell is a tier and one client value: of the six dimensions one that the
server derives and one that a companion supplies, so that a companion can move a
purchase and cannot change its tier. Revenue of a purchase is a price at the
rate of its day, or 0 while no rate is usable (`Parked`). Local sums and the
category hash are changed in the same scripts as revenue and are left out. That
the outcome of the insert can be read from what the ORM returns is taken from
the comment in `purchase-dedup-gate.service.ts:111`. The history variables
`stamp`, `counted`, `place` and `late` are what the properties compare with.

### RevenueRead

`DayRevenue` and `DistinctPayers` lay the day's hashes over the flushed rows when
the day is today; `PackageByValue` and `Coverage` read the flushed cells; `Whales`
picks the top spenders of the month from the payer tables. A page is one read.

### SessionTime, UserSpine, SpineRead

`SessionTime` has the arithmetic of `common/kernel/skew.ts`, `seal.ts`,
`logical-day.ts` and `session-time.ts` as operators: a pair of times is corrected
together, the end may be cut at the moment of arrival, the duration is clamped,
and `DurOnDay` takes the share of a day between bounds found through a probe.

A session's handler is `Receive` (seal check), `Seed`, `Reread`, `SetBit` (step 7,
one statement each), then the buckets named by `Plan`, folded one by one in the order
of `Rank`: `FoldStart`, `FoldEnd` (the day it ends on), `FoldActive`, `FoldNewUser`,
`FoldReturn`. `Sweep` merges a dirty bucket into the tables; `RescanRead` and
`RescanWrite` are the operator's re-scan with the time between them; `EnumerateSpine`,
`EnumerateActive` (two statements), `Purge`, `CloseEntry` are an erasure request,
`EraseFails` one that ends half way. The front's seal check waits `Grace`, a constant of
48 hours in the kernel; the erasure waits `EraseGrace`, the administered
`day_seal_grace_hours`. The days of a subject's purchases (`payer_day`,
`purchase_idempotency`), which the erasure asks for too, are left out.
`Fail` ends a handler anywhere, and its retry is stopped by the dedup gate.
`SpineRead` evaluates the pages in every state. History: `rows` and `marks`
record which sessions made a spine row or set a bit, and for which day; `returned`,
`hidden` and `reopened` which users were seen after their erasure began, which had a
day that only Redis knew when it looked, and which days took a user after the erasure
held them sealed.

### Economy

`Begin` admits the currency through the cap's script; per hash (`base`, then
`seg` when the event has a segment) `ReadFloor`, `Seed`, two `Increment`s (amount
and count are two commands) and `Mark`; with a balance `Look`, `PointRead`,
`Decide` (the script) and `MarkBalance`. A sweep drains the flow domain, then the
balances, and writes hash by hash: flows by the greater value, balances guarded
by `as_of`. The page is `ReadRows` and `MergeLive`. `Throw`, `SweepThrows` and
`LoseRedis` share the bound `MaxTrouble`. Amounts are in tenths: the code cuts
each to a whole unit before it adds.

### ConfigContract, GameConfig, IngestKernel

`ConfigContract` is the inventory of knobs with their value contracts and
`Conforms`. `GameConfig` has the row and its audit, one cached copy per node with
the time it was stored, and an administrator's request as `Submit`, `PriorHit` or
`PriorQuery` and `PriorFill`, `Commit` (one transaction), `Invalidate` (the
writing node's copy only). Readers use `Hit`, or `Query` and `Fill` around the
await. Time is in ticks of a refresh interval; an answer of the database is used
within `MaxLatency`.

In `IngestKernel` every record of a batch runs alone: `Begin` takes the batch's
clock stamp, and with a fresh cached configuration everything up to the name
gate; else `ScrubQuery` and `ScrubFill`. Then `Gate` (the name cap's script),
`RawAppend` (steps 4 and 5), `Dedup`, `Durable`, `Base`, `Story`, or `Tally`; `Ack`
when all have returned; `Throw` is the exception `processOne` swallows, `Crash`
gives the node's batches back. Props are the set of fields present and well
formed; `eligible` stands for verified, production and server provenance
together; `DigitRuns` names the identifiers that hold nine digits in a row, which
the scrubber makes one.

### EventHandoff, ClientQueue, ClientSession

An action is the code from one await to the next on the browser's one thread. In
`ClientQueue` an enqueue into IndexedDB is `BeginPush`, `PushPeek`, `PushEvict`,
`PushPut` (size, oldest, evict, put), into localStorage or memory `PushAtOnce`. A
flush is `FlushPeek`, `FlushSend`, `FlushAnswer` or `FlushLost`; `Unload` sends the
oldest rows with a beacon and removes nothing; `Serve`, `Refuse` and `StrayArrives`
are the endpoint with its windowed dedup; `Kill` and `Start` bound a page's life,
and storage survives them unless it is memory.

In `ClientSession` a capture is `Capture`, `Resume`, `BuildEnvelope`, `Captured`; a
session's end is `EndSession`, `TerminalEnqueued`, `ClearOpen`, run by a capture that
finds the timeout passed, the timer, a hidden page or the next `PageStart`. Storage
calls take effect in the order they are issued, or fail in silence, as `setItem`,
`removeItem` and `getItem` do on both storages (`storage.ts:132-152`, `277-303`):
`WriteFails`, `ClearFails` and the last alternative of `PageStart`, at most
`MaxStorageFailures` times. `unwritten` and `left` record the sessions they touch. Its `TrackerSpec`, `PageKill` and the
like carry names of their own, so that one module can prove about both.

### FrontDoor, ServerSdk

A request goes `CacheHit` or `Lookup` and `Remember`, `Shed`, `Admit` (token
bucket script), `Add` or `AddFails`. Time moves when no request is under way:
requests are short beside the cache's lifetime. The brake's verdict is a free
choice. `ServerSdk` adds `Emit`, `FlushDue`, `Send`, `Answered` (with removal of the
batch and the next peek), `Broken` and `Unheard` (the request and its answer may
be lost apart), `Wake`, `Shutdown`, `Exit`. Backoff is a free choice within the
retry budget, which is tested after an attempt, as in the code.

## 3. The runs

| run | instance | states | shows |
|---|---|---|---|
| `daycount_counts` | two events that race for a bucket, a refused record, 2 sweeps, one failure of any kind | 2.5 M | nothing counted twice, forgotten without a failure or published beyond the count |
| `dashboard_live` | 2 events, day and catalog bucket, 1 sweep, 1 page, no failure | 296 k | the page is between two counts; the sweeps catch up |
| `rawfile_file` | 2 records (one accepted), seal, nightly run, one fault of any kind | 2.5 M | counted is synced, a row is readable, a sealed file is shipped |
| `purchase_day` | three sets of arrivals, 1 sweep, 1 failure, after a loss of Redis | 1.5 M | money tables, cells, companions and revenue pages agree |
| `client_session` | 3 captures, 3 sessions, 2 kills, 1 storage failure | 778 k | a session ends once, with a record that covers it |
| `client_queue` | 2 events (one money), cap 1, 3 storages, 2 kills, 2 failures | 358 k | the hand-off of events from page to endpoint |
| `server_delivery` | 3 rows, 1 slot, queue of 2, cache of 2 ticks, 1 trouble | 417 k | acknowledged is queued, revoked is refused, rows settle |
| `user_spine` | 4 sessions, 2 users, one session over 4 days, instants 5, 6 and 12, erasure grace 3 of 4, 2 troubles | 2.1 M | projections follow the spine, days add up, who may come back after an erasure |
| `economy_day` | 2 events, cap 1, 1 sweep, a stored balance, 1 trouble | 2.3 M | flows add up, the latest balance wins |
| `ingest_kernel` | 6 pairs of records, 2 batches on one node, an administrator on another, 1 set, 1 fault | 3.2 M | every record of an acknowledged batch is accounted for, under the policy in force |
| `session_offset` | the sessions of `user_spine`, offset -1 | violation | the time of a session is lost |
| `kernel_store` | 2 purchases with numeric store ids | violation | the second is taken for a copy of the first |

**Why the bounds are enough.** The races of the counting path are between two
handlers of a bucket (seeding), a handler and a sweep (marking), two sweeps
(stale snapshot) and two deliveries of an event (dedup, by the crash that delivers
a job again); two of each reach all of them, one failure of any kind reaches
redelivery and loss, and the proofs of section 5 remove the bounds. In the raw file
two records give two writers of a path and two frames in one or two flushes, one
straddling the seal or the read of the nightly run. For purchases each
behaviour begins with one of three sets of arrivals (`Arrivals`): two deliveries of
a transaction that race at gate and insert; two transactions of one payer that
meet at the tier and the cells; a row, a companion and its copy, which reach every
order of staging, rollup and move. `Stored` holds a generation above 0 and a cell
that a move emptied, so that a rewound generation is seen.

For sessions: a user with sessions on two days far apart (a return, a new bit, an
erasure between them), one across midnight, one without a user that lasts over four
days under a cap of three, and one with a clock that is behind; `Instants` puts the
clock in an open day, between the end of the erasure's grace for the first day and its
seal at the front, and after that. One failure of the page's storage, beside two kills,
reaches a write, a removal and a read. In the economy both events end in one account and one cell, with
a stored balance as old as one of them. In the kernel six pairs of records meet:
two names at a cap of one, two deliveries of an event, a session and a malformed
economy event, a purchase and its retry, a companion and a nameless event, an
unknown kind and an economy event. Two events and a queue of one put eviction and
a request in flight together in the client; three rows and a queue of two in the
server SDK. `Max...` constants, `Instants` and `MaxTime` are the only bounds.

In `UserSpine` the clock moves from one instant to the next only when no handler, sweep,
re-scan or erasure is under way and every dirty bucket is flushed (`Tick`): these take
seconds, the graces are hours, and a sweep comes every five minutes. A bucket that stays
unflushed through a whole grace, because Postgres was down for so long, is outside the
model.

**What the passing instances leave out, on purpose.** `user_spine`: sessions beyond
the horizon or under an offset below 0 (run `session_offset`), and a re-scan during
traffic (`QuietRescan`). A session whose start day is sealed while its end day is open
is in it, and is folded on both days, as the code does and the documents do not
(section 4).
`ingest_kernel`: identifiers with nine digits in a row (run `kernel_store`) and
purchase rows that are not eligible (section 4). `purchase_day`: overlapping sweeps
(section 4). The invariants that speak of a quiet system hold without the failures
they name: a failed sweep forgets, and a handler that ends after its commit is not
resumed. Deadlock is not checked where all traffic may have ended.

**Fairness.** Weak fairness of what the event loop holds: handlers, writers, calls
of the SDKs, their timers, an answer to a request under way; of each sweep and of
the nightly run, which are repeatable jobs of the queue. In `ServerSdk` time has
strong fairness, because it waits for the slots to be free again and again. None
of a fault, of traffic, of a page, of a kill or a start, of an administrator or of
the passing of the day.

**Type invariants.** Each state machine has a `TypeOK`; those of `DayCountFlush`,
`RawDayFile`, `UserSpine`, `ClientQueue` and `ServerSdk` are theorems, the others were
checked on the instances above by adding them to the configuration. No run uses symmetry.

## 4. Disagreements between documents and code

Two runs end in a violation:

* `session_offset`. `durOnDay` (`sessions/session-time.ts:171`) probes for the bounds
  of a day at its UTC midnight plus the offset plus a minute; the logical day
  starts at midnight minus the offset. With an offset below 0, or of 720 minutes
  and more, the probe is in a neighbouring day and the durations are lost. The
  comment at lines 166-170 says it lands inside regardless of the sign; the
  contract of the knob admits -720 to 840; the tests use 0 and 210.
* `kernel_store`. Step 3 scrubs the props (`ingest-kernel.ts:157`) before step 6 asks
  for the transaction. A string with nine digits in a row becomes one marker
  (`pii-scrub.service.ts:86`), so the second purchase of a game with numeric store
  ids is a duplicate of the first (`dedup.ts:13`: a duplicate only when the id
  existed) and its revenue is lost. The same happens to `purchase_attempt_id` and
  `session_id`.

The following are kept as configurations beside the runs, each with the property
the documents state and a violation TLC finds:

* `MCDayCountFlush_dbdown`: `CatchesUp`. `specs/001-analytics-platform/ops-envelope.md:83`
  says that a flush that stalls catches up on recovery. The registry is cleared by
  the drain and an exception drops what was drained (`flush-job.service.ts:132`).
* `MCRawDayFile_torn`: `CountedIsReadable`. `bridges/01.5-raw-file-contract.md:84`
  promises that no event is counted but unlogged. After a crash in mid-append the
  file is reopened behind the torn frame (`file-writer.ts:87`) and nothing behind
  it can be decoded.
* `MCRawDayFile_late`: `LoggedSurvives`. `specs/008-cold-storage/design.md:41` says that
  a sealed-late event goes to the current day's open file. The kernel appends to
  the corrected day's file before it looks at the seal (`ingest-kernel.ts:198`), and
  the retention pass deletes what it appended.
* `MCPurchase_resume`: `CommittedIsCounted`. `specs/006-monetization/design.md:94` and
  `bridges/05.5-purchase-accept-contract.md:52` have a retry resume the display
  writes when the row is booked and the stage marker is absent. The gate answers
  `duplicate` for every booked transaction (`purchase-dedup-gate.service.ts:77`).
* `MCPurchase_overlap`: `Converged`. `flush.service.ts:220` says that the generation
  guard rejects a stale snapshot. A rollup leaves the generation alone
  (`purchase-hot.hook.ts:73`) and the guard accepts an equal one
  (`flush-merge.ts:151`): of two overlapping sweeps the older may write last.
* `MCIngestKernel_sandbox`: `CountedOnce`. `ingest.worker.ts:13` and FR-008a
  (`specs/001-analytics-platform/spec.md:123`) say that a redelivery is never counted
  again. A purchase row that is not eligible inserts nothing, so nothing stops its
  redelivery and the catalog and day counts take it again.
* `MCClientSession_burst`: `TimesOutAfterActivity`. Two captures in one turn after the
  timeout: the second finds the session the first has just minted with the old
  activity time and ends it as timed out (`session.ts:142-157`).
* `MCPurchase_day` with `Events = {c1, c1b}` and `EventOf <- EventEach` (no file of its
  own): `CellsHoldEachPurchaseOnce` with two companions of an attempt that have event ids
  of their own, as an application that calls `purchaseContext` twice sends them. The
  second reads the stage between the move and the restage of the first
  and moves the purchase again, from the cell it has left
  (`purchase-hot.hook.ts:223-262`).
* `MCUserSpine_rescan`: `ProjectionWithinSpine` with re-scans during traffic. The header
  of `spine-rescan.service.ts:9` calls its absolute upserts safe to repeat; a user
  folded after the scan's read is counted once by the scan and again from the
  bucket that was seeded from its rows.
* The documents say of an erased subject that nothing brings them back:
  `specs/001-analytics-platform/ops-envelope.md:157` ("sealed buckets are no longer swept
  by the flusher (no resurrection path)"), T-00.76 of `specs/002-foundation-ingest/tasks.md:140`,
  and `erasure.service.ts:117`. `NothingLeft` states it; `ErasedStaysErased`, which the run
  checks and a theorem proves, is what the code keeps of it. `NothingLeft` fails
  * in `MCUserSpine_midnight`: a session over midnight whose end is in an open day is
    folded on its sealed start day, after the erasure (the last item below);
  * in `MCUserSpine_bitmap`: a session beyond the bitmap of its user, whose span is the
    largest retention target and 15 days (`session-config.service.ts:111`), leaves no bit
    (`session-durable.hook.ts:134`) but marks the user active. Until the next sweep only
    the Redis bucket knows the day, and an erasure in between does not wait for it. So
    does a session of a day before the user's first, and an erasure that failed behind its
    purge: the next attempt enumerates days from rows the purge has removed
    (`erasure.service.ts:94`);
  * on the constants of `MCUserSpine_days`, where the erasure's grace is below the
    front's. The erasure seals by the administered `day_seal_grace_hours`, 0 to 168
    (`spine-erasure.ports.ts:146`), the kernel by a constant of 48 hours
    (`ingest-kernel.ts:315`): with a knob below 48 the erasure executes while the day's
    bucket takes sessions, and the sweep lists the user again. The TTL that would
    let the bucket go, `OPEN_DAY_BUCKET_TTL_SECONDS`, is applied nowhere.
* The cap on a session. `specs/003-sessions/spec.md:146` and T-02.6 and T-02.12 of its
  tasks give `session_max_duration_cap_min` the range 1 to 1440, and `design.md:71` says
  that a session therefore overlaps two days at most "by construction". The contract of
  the knob admits 10080 minutes, a week (`config-contract.ts:183-188`); 720 is only the
  default. `deriveTrustedSession` returns the first day and the last
  (`session-time.ts:136-145`), so a session over three days or more counts, and its days in
  between have neither its time nor a touch. `SessionsAddUp` says exactly what is
  lost (`Between`), for every cap; the session sn of `user_spine` loses a day so.
* A session whose start day is sealed and whose end day is open. `specs/003-sessions/design.md:77`
  and `spec.md:130` quarantine the whole event, gated on the start day. The kernel
  judges every event by its event time (`ingest-kernel.ts:200`), which for a session is its
  end (`packages/sdk-client/src/client.ts:103`), and the hooks then fold both days: the
  sealed day's bucket, bit and row change after their seal.
* `RowMeansReadable` without its second exemption, on the constants of `MCRawDayFile_late`:
  the header of `nightly-shipment.service.ts` has a row stand for a verified object that
  decodes. The gate decodes the file a second time and not the bytes it ships (lines 183
  and 189): a late frame whose write the first read overlaps is whole when the gate looks
  and torn in the object.

Met on the way and of no consequence to a property: the knob `dedup_window_hours` is
administered while the kernel uses a constant; a literal event named `other` takes a slot
of the name cap; no reader tries the two keys the secret rotation promises.

## 5. What is proved

`DayCountFlush_proofs`, from `ConstantsAssumption` alone (a record touches a bucket at most once; bounds are numbers), for any
number of records, events, buckets, sweeps, pages and failures:

* `TypeCorrect`: the type invariant.
* `PublishedCorrect`: no published figure exceeds what was counted. The property
  is not inductive; `Bounded` adds that every copy of a count on its way is
  bounded too: the floor a handler is about to seed with, the hot hash, the
  snapshot a sweep is writing. A seed takes the floor only where the hash has
  nothing, so no bound is ever added to another.
* `PublishedNeverDrops`: an upsert writes one cell to the greater of two counts.
* `ImplementsAbstract`: with the total as what was counted and the figure as
  what Postgres holds, every step is a `Count`, a `Publish` or a stutter.
* `HotCountExact`: while Redis keeps its data a seeded bucket is exactly floor
  plus increments. `Exact` adds that an unseeded bucket has counted nothing, so
  that the floor read early is not stale, and that handlers increment and sweeps
  read only seeded buckets.
* `CountedAtMostOnce`: while Redis keeps its data an event behind the gate raises
  a bucket once. `Once` adds that at most one delivery of a claimed event is in a
  handler, with its cells ahead not yet raised.
* `NoCountForgotten`: where nothing dies or throws, a count above its row has a mark, a
  handler about to mark, or a sweep that still has to write it, however sweeps
  overlap. `Followed` adds why: a sweep forgets a bucket only after it wrote every
  row it read, a floor never exceeds its row, and an exception bucket that cannot
  name its row yet has a handler that is about to name and then mark it.
* `PageCorrect`: a page is within what was counted. `Pursued` adds for each read
  what it guarantees alone, and that a bucket found unseeded had counted nothing
  when the page asked, so the durable rows cover it.

`Purchase_proofs`, from its `ConstantsAssumption` alone (what was committed before Redis
was lost and what Postgres then holds are finite), for any number of payers, transactions, deliveries, sweeps and
failures:

* `CountedOnce`: a transaction is rolled up once at most, and only when it is in
  the table. `OneWinner` adds what a delivery relies on between its commit and
  its rollup: nobody else is on that way for the transaction, and it has not
  been counted. A crash leaves nobody on that way.
* `FirstIsStamped`: of the purchases of a payer one is stamped as the first.
  `RowWhenPaid` adds that the payer has a row exactly when a transaction of
  theirs is in the table, and `RepeatsHaveRow` that who read a tier other than
  "first" read such a row, so an earlier stamp exists when it commits.
* `SpineCorrect`: what Postgres holds of a payer and of the month is what the table of
  transactions adds up to. `LedgerInv` adds that the table stays finite, so that its
  sums are defined. The sums themselves are `WorthAdd`, `WorthRemove` and `WorthEmpty`:
  the fold of the community modules is a `CHOOSE` over a recursive function, shown to
  be the size of a set of units (`WorthIsSize`) by minimal counterexample, and sizes
  have laws in the library.
* `CellsCorrect`, when an attempt has one companion, sent without a transaction id
  (`OneContext`; the client SDK's `purchaseContext` names one event per call): each
  purchase rolled up is in one cell, once in the total, and its payer in the set. Four
  parts of `CellInv` carry it. `DaysKnown`: a day in Postgres, or as a handler read it,
  is the floor until the hash is seeded and within the hash from then on, so a late
  seed adds nothing. `HotKnown`: nothing is rolled up before all four hashes carry
  their marker. `HeldInPlace`: the cell a companion moves from is the one its purchase
  is in, because the window lets one delivery pass (`OneCompanion`) and a purchase is
  known under one attempt (`OneAttempt`). `RolledInPlace`: between rollup and stage the
  purchase is known to nobody else. TLC checked every part on the instants of
  `purchase_day` before it was proved; without `OneContext` it is false, as
  section 4 shows (`EventEach`).
* `FlushConverges`, with `OneContext` and two hypotheses more: when nothing failed and
  nothing is under way, Postgres holds the floor and every purchase since, each in its
  last cell. `OneSweep` says that sweeps do not overlap; with two
  `MCPurchase_overlap` refutes it. `FloorCovers` says that at the start the generation
  of the day total is not above those of its cells: `metaFloor` looks at the cells
  alone, and a total whose row is ahead of them refuses every write until the hash has
  caught up. (A sweep that wrote the total and not the cells, followed by a loss of
  Redis, leaves such a day.) `FlushInv` says what is owed while nothing fails: where
  Postgres and the hash differ, the domain is marked, or a handler has still to mark
  it, or a sweep has taken the mark and still has to read or write (`CellsOwed`,
  `TotalOwed`, `MembersOwed`); the generations of Postgres, snapshot and hash are in
  order, so that no write is refused (`GensInOrder`).
* `LateEnriches`, with `OneContext` and one transaction to an attempt (`OnePurchase`): a
  companion that comes when its row is staged leaves the purchase in a cell of its value.
  `AheadAt` says why: it passed the window and keeps every other delivery out, its row
  was rolled up before it was staged and is known under this attempt alone, and so
  between its move and the end nobody places it elsewhere (`OthersLeaveIt`). With two
  transactions under one attempt TLC refutes it: the second takes the first one's stage.
* `RevenuePagesCorrect`, of the pages of `RevenueRead`: today's page shows each purchase
  rolled up once and its payer, no page is ahead of the payer tables, the top payers
  have their part of the month, and the flushed pages agree when nothing failed. It takes
  the hypotheses of `FlushConverges` and, of what Postgres holds when Redis is lost,
  that its total and payers are those of purchases in the table (`StoredIsPaid`) and that
  its cells add up to its total (`StoredAddsUp`; a loss between the flush of the cells and
  that of the total leaves a coverage page that keeps the difference), over finitely many
  values of the dimension. Only the flushed pages need `OneSweep`, `FloorCovers` and
  `StoredAddsUp`: `DayPages` and `WhalePages` do without. `PageInv` adds that the day total
  in Postgres, and what a sweep is about to write there, is not ahead of the hash
  (`TotalBehind`), so that the greater of the two is the hash's; that nothing committed
  before the loss is rolled up again (`NewOnly`); and that what is rolled up stays in a
  cell (`CellsPlaced`). TLC checked it, and that both hypotheses on the floor hold, on
  `purchase_day`. The sums are sizes of sets of units again (`RecIsSum`): the sum over the
  classes of a set is the sum over the set (`SumOfClasses`), which takes the spends of the
  payers to the purchases in the table and the cells to what was rolled up. Sets of top
  payers of every size exist (`TopExists`), and a part of the payers above all others has
  at least its part of the money (`TopShare`), whatever set the page chooses.

### RawDayFile_proofs

For any records, writers, faults and bounds on them; the invariant is `TypeOK` and `Kept`:

* `TypeCorrect`: the type invariant, whose hard part is the file as a sequence of
  frames and a torn one, cut and prolonged by flushes, crashes and new files.
* `WriteAhead`: what is counted is synced until the file is deleted or a write was
  short. `CountedIsLogged` and `LoggedIsSynced` go from a counted record over its
  resolved append to the synced part of the file.
* `RowsAreReadable`: an upload row stands for an object that decodes, unless its bytes
  were read inside a write. `RunOrder`
  says in which order a nightly run may find row, object and gate.
* `OnTimeIsKept`: what was counted before the seal is in the file until the object
  has it. `BodyIsFile` says that what is uploaded has every frame counted in time, and
  a torn one only from a write that the read overlapped.

### Economy_proofs

From `EconomyAssumption` (a stored balance comes from an earlier day's record; `None`
is no hash key; ids of records differ).

* `NewerStays`: no step of the system replaces a balance, in Postgres or in the
  hash, by one that happened earlier, for any events, users, sweeps and failures.
  `BalanceInv` adds what the two upserts need: every entry, wherever it is (hash,
  table, the rows in a sweep's hands), has a time that is a number. `DecideRises`
  is the fact about the script (the winner is not older, whatever tie-breaks say),
  `UpsertRises` the one about the guarded upsert, which is why an old snapshot of an
  overlapping sweep does no harm.
* `LatestWins`: at rest, when no record or sweep threw, every account has in Postgres a
  balance no older than any that was brought since Redis was last lost, and with no
  overlap and no loss the one that wins the documented tie-break. `LatestInv` is one
  part for each link of the chain: what a handler brought is in the table or the
  hash, or beaten (`Known`, `Unbeaten`); what is in the hash is in the table,
  marked, drawn, or in the hands of a sweep (`OnItsWay`, `RowIsEntry`,
  `HandIsEntry`); the table is never ahead of a hash that was not lost, and a
  handler that decides without the hash has read the table's row (`HashLeads`).
  TLC found it inductive on the way: it held on an instance of three records with
  one trouble and on one with two sweeps before it was proved.
* `FlowsCorrect`: no figure of the flow tables exceeds what was counted, and at rest,
  with nothing lost or thrown, each is the sum over the records handled. `PageCorrect`:
  a page is between that and what it was asked over. `FlowInv` carries both.
  `AddsOnce` says of each handler which of its increments are done, from its step and
  from the buckets it has yet to do, so that an increment is always of something not
  yet counted (`NotAddedYet`). `Bounded` bounds every copy of a figure: hash, table,
  the floor a handler is about to seed with, the rows in the hands of a sweep.
  `Exact`, while Redis keeps its data, makes a marked hash equal to what was counted
  and an unmarked bucket empty, so that a floor read early is not stale. `Followed`,
  while nothing throws, leaves a row that lacks something a mark, a handler about to
  mark, or a sweep that holds the exact figure. `PageInv` follows a page between its two
  reads: what it lacks of the figures it was asked over is in the hash it will merge.
  The sums are sizes of sets of units (`SumIsSize`, `SumAdd`), as for `Worth`. TLC
  checked the invariant on the constants of `economy_day` (2.3 million states) and, in
  part, on two sweeps before it was proved.

### IngestKernel_proofs

From the assumptions on the constants (`Ttl` is not 0, the configured caps are
numbers), for any nodes, records, requests, operators and changes; the invariant of
the first two is `ConfigInv`, `ScrubbedClean` and `NamesBounded`:

* `DenyListTakesEffect`: a key that was on the deny list for a refresh interval and an
  answer's latency is in no frame of a record scrubbed after that. `CopiesAgree`
  says which answers and copies must hold the list in force: those asked for, or
  stored long enough, after its last change.
* `NamesStayWithinCap`: names counted apart stay within the greatest cap ever in
  force. `CapsKnown` follows a cap from the request over the row and the audit to
  copies and the handlers that ask the gate with it, whatever their age.
* `NoRecordVanishes`: `AckedIsAccounted`, for any number of batches, records,
  redeliveries, exceptions and crashes. Two hypotheses, both true on the constants of
  `ingest_kernel`, say of which deliveries it speaks. `KeysKept`: no deny list names
  one of the fields a purchase is claimed and booked by, otherwise a redelivery may
  ask for another key than the delivery before it. `SalesOnly`: a purchase that
  carries a transaction is a verified production sale that a server sent, and no
  event names both sources; `MCIngestKernel_sandbox` shows what becomes of any other:
  nothing claims it, and each delivery counts it again. The invariant is
  `AccountInv`. Its main part, `ClaimsHeld`, says that every claimed key has a record that
  holds it (`Holds`): one that was scrubbed to the key, is durable if it is money, and was
  counted, is at it, or was lost. No step takes that away from a record: a crash behind the
  claim makes it lost, and a redelivery that is scrubbed anew keeps the fields that
  decide. `ClaimMade` is the other direction: whatever was counted, written or let
  through has its key claimed, so a redelivery is stopped at step 6 before the base counts
  it twice. `ListsKnown` follows the deny list through row, answers, copies and
  requests, as `CapsKnown` follows the cap. TLC checked `AccountInv` on the
  constants of `ingest_kernel` (3.1 million states) before it was proved.
* `RedeliveriesCountOnce`: under the same two hypotheses a record is counted at most
  once over all its deliveries, and of the events with one id that are not purchases with a
  transaction at most one is counted (`EventsCountedOnce`, which no run lists; TLC checked
  it with its invariant on the constants of `ingest_kernel`). It is `CountedOnce` without the two
  cases in which the code does count again: a row that books nothing, and two purchases
  that both pass the lookup of step 6 before either inserts. `Narrows` states the argument:
  only step 6 lets a record past, only while its key is unclaimed, and whoever is past
  it holds the claim. Claims do not expire in the model, so this speaks of deliveries
  within the dedup window.

A first attempt showed that the history variable of `PolicyTakesEffect` was set for
records that are refused before the scrubber; it is now recorded where the scrubber
runs.

### ServerSdk_proofs

* `TypeCorrect`: the type invariant, whose hard parts are the arithmetic of the
  token bucket and the bound of the queue under eviction.
* `RevocationCorrect`: no request is served a cache lifetime after the revocation.
  `RevocationInv` adds that a cached entry is at least as old as the revocation, and
  that a request that read the credential before it is still within its first unit.
* `AckedCorrect`: what is removed as delivered is in a job. `RequestInv` adds that the
  slot the flush waits for carries the flush's batch and that a slot with a 200 has
  its events queued; a request whose answer was lost stays apart from the next.
* `MoneyCorrect`: a verified purchase is waiting, acknowledged, reported or refused to
  its caller.
* `ShutdownCorrect`: rows are left at the exit only for one of two reasons.

### UserSpine_proofs

From `TimeAssumption`, `SpineAssumption` (finite sets of sessions and users, times that
are numbers) and `NoneAssumption` (`None` is no row, no cell and no set of users), for any sessions,
users, erasures, sweeps, re-scans, failures and losses of Redis:

* `TypeCorrect`: the type invariant. It rests on `Base`: which handlers have a user,
  that a cohort is a day, that a session seeds one row and sets one bit at most, and
  that what a handler has yet to fold is already recorded (`Promised`).
* `ReportsStayWithin`: no bucket and no stored row counts more than the spine recorded.
  Bounded by all records this is not inductive; `WithinInv` bounds each figure by the
  records without those some handler still owes (`Grown`, `Kept`), so that a fold
  raises both sides. A re-scan is bounded by `SpineInv`: every row and bit of the
  table, and of its old copy, has a session of that user behind it, hence no more
  users than records.
* `SettlesToSpine`: at rest, with nothing failed, the stored retention is what was
  recorded, every row has bit 0 and day 0 of a cohort is its size. `ExactInv` says that
  what counts, the bucket or else the row, is exact at every moment, and that a clean
  bucket is in its row; `DayZeroInv` that a row without bit 0 has a handler about to
  set it, and that day 0 and the users lacking it make up the cohort.
* `PartsAddUp`: a session's shares of its first and last day add up to its duration less
  the whole days between them, when twice the offset plus the probe falls within a day;
  `WestLosesAll`: a session of one day has no time on it when it falls in the day before.
  Together they are the general form of the run `session_offset`.
* `SessionsAddUpCorrect`: at rest, with nothing failed, the durable days hold every
  session handled: counted once, touching its first and its last day once, and all of
  its time but that of whole days between these. `AddInv` says that the row of a day is
  behind its bucket and equal to it when the bucket is clean, and that what the buckets
  count, less what is still owed, is what the sessions handled add up to.
* `PagesCorrect`: the pages of an open or flushed day show every session taken, flushed
  or not and none twice. `PerDayInv` says that each day holds what the sessions added
  to it; `ActInv` that who came is who is listed; `NewInv` that on the first day of a
  user the day lists the user, or a handler is about to; `ScarceInv` that the returns
  of a cohort and its rows that lack the day are no more than the cohort, so that no
  headline has more users back than its cohorts have.
* `ErasedCorrect`: an erased user who was not seen again, and whose days the erasure could
  see, has no spine row and is listed only on days that took a user after the erasure
  held them sealed. `EraseInv` follows a user not seen again from the
  enumeration on (`Fading`): no session of the user is at hand; the days of the bitmap
  are sealed once they were read and those of the lists once these were, and those of the
  buckets unless one was hidden; after the delete the row is gone and only a reopened day
  lists the user. `Reopening` adds that a sealed day has something to flush only by a user
  it took after its seal, and `Fresh` that a quiet re-scan holds the spine as it is.
  `Reopening` rests on the clock moving only when no bucket is dirty (see the bounds).

`SessionsAddUpCorrect` assumes of the constants only that the probe of a day falls in it,
which the run `session_offset` shows to be needed; it holds for every cap. `PagesCorrect`
and `ErasedCorrect` assume nothing of offset, cap or grace. Sums over
sets are recursions in the model; the proofs replace each by the size of a set with one
element for each unit of each term (`Units`, `RecIsSum`), on which set algebra works.
Every part of these invariants was checked by TLC on the instance of the run before it
was proved.

`ReportsStayWithin`, `SettlesToSpine`, `PagesCorrect` and `ErasedCorrect` are about
re-scans that run while nothing writes the spine (`QuietRescan`): without that they are
false, as `MCUserSpine_rescan` shows. The proof also found a union that
two parsers read in two ways, in `ActiveMembers`, now in parentheses, and two
alternatives of a `CASE` that overlapped, in `Receive` and the enumeration, which TLC
took in their order; they are exclusive now.

### ClientSdk_proofs

From the assumptions on the constants, for any events, storages and bounds on time,
kills and failures:

* `TypeCorrect`: the type invariant.
* `QueueHandsOver`: the SDK implements `EventHandoff`. `HandInv` adds what a batch under
  way relies on: the numbers in its hands are never given to another row, because a
  page numbers above every row that survived (the greatest element of a bounded set),
  and an enqueue that has not ended is nowhere yet.
* `WindowAbsorbs`: the server counts an event that is not money once, unless a beacon
  carried it past its age. `WindowInv` adds that a row young enough to be sent was
  taken, if at all, after it was enqueued, so that its marker is alive, and that no
  time passes while a request is under way.
* `EndsOnceCorrect`, `RecordCorrect`, `LostCorrect`: the three invariants of the session
  tracker, for any calls, sessions, kills and failures of storage. `SessionInv` says what
  the tracker relies on without a lock: a session that ends is in the hands of one task and
  in memory no more (`SessionsApart`), nothing but `init` runs before the page is up
  (`TasksInPhase`), a record of a session that is over has a task about to remove it, or a
  kill or a failed removal behind it (`EndsInv`), and a live session lacks its record only
  before the first write that took, or after another call took it (`RecordInv`).

Only model-checked: everything under fairness (`CatchesUp`, `SealedIsShipped`,
`SessionsEnd`, `QueueDrains`, `RowsSettle`), which is beyond the prover.

## 6. Not modelled

* The catalog's seen times and property types; the hash mode of the scrubber and
  the cap on property keys.
* Economy: the supply snapshot at the seal, supply and segment pages, the ranking
  of reasons.
* Monetization: local sums and the category of a cell (they move with revenue in
  the same scripts), `ReconciliationService`, which nothing calls outside its tests; a
  loss of Redis between two steps of a handler.
* GDPR: the statements that delete a subject's balances and rewrite purchase rows.
* Front door: the last-use stamp and its drain, the allow-list of clients.
* Secrets: the rotation script, which an operator runs by hand over rows nobody
  else writes at that time.
* Cold storage: the expiry of objects in the bucket (it deletes what is older than
  90 days and no property looks that far). Raw files: the drain of all writers at
  shutdown, which only leaves fewer torn frames.
* Client SDK: the session counter that `Mint` stores (an ordinal nothing here depends on);
  the session tracker on memory storage, whose record goes with the page, and the change of
  a later page to another storage; the consent switch and the debug sink.
* The panel, health probes, the operators' accounts and migrations, where no state has
  several actors.
