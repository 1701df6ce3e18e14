---------------------------- MODULE DayCountFlush ----------------------------
(***************************************************************************)
(* The counting path of the ingest worker: step 6 (windowed dedup) and     *)
(* step 8 (hot update) of the kernel for every record of a batch, the      *)
(* exception tally of a refused record, and the flush sweep that copies    *)
(* the hot Redis buckets into Postgres.                                    *)
(*                                                                         *)
(* Every await is a step of its own, so that records of one batch, batches *)
(* and sweeps interleave wherever the code lets go of the event loop.  One *)
(* Redis command, one Lua script, one MULTI and one SQL statement are      *)
(* atomic.                                                                 *)
(*                                                                         *)
(* A field of a hot hash that does not exist is the count 0, and so is a   *)
(* row that Postgres does not hold: floors and increments are positive.    *)
(***************************************************************************)
EXTENDS Naturals, Sequences

CONSTANTS
    Jobs,             \* BullMQ ingest-batch jobs
    Records,          \* deliveries of an event, each in one job
    Events,           \* event ids
    Buckets,          \* hot hashes: cnt:{day}, cnt:{day}:exc, cat:{name}
    Names,            \* fields of a hot hash
    Sweeps,           \* flush sweeps that may run at the same time
    JobOf, EventOf,   \* job and event id of a record
    Windowed,         \* records that pass the windowed dedup gate (step 6)
    Touches,          \* Touches[r]: the cells r increments, in order
    PlanOf,           \* flush plan of a bucket: "cnt", "exc" or "cat"
    Floors,           \* possible contents of Postgres at the start
    MaxCrashes,       \* bound: kills of the worker process
    MaxSweepFails,    \* bound: sweeps that end in an exception
    MaxRecordFails,   \* bound: records that end in an exception
    MaxLosses,        \* bound: losses of the whole Redis data set
    MaxFailures       \* bound: failures of any kind together

Plans == <<"cnt", "exc", "cat">>
Cells == Buckets \X Names

\* The registry a bucket is marked in: exc buckets share the cnt registry.
DomainOf(b) == IF PlanOf[b] = "cat" THEN "cat" ELSE "cnt"

ASSUME ConstantsAssumption ==
    /\ Buckets # {}
    /\ JobOf \in [Records -> Jobs]
    /\ EventOf \in [Records -> Events]
    /\ Windowed \subseteq Records
    /\ Touches \in [Records -> Seq(Cells)]
    /\ \A r \in Records :
         /\ Touches[r] # << >>
         /\ \A i, k \in DOMAIN Touches[r] :
              Touches[r][i][1] = Touches[r][k][1] => i = k
    /\ PlanOf \in [Buckets -> {"cnt", "exc", "cat"}]
    /\ Floors \subseteq [Buckets -> [Names -> Nat]]
    /\ MaxCrashes \in Nat /\ MaxSweepFails \in Nat
    /\ MaxRecordFails \in Nat /\ MaxLosses \in Nat /\ MaxFailures \in Nat

VARIABLES
    dedup,        \* Redis: events with a live dedup marker
    hot,          \* Redis: hot[b][n], the absolute count of a field
    seeded,       \* Redis: buckets that hold the seeded marker
    described,    \* Redis: buckets that hold the fields naming their row
    dirty,        \* Redis: dirty registry
    durable,      \* Postgres: durable[b][n], the published count
    pc,           \* pc[r]: where the record's handler is
    touch,        \* touch[r]: index in Touches[r] of the cell in hand
    floor,        \* floor[r]: durable counts read for the bucket in hand
    settled,      \* jobs BullMQ no longer holds
    spc,          \* spc[s]: where the sweep is
    batch,        \* batch[s]: drained buckets not looked at yet
    cur,          \* cur[s]: bucket in hand (any bucket when there is none)
    snap,         \* snap[s]: counts read by HGETALL
    rows,         \* rows[s]: names whose row is not upserted yet
    base,         \* history: durable at the start
    incs,         \* history: incs[b][n], increments of a cell
    hits,         \* history: hits[e][b], increments of b by event e
    crashes, sweepFails, recordFails, losses   \* history: failures so far

redis    == <<dedup, hot, seeded, described, dirty>>
handlers == <<pc, touch, floor, settled>>
sweepers == <<spc, batch, cur, snap, rows>>
failures == <<crashes, sweepFails, recordFails, losses>>
vars == <<redis, durable, handlers, sweepers, base, incs, hits, failures>>

NoCounts == [n \in Names |-> 0]
Bucket(r) == Touches[r][touch[r]][1]
Name(r)   == Touches[r][touch[r]][2]
Greatest(x, y) == IF x < y THEN y ELSE x

Failures == crashes + sweepFails + recordFails + losses

InHandler == {"floor", "check", "seed", "incr", "describe", "mark"}

Init ==
    /\ dedup = {} /\ seeded = {} /\ described = {} /\ dirty = {}
    /\ hot = [b \in Buckets |-> NoCounts]
    /\ base \in Floors /\ durable = base
    /\ pc = [r \in Records |-> "absent"]
    /\ touch = [r \in Records |-> 1]
    /\ floor = [r \in Records |-> NoCounts]
    /\ settled = {}
    /\ spc = [s \in Sweeps |-> "idle"]
    /\ batch = [s \in Sweeps |-> {}]
    /\ cur \in [Sweeps -> {CHOOSE b \in Buckets : TRUE}]
    /\ snap = [s \in Sweeps |-> NoCounts]
    /\ rows = [s \in Sweeps |-> {}]
    /\ incs = [b \in Buckets |-> NoCounts]
    /\ hits = [e \in Events |-> [b \in Buckets |-> 0]]
    /\ crashes = 0 /\ sweepFails = 0 /\ recordFails = 0 /\ losses = 0

-----------------------------------------------------------------------------
(* The handler of one record *)

\* The front door adds the job; its records become deliverable together.
Enqueue(j) ==
    /\ \A r \in Records : JobOf[r] = j => pc[r] = "absent"
    /\ j \notin settled
    /\ \E r \in Records : JobOf[r] = j
    /\ pc' = [r \in Records |-> IF JobOf[r] = j THEN "queued" ELSE pc[r]]
    /\ UNCHANGED <<redis, durable, touch, floor, settled, sweepers, base, incs,
                   hits, failures>>

\* Mutated form of Claim: SET without NX, so no delivery is ever a duplicate.
ClaimWithoutNX(r) ==
    /\ pc[r] = "queued"
    /\ touch' = [touch EXCEPT ![r] = 1]
    /\ pc' = [pc EXCEPT ![r] = "floor"]
    /\ dedup' = IF r \in Windowed THEN dedup \cup {EventOf[r]} ELSE dedup
    /\ UNCHANGED <<hot, seeded, described, dirty, durable, floor, settled,
                   sweepers, base, incs, hits, failures>>

\* Step 6, SET NX EX: the first delivery goes on, a duplicate stops.  A record
\* refused earlier has no gate: it goes straight to its exception tally.
Claim(r) ==
    /\ pc[r] = "queued"
    /\ touch' = [touch EXCEPT ![r] = 1]
    /\ IF r \in Windowed /\ EventOf[r] \in dedup
         THEN /\ pc' = [pc EXCEPT ![r] = "done"]
              /\ UNCHANGED dedup
         ELSE /\ pc' = [pc EXCEPT ![r] = "floor"]
              /\ dedup' = IF r \in Windowed THEN dedup \cup {EventOf[r]} ELSE dedup
    /\ UNCHANGED <<hot, seeded, described, dirty, durable, floor, settled,
                   sweepers, base, incs, hits, failures>>

\* The durable floor is read before, and whatever, the seeded marker says.
ReadFloor(r) ==
    /\ pc[r] = "floor"
    /\ floor' = [floor EXCEPT ![r] = durable[Bucket(r)]]
    /\ pc' = [pc EXCEPT ![r] = "check"]
    /\ UNCHANGED <<redis, durable, touch, settled, sweepers, base, incs, hits,
                   failures>>

CheckSeeded(r) ==
    /\ pc[r] = "check"
    /\ pc' = [pc EXCEPT ![r] = IF Bucket(r) \in seeded THEN "incr" ELSE "seed"]
    /\ UNCHANGED <<redis, durable, touch, floor, settled, sweepers, base, incs,
                   hits, failures>>

\* Mutated form of SeedIfAbsent: HINCRBY of the floor.
SeedByAdding(counts, fl) == [n \in Names |-> counts[n] + fl[n]]
\* MULTI: HSETNX of every floor field, then the marker.
SeedIfAbsent(counts, fl) == [n \in Names |-> IF counts[n] = 0 THEN fl[n] ELSE counts[n]]

SeedBucket(r) ==
    /\ pc[r] = "seed"
    /\ hot' = [hot EXCEPT ![Bucket(r)] = SeedIfAbsent(@, floor[r])]
    /\ seeded' = seeded \cup {Bucket(r)}
    /\ pc' = [pc EXCEPT ![r] = "incr"]
    /\ UNCHANGED <<dedup, described, dirty, durable, touch, floor, settled,
                   sweepers, base, incs, hits, failures>>

\* HINCRBY of a cnt or exc hash; for a cat hash the merge script, which also
\* writes the fields that name the row.
Increment(r) ==
    LET b == Bucket(r)
        n == Name(r)
    IN  /\ pc[r] = "incr"
        /\ hot' = [hot EXCEPT ![b][n] = @ + 1]
        /\ described' = IF PlanOf[b] = "cat" THEN described \cup {b} ELSE described
        /\ incs' = [incs EXCEPT ![b][n] = @ + 1]
        /\ hits' = [hits EXCEPT ![EventOf[r]][b] = @ + 1]
        /\ pc' = [pc EXCEPT ![r] = IF PlanOf[b] = "exc" THEN "describe" ELSE "mark"]
        /\ UNCHANGED <<dedup, seeded, dirty, durable, touch, floor, settled,
                       sweepers, base, failures>>

\* The exception tally names its row by HSETNX after the increment.
Describe(r) ==
    /\ pc[r] = "describe"
    /\ described' = described \cup {Bucket(r)}
    /\ pc' = [pc EXCEPT ![r] = "mark"]
    /\ UNCHANGED <<dedup, hot, seeded, dirty, durable, touch, floor, settled,
                   sweepers, base, incs, hits, failures>>

\* SADD of the bucket; then the next cell of the record, or the end.
MarkDirty(r) ==
    /\ pc[r] = "mark"
    /\ dirty' = dirty \cup {Bucket(r)}
    /\ IF touch[r] < Len(Touches[r])
         THEN /\ touch' = [touch EXCEPT ![r] = @ + 1]
              /\ pc' = [pc EXCEPT ![r] = "floor"]
         ELSE /\ pc' = [pc EXCEPT ![r] = "done"]
              /\ UNCHANGED touch
    /\ UNCHANGED <<dedup, hot, seeded, described, durable, floor, settled,
                   sweepers, base, incs, hits, failures>>

\* processOne catches whatever the handler throws: the record just ends.
RecordFail(r) ==
    /\ recordFails < MaxRecordFails /\ Failures < MaxFailures
    /\ pc[r] \in InHandler \cup {"queued"}
    /\ recordFails' = recordFails + 1
    /\ pc' = [pc EXCEPT ![r] = "done"]
    /\ UNCHANGED <<redis, durable, touch, floor, settled, sweepers, base, incs,
                   hits, crashes, sweepFails, losses>>

\* processBatch returns when every record has ended: BullMQ drops the job.
AckJob(j) ==
    /\ j \notin settled
    /\ \E r \in Records : JobOf[r] = j
    /\ \A r \in Records : JobOf[r] = j => pc[r] = "done"
    /\ settled' = settled \cup {j}
    /\ UNCHANGED <<redis, durable, pc, touch, floor, sweepers, base, incs, hits,
                   failures>>

-----------------------------------------------------------------------------
(* The flush sweep *)

AfterBucket(left) == IF left = {} THEN "idle" ELSE "check"

\* DRAIN_LUA on the cnt registry: snapshot and clear in one script.
SweepDrainCnt(s) ==
    LET drained == {b \in dirty : DomainOf(b) = "cnt"}
    IN  /\ spc[s] = "idle"
        /\ batch' = [batch EXCEPT ![s] = drained]
        /\ dirty' = dirty \ drained
        /\ spc' = [spc EXCEPT ![s] = "drainCat"]
        /\ UNCHANGED <<dedup, hot, seeded, described, durable, handlers, cur,
                       snap, rows, base, incs, hits, failures>>

\* Mutated form of SweepDrainCat: deletes the other registry as well.
SweepDrainCatAndClear(s) ==
    LET drained == {b \in dirty : DomainOf(b) = "cat"}
    IN  /\ spc[s] = "drainCat"
        /\ batch' = [batch EXCEPT ![s] = @ \cup drained]
        /\ dirty' = {}
        /\ spc' = [spc EXCEPT ![s] = AfterBucket(batch[s] \cup drained)]
        /\ UNCHANGED <<dedup, hot, seeded, described, durable, handlers, cur,
                       snap, rows, base, incs, hits, failures>>

SweepDrainCat(s) ==
    LET drained == {b \in dirty : DomainOf(b) = "cat"}
    IN  /\ spc[s] = "drainCat"
        /\ batch' = [batch EXCEPT ![s] = @ \cup drained]
        /\ dirty' = dirty \ drained
        /\ spc' = [spc EXCEPT ![s] = AfterBucket(batch[s] \cup drained)]
        /\ UNCHANGED <<dedup, hot, seeded, described, durable, handlers, cur,
                       snap, rows, base, incs, hits, failures>>

\* The sweep runs the plans in order: every cnt bucket, then exc, then cat.
DueNow(s) ==
    {b \in batch[s] : \A c \in batch[s] :
        \A i, k \in 1..3 : Plans[i] = PlanOf[b] /\ Plans[k] = PlanOf[c] => i <= k}

\* A bucket without the marker is put back, one with it is read.
SweepCheck(s) ==
    /\ spc[s] = "check"
    /\ \E b \in DueNow(s) :
         /\ cur' = [cur EXCEPT ![s] = b]
         /\ batch' = [batch EXCEPT ![s] = @ \ {b}]
         /\ spc' = [spc EXCEPT ![s] = IF b \in seeded THEN "read" ELSE "remark"]
    /\ UNCHANGED <<redis, durable, handlers, snap, rows, base, incs, hits,
                   failures>>

SweepRemark(s) ==
    /\ spc[s] = "remark"
    /\ dirty' = dirty \cup {cur[s]}
    /\ spc' = [spc EXCEPT ![s] = AfterBucket(batch[s])]
    /\ UNCHANGED <<dedup, hot, seeded, described, durable, handlers, batch, cur,
                   snap, rows, base, incs, hits, failures>>

\* The rows a hash projects to: none while the fields naming them are missing.
Project(b, counts) ==
    IF PlanOf[b] = "cnt" \/ b \in described THEN {n \in Names : counts[n] > 0} ELSE {}

\* HGETALL, and the projection of what it returned.
SweepRead(s) ==
    LET todo == Project(cur[s], hot[cur[s]])
    IN  /\ spc[s] = "read"
        /\ snap' = [snap EXCEPT ![s] = hot[cur[s]]]
        /\ rows' = [rows EXCEPT ![s] = todo]
        /\ spc' = [spc EXCEPT ![s] = IF todo = {} THEN AfterBucket(batch[s]) ELSE "upsert"]
        /\ UNCHANGED <<redis, durable, handlers, batch, cur, base, incs, hits,
                       failures>>

\* Mutated form of MergeCount: an added delta.
MergeByAdding(target, excluded) == target + excluded

\* One row: INSERT ... ON CONFLICT DO UPDATE SET count = GREATEST(both).
MergeCount(target, excluded) == Greatest(target, excluded)

SweepUpsert(s) ==
    /\ spc[s] = "upsert"
    /\ \E n \in rows[s] :
         /\ durable' = [durable EXCEPT ![cur[s]][n] = MergeCount(@, snap[s][n])]
         /\ rows' = [rows EXCEPT ![s] = @ \ {n}]
         /\ spc' = [spc EXCEPT ![s] =
                      IF rows[s] = {n} THEN AfterBucket(batch[s]) ELSE "upsert"]
    /\ UNCHANGED <<redis, handlers, batch, cur, snap, base, incs, hits, failures>>

\* A Redis or Postgres error leaves the sweep: what it drained is dropped.
SweepFail(s) ==
    /\ sweepFails < MaxSweepFails /\ Failures < MaxFailures
    /\ spc[s] # "idle"
    /\ sweepFails' = sweepFails + 1
    /\ spc' = [spc EXCEPT ![s] = "idle"]
    /\ batch' = [batch EXCEPT ![s] = {}]
    /\ rows' = [rows EXCEPT ![s] = {}]
    /\ UNCHANGED <<redis, durable, handlers, cur, snap, base, incs, hits,
                   crashes, recordFails, losses>>

-----------------------------------------------------------------------------
(* Failures of the process and of Redis *)

\* The worker process dies.  Handlers and sweeps are gone; BullMQ delivers the
\* jobs it still holds once more, the records that had ended included.
Crash ==
    /\ crashes < MaxCrashes /\ Failures < MaxFailures
    /\ crashes' = crashes + 1
    /\ pc' = [r \in Records |->
                IF pc[r] = "absent" \/ JobOf[r] \in settled THEN pc[r] ELSE "queued"]
    /\ spc' = [s \in Sweeps |-> "idle"]
    /\ batch' = [s \in Sweeps |-> {}]
    /\ rows' = [s \in Sweeps |-> {}]
    /\ UNCHANGED <<redis, durable, touch, floor, settled, cur, snap, base, incs,
                   hits, sweepFails, recordFails, losses>>

\* Redis comes back empty while the worker lives: the queue is empty too, but
\* handlers and sweeps go on from what they hold.
RedisLoss ==
    /\ losses < MaxLosses /\ Failures < MaxFailures
    /\ losses' = losses + 1
    /\ dedup' = {} /\ seeded' = {} /\ described' = {} /\ dirty' = {}
    /\ hot' = [b \in Buckets |-> NoCounts]
    /\ pc' = [r \in Records |-> IF pc[r] = "queued" THEN "done" ELSE pc[r]]
    /\ settled' = settled \cup {j \in Jobs : \E r \in Records : JobOf[r] = j /\ pc[r] # "absent"}
    /\ UNCHANGED <<durable, touch, floor, sweepers, base, incs, hits, crashes,
                   sweepFails, recordFails>>

-----------------------------------------------------------------------------
RecordStep(r) == \/ Claim(r) \/ ReadFloor(r) \/ CheckSeeded(r) \/ SeedBucket(r)
                 \/ Increment(r) \/ Describe(r) \/ MarkDirty(r)

SweepStep(s) == \/ SweepDrainCnt(s) \/ SweepDrainCat(s) \/ SweepCheck(s)
                \/ SweepRemark(s) \/ SweepRead(s) \/ SweepUpsert(s)

Next == \/ \E j \in Jobs : Enqueue(j) \/ AckJob(j)
        \/ \E r \in Records : RecordStep(r) \/ RecordFail(r)
        \/ \E s \in Sweeps : SweepStep(s) \/ SweepFail(s)
        \/ Crash
        \/ RedisLoss

Spec == Init /\ [][Next]_vars

\* The event loop runs every handler it holds, and the repeatable job starts
\* sweeps for as long as the process lives.
Fairness == /\ \A r \in Records : WF_vars(RecordStep(r))
            /\ \A s \in Sweeps : WF_vars(SweepStep(s))

FairSpec == Spec /\ Fairness

-----------------------------------------------------------------------------
(* Properties *)

\* Every variable keeps its type.
TypeOK ==
    /\ dedup \subseteq Events
    /\ hot \in [Buckets -> [Names -> Nat]]
    /\ seeded \subseteq Buckets /\ described \subseteq Buckets /\ dirty \subseteq Buckets
    /\ durable \in [Buckets -> [Names -> Nat]]
    /\ pc \in [Records -> InHandler \cup {"absent", "queued", "done"}]
    /\ touch \in [Records -> Nat]
    /\ \A r \in Records : touch[r] \in DOMAIN Touches[r]
    /\ floor \in [Records -> [Names -> Nat]]
    /\ settled \subseteq Jobs
    /\ spc \in [Sweeps -> {"idle", "drainCat", "check", "remark", "read", "upsert"}]
    /\ batch \in [Sweeps -> SUBSET Buckets]
    /\ cur \in [Sweeps -> Buckets]
    /\ snap \in [Sweeps -> [Names -> Nat]]
    /\ rows \in [Sweeps -> SUBSET Names]
    /\ base \in [Buckets -> [Names -> Nat]]
    /\ incs \in [Buckets -> [Names -> Nat]]
    /\ hits \in [Events -> [Buckets -> Nat]]
    /\ crashes \in Nat /\ sweepFails \in Nat /\ recordFails \in Nat /\ losses \in Nat

\* What was durable at the start and every increment since.
Counted == [b \in Buckets |-> [n \in Names |-> base[b][n] + incs[b][n]]]

\* Whatever crashes, fails or is lost, and however sweeps overlap, Postgres
\* never shows more than was counted: no floor is added twice by the rehydrate
\* and no delta is flushed twice (rehydrate.ts, flush.service.ts header).
PublishedWithinCounted ==
    \A b \in Buckets, n \in Names : durable[b][n] <= Counted[b][n]

\* While Redis keeps its data, redelivery after a crash and a second copy of
\* the event never count it twice in a bucket (dedup.ts: an undercount at most).
AtMostOnce ==
    losses = 0 =>
      \A e \in Events : (\A r \in Records : EventOf[r] = e => r \in Windowed)
                           => \A b \in Buckets : hits[e][b] <= 1

\* While Redis keeps its data, a seeded bucket holds exactly the durable floor
\* plus the increments, whichever handlers raced to seed it; an unseeded one
\* holds nothing.  So a flush never lowers nor loses part of a count.
HotExact ==
    losses = 0 =>
      \A b \in Buckets :
        hot[b] = IF b \in seeded THEN Counted[b] ELSE NoCounts

\* A count above its row is on its way to Postgres: the bucket is registered,
\* a sweep will still read it or is about to write this very value, or the
\* handler that raised it is about to register it.
OnItsWay(b, n) ==
    \/ b \in dirty
    \/ \E s \in Sweeps :
         \/ b \in batch[s]
         \/ cur[s] = b /\ spc[s] \in {"remark", "read"}
         \/ cur[s] = b /\ spc[s] = "upsert" /\ n \in rows[s] /\ snap[s][n] = hot[b][n]
    \/ \E r \in Records : pc[r] \in {"describe", "mark"} /\ Bucket(r) = b

NothingForgotten ==
    \A b \in Buckets, n \in Names : durable[b][n] < hot[b][n] => OnItsWay(b, n)

\* Where no process dies and nothing throws, a count that is not published is
\* never left behind: a mark during a sweep lands in the next one
\* (dirty-registry.ts header).
NothingForgottenWithoutFailure ==
    crashes = 0 /\ sweepFails = 0 /\ recordFails = 0 /\ losses = 0 => NothingForgotten

\* A published figure never goes down, an overlapping or repeated sweep with an
\* older snapshot included (flush.service.ts: a no-op on retry).
DurableMonotone ==
    [][\A b \in Buckets, n \in Names : durable[b][n] <= durable'[b][n]]_vars

\* Once traffic stops, the flush catches up with every count.
CatchesUp == <>[](durable = Counted)

\* The pipeline implements the abstract promise.
Published == INSTANCE PublishedCount WITH total <- Counted, published <- durable
ImplementsPublishedCount == Published!Spec
=============================================================================
