------------------------ MODULE DayCountFlush_proofs ------------------------
(***************************************************************************)
(* Theorems about DayCountFlush, and about DashboardRead which reads it,   *)
(* for every set of jobs, records, buckets, names, sweeps and pages and    *)
(* every bound on the failures.                                            *)
(***************************************************************************)
EXTENDS DashboardRead, TLAPS

-----------------------------------------------------------------------------
(* Type correctness *)

LEMMA TypeInit == Init => TypeOK
  BY ConstantsAssumption DEF Init, TypeOK, NoCounts, InHandler

\* Raising one cell of a table of counts gives a table of counts.
LEMMA CellUpdate ==
    ASSUME NEW f \in [Buckets -> [Names -> Nat]],
           NEW b \in Buckets, NEW n \in Names, NEW v \in Nat
    PROVE  /\ [f EXCEPT ![b][n] = v] \in [Buckets -> [Names -> Nat]]
           /\ [f EXCEPT ![b][n] = @ + 1] \in [Buckets -> [Names -> Nat]]
           /\ \A c \in Buckets, m \in Names :
                [f EXCEPT ![b][n] = v][c][m] = IF c = b /\ m = n THEN v ELSE f[c][m]
           /\ \A c \in Buckets, m \in Names :
                [f EXCEPT ![b][n] = @ + 1][c][m] =
                  IF c = b /\ m = n THEN f[c][m] + 1 ELSE f[c][m]
  OBVIOUS

\* The handler of a record keeps the types.
LEMMA TypeRecord ==
    ASSUME TypeOK, NEW r \in Records, RecordStep(r) \/ RecordFail(r)
    PROVE  TypeOK'
<1> USE ConstantsAssumption DEF InHandler, sweepers, failures, handlers, redis
<1>0. /\ Touches[r] \in Seq(Cells)
      /\ touch[r] \in 1 .. Len(Touches[r])
      /\ Touches[r][touch[r]] \in Buckets \X Names
  <2>1. Touches[r] \in Seq(Cells)
    OBVIOUS
  <2>2. touch[r] \in DOMAIN Touches[r]
    BY DEF TypeOK
  <2>3. \A q \in Seq(Cells) : \A k \in DOMAIN q : k \in 1 .. Len(q) /\ q[k] \in Cells
    OBVIOUS
  <2>4. touch[r] \in 1 .. Len(Touches[r]) /\ Touches[r][touch[r]] \in Cells
    BY <2>1, <2>2, <2>3
  <2>5. QED
    BY <2>1, <2>4 DEF Cells
<1>1. Bucket(r) \in Buckets /\ Name(r) \in Names
  BY <1>0 DEF Bucket, Name
<1>2. CASE Claim(r)
  <2>1. 1 \in DOMAIN Touches[r]
    BY DEF TypeOK
  <2>2. touch' \in [Records -> Nat] /\ \A q \in Records : touch'[q] \in DOMAIN Touches[q]
    BY <1>2, <2>1 DEF Claim, TypeOK
  <2>3. dedup' \subseteq Events
    BY <1>2 DEF Claim, TypeOK
  <2>4. pc' \in [Records -> InHandler \cup {"absent", "queued", "done"}]
    <3>1. \E v \in {"floor", "done"} : pc' = [pc EXCEPT ![r] = v]
      BY <1>2 DEF Claim
    <3>2. QED
      BY <3>1 DEF TypeOK
  <2>5. QED
    BY <1>2, <2>2, <2>3, <2>4 DEF Claim, TypeOK
<1>3. CASE ReadFloor(r)
  BY <1>3, <1>1 DEF ReadFloor, TypeOK
<1>4. CASE CheckSeeded(r)
  BY <1>4 DEF CheckSeeded, TypeOK
<1>5. CASE SeedBucket(r)
  BY <1>5, <1>1 DEF SeedBucket, SeedIfAbsent, TypeOK
<1>6. CASE Increment(r)
  <2>1. /\ hot' \in [Buckets -> [Names -> Nat]]
        /\ incs' \in [Buckets -> [Names -> Nat]]
    <3>1. /\ hot' = [hot EXCEPT ![Bucket(r)][Name(r)] = @ + 1]
          /\ incs' = [incs EXCEPT ![Bucket(r)][Name(r)] = @ + 1]
      BY <1>6 DEF Increment
    <3>2. QED
      BY <3>1, <1>1, CellUpdate DEF TypeOK
  <2>2. hits' \in [Events -> [Buckets -> Nat]]
    BY <1>6, <1>1, SMTT(30) DEF Increment, TypeOK
  <2>3. described' \subseteq Buckets
    BY <1>6, <1>1 DEF Increment, TypeOK
  <2>4. pc' \in [Records -> InHandler \cup {"absent", "queued", "done"}]
    BY <1>6 DEF Increment, TypeOK
  <2>5. QED
    BY <1>6, <2>1, <2>2, <2>3, <2>4 DEF Increment, TypeOK
<1>7. CASE Describe(r)
  BY <1>7, <1>1 DEF Describe, TypeOK
<1>8. CASE MarkDirty(r)
  <2>1. dirty' \subseteq Buckets
    BY <1>8, <1>1 DEF MarkDirty, TypeOK
  <2>2. Len(Touches[r]) \in Nat /\ DOMAIN Touches[r] = 1 .. Len(Touches[r])
    BY <1>0
  <2>3. /\ touch' \in [Records -> Nat]
        /\ \A q \in Records : touch'[q] \in DOMAIN Touches[q]
    <3>1. CASE touch[r] < Len(Touches[r])
      <4>1. touch' = [touch EXCEPT ![r] = @ + 1] /\ touch[r] + 1 \in DOMAIN Touches[r]
        BY <1>8, <1>0, <2>2, <3>1 DEF MarkDirty
      <4>2. QED
        BY <4>1, <2>2 DEF TypeOK
    <3>2. CASE ~(touch[r] < Len(Touches[r]))
      BY <1>8, <3>2 DEF MarkDirty, TypeOK
    <3>3. QED
      BY <3>1, <3>2
  <2>4. pc' \in [Records -> InHandler \cup {"absent", "queued", "done"}]
    <3>1. \E v \in {"floor", "done"} : pc' = [pc EXCEPT ![r] = v]
      BY <1>8 DEF MarkDirty
    <3>2. QED
      BY <3>1 DEF TypeOK
  <2>5. QED
    BY <1>8, <2>1, <2>3, <2>4 DEF MarkDirty, TypeOK
<1>9. CASE RecordFail(r)
  BY <1>9 DEF RecordFail, TypeOK
<1>10. QED
  BY <1>2, <1>3, <1>4, <1>5, <1>6, <1>7, <1>8, <1>9 DEF RecordStep

\* A flush sweep keeps the types.
LEMMA TypeSweep ==
    ASSUME TypeOK, NEW s \in Sweeps, SweepStep(s) \/ SweepFail(s)
    PROVE  TypeOK'
<1> USE ConstantsAssumption DEF sweepers, failures, handlers, redis
<1>1. DueNow(s) \subseteq Buckets /\ cur[s] \in Buckets /\ batch[s] \subseteq Buckets
  BY DEF DueNow, TypeOK
<1>2. CASE SweepDrainCnt(s)
  BY <1>2 DEF SweepDrainCnt, TypeOK
<1>3. CASE SweepDrainCat(s)
  BY <1>3, <1>1 DEF SweepDrainCat, AfterBucket, TypeOK
<1>4. CASE SweepCheck(s)
  BY <1>4, <1>1 DEF SweepCheck, TypeOK
<1>5. CASE SweepRemark(s)
  BY <1>5, <1>1 DEF SweepRemark, AfterBucket, TypeOK
<1>6. CASE SweepRead(s)
  BY <1>6, <1>1 DEF SweepRead, Project, AfterBucket, TypeOK
<1>7. CASE SweepUpsert(s)
  <2>1. PICK n \in rows[s] :
          /\ durable' = [durable EXCEPT ![cur[s]][n] = MergeCount(@, snap[s][n])]
          /\ rows' = [rows EXCEPT ![s] = @ \ {n}]
          /\ spc' = [spc EXCEPT ![s] =
                       IF rows[s] = {n} THEN AfterBucket(batch[s]) ELSE "upsert"]
    BY <1>7 DEF SweepUpsert
  <2>2. /\ n \in Names
        /\ durable[cur[s]][n] \in Nat
        /\ snap[s][n] \in Nat
    BY <1>1 DEF TypeOK
  <2>3. /\ MergeCount(durable[cur[s]][n], snap[s][n]) \in Nat
        /\ durable' = [durable EXCEPT ![cur[s]][n] =
                         MergeCount(durable[cur[s]][n], snap[s][n])]
    BY <2>1, <2>2, <1>1 DEF MergeCount, Greatest, TypeOK
  <2>4. durable' \in [Buckets -> [Names -> Nat]]
    BY <2>2, <2>3, <1>1, CellUpdate DEF TypeOK
  <2>5. QED
    BY <1>7, <2>1, <2>4 DEF SweepUpsert, AfterBucket, TypeOK
<1>8. CASE SweepFail(s)
  BY <1>8 DEF SweepFail, TypeOK
<1>9. QED
  BY <1>2, <1>3, <1>4, <1>5, <1>6, <1>7, <1>8 DEF SweepStep

\* The queue, a crash and a loss of Redis keep the types.
LEMMA TypeRest ==
    ASSUME TypeOK, (\E j \in Jobs : Enqueue(j) \/ AckJob(j)) \/ Crash \/ RedisLoss
    PROVE  TypeOK'
<1> USE ConstantsAssumption DEF sweepers, failures, handlers, redis, InHandler
<1>1. ASSUME NEW j \in Jobs, Enqueue(j)
      PROVE  TypeOK'
  BY <1>1 DEF Enqueue, TypeOK
<1>2. ASSUME NEW j \in Jobs, AckJob(j)
      PROVE  TypeOK'
  BY <1>2 DEF AckJob, TypeOK
<1>3. CASE Crash
  BY <1>3 DEF Crash, TypeOK
<1>4. CASE RedisLoss
  BY <1>4 DEF RedisLoss, NoCounts, TypeOK
<1>5. QED
  BY <1>1, <1>2, <1>3, <1>4

LEMMA TypeNext == TypeOK /\ [Next]_vars => TypeOK'
<1> SUFFICES ASSUME TypeOK, [Next]_vars
             PROVE  TypeOK'
  OBVIOUS
<1>1. CASE UNCHANGED vars
  BY <1>1 DEF vars, redis, handlers, sweepers, failures, TypeOK
<1>2. CASE Next
  BY <1>2, TypeRecord, TypeSweep, TypeRest DEF Next
<1>3. QED
  BY <1>1, <1>2

\* Every variable keeps its type in every behaviour of the counting path.
THEOREM TypeCorrect == Spec => []TypeOK
<1>1. Init => TypeOK
  BY TypeInit
<1>2. TypeOK /\ [Next]_vars => TypeOK'
  BY TypeNext
<1>3. QED
  BY <1>1, <1>2, PTL DEF Spec

-----------------------------------------------------------------------------
(* Published counts stay within what was counted *)

Within(counts, b) == \A n \in Names : counts[n] <= base[b][n] + incs[b][n]

\* The bound is not inductive on its own: it has to hold of every copy of a
\* count on its way to Postgres, the floor a handler is about to seed with and
\* the snapshot a sweep is writing included.
Bounded ==
    /\ \A b \in Buckets : Within(durable[b], b) /\ Within(hot[b], b)
    /\ \A r \in Records : pc[r] \in {"check", "seed"} => Within(floor[r], Bucket(r))
    /\ \A s \in Sweeps : spc[s] = "upsert" => Within(snap[s], cur[s])

LEMMA BoundedInit == Init => Bounded
  BY ConstantsAssumption DEF Init, Bounded, Within, NoCounts

\* The cell in hand of a record is a cell.
LEMMA CellInHand ==
    ASSUME TypeOK, NEW r \in Records
    PROVE  Bucket(r) \in Buckets /\ Name(r) \in Names
<1>1. Touches[r] \in Seq(Cells)
  BY ConstantsAssumption
<1>2. touch[r] \in DOMAIN Touches[r]
  BY DEF TypeOK
<1>3. \A q \in Seq(Cells) : \A k \in DOMAIN q : q[k] \in Cells
  OBVIOUS
<1>4. QED
  BY <1>1, <1>2, <1>3 DEF Cells, Bucket, Name

\* What was counted never shrinks, and the start is remembered.
LEMMA CountedGrows ==
    ASSUME TypeOK, Next
    PROVE  /\ base' = base
           /\ \A b \in Buckets, n \in Names : incs[b][n] <= incs'[b][n]
<1>0. \A b \in Buckets, n \in Names : incs[b][n] \in Nat
  BY DEF TypeOK
<1>1. ASSUME NEW r \in Records, RecordStep(r) \/ RecordFail(r)
      PROVE  /\ base' = base
             /\ \A b \in Buckets, n \in Names : incs[b][n] <= incs'[b][n]
  <2>1. CASE Increment(r)
    <3>1. base' = base /\ incs' = [incs EXCEPT ![Bucket(r)][Name(r)] = @ + 1]
      BY <2>1 DEF Increment
    <3>2. QED
      BY <3>1, <1>0, CellInHand, CellUpdate DEF TypeOK
  <2>2. CASE ~Increment(r)
    <3>1. base' = base /\ incs' = incs
      BY <1>1, <2>2 DEF RecordStep, RecordFail, Claim, ReadFloor, CheckSeeded,
                        SeedBucket, Describe, MarkDirty
    <3>2. QED
      BY <3>1, <1>0
  <2>3. QED
    BY <2>1, <2>2
<1>2. ASSUME \/ \E j \in Jobs : Enqueue(j) \/ AckJob(j)
             \/ \E s \in Sweeps : SweepStep(s) \/ SweepFail(s)
             \/ Crash
             \/ RedisLoss
      PROVE  base' = base /\ incs' = incs
  BY <1>2 DEF Enqueue, AckJob, Crash, RedisLoss, SweepStep, SweepFail,
              SweepDrainCnt, SweepDrainCat, SweepCheck, SweepRemark, SweepRead,
              SweepUpsert
<1>3. QED
  BY <1>0, <1>1, <1>2 DEF Next

\* A count that was within bounds stays there when no one writes it.
LEMMA WithinStays ==
    ASSUME TypeOK, Next, NEW f \in [Names -> Nat], NEW b \in Buckets, Within(f, b)
    PROVE  \A n \in Names : f[n] <= base'[b][n] + incs'[b][n]
<1>1. \A n \in Names : /\ base'[b][n] = base[b][n]
                       /\ incs[b][n] <= incs'[b][n]
  BY CountedGrows
<1>2. \A n \in Names : incs[b][n] \in Nat /\ base[b][n] \in Nat /\ incs'[b][n] \in Nat
  BY TypeNext DEF TypeOK
<1>3. QED
  BY <1>1, <1>2 DEF Within

\* What a handler writes is within bounds.
LEMMA BoundedRecord ==
    ASSUME TypeOK, Bounded, Next, NEW r \in Records, RecordStep(r) \/ RecordFail(r)
    PROVE  Bounded'
<1> DEFINE Top(b, n) == base'[b][n] + incs'[b][n]
<1>1. Bucket(r) \in Buckets /\ Name(r) \in Names
  BY CellInHand
<1>2. TypeOK'
  BY TypeNext
<1>3. \A f \in [Names -> Nat], b \in Buckets :
        Within(f, b) => \A n \in Names : f[n] <= Top(b, n)
  BY WithinStays
<1>4. /\ UNCHANGED <<durable, spc, snap, cur>>
      /\ \A q \in Records : q # r => pc'[q] = pc[q] /\ touch'[q] = touch[q] /\ floor'[q] = floor[q]
  BY DEF RecordStep, RecordFail, Claim, ReadFloor, CheckSeeded, SeedBucket,
         Increment, Describe, MarkDirty, sweepers, TypeOK
<1>5. \A b \in Buckets, n \in Names : durable'[b][n] <= Top(b, n)
  BY <1>3, <1>4 DEF Bounded, TypeOK
<1>6. \A s \in Sweeps : spc'[s] = "upsert" => \A n \in Names : snap'[s][n] <= Top(cur'[s], n)
  BY <1>3, <1>4 DEF Bounded, TypeOK
<1>7. \A b \in Buckets, n \in Names : hot'[b][n] <= Top(b, n)
  <2>1. CASE SeedBucket(r)
    <3>1. /\ Within(floor[r], Bucket(r)) /\ floor[r] \in [Names -> Nat]
          /\ \A b \in Buckets : Within(hot[b], b) /\ hot[b] \in [Names -> Nat]
      BY <2>1 DEF SeedBucket, Bounded, TypeOK
    <3>2. \A b \in Buckets, n \in Names :
            \/ hot'[b][n] = hot[b][n]
            \/ b = Bucket(r) /\ hot'[b][n] = floor[r][n]
      BY <2>1, <1>1 DEF SeedBucket, SeedIfAbsent, TypeOK
    <3>3. QED
      BY <3>1, <3>2, <1>3
  <2>2. CASE Increment(r)
    <3>1. /\ hot' = [hot EXCEPT ![Bucket(r)][Name(r)] = @ + 1]
          /\ incs' = [incs EXCEPT ![Bucket(r)][Name(r)] = @ + 1]
          /\ base' = base
      BY <2>2 DEF Increment
    <3>2. \A b \in Buckets, n \in Names :
            \/ hot'[b][n] = hot[b][n] /\ incs'[b][n] = incs[b][n]
            \/ hot'[b][n] = hot[b][n] + 1 /\ incs'[b][n] = incs[b][n] + 1
      BY <3>1, <1>1, CellUpdate DEF TypeOK
    <3>3. \A b \in Buckets, n \in Names :
            /\ hot[b][n] \in Nat /\ incs[b][n] \in Nat /\ base[b][n] \in Nat
            /\ hot[b][n] <= base[b][n] + incs[b][n]
      BY DEF Bounded, Within, TypeOK
    <3>4. QED
      BY <3>1, <3>2, <3>3
  <2>3. CASE ~SeedBucket(r) /\ ~Increment(r)
    <3>1. hot' = hot
      BY <2>3 DEF RecordStep, RecordFail, Claim, ReadFloor, CheckSeeded,
                  Describe, MarkDirty, redis
    <3>2. QED
      BY <3>1, <1>3 DEF Bounded, TypeOK
  <2>4. QED
    BY <2>1, <2>2, <2>3
<1>8. ASSUME NEW q \in Records, pc'[q] \in {"check", "seed"}
      PROVE  \A n \in Names : floor'[q][n] <= Top(Bucket(q)', n)
  <2>1. CASE q # r
    <3>1. floor'[q] = floor[q] /\ Bucket(q)' = Bucket(q) /\ Within(floor[q], Bucket(q))
      BY <1>4, <1>8, <2>1 DEF Bounded, Bucket
    <3>2. QED
      BY <3>1, <1>3, CellInHand DEF TypeOK
  <2>2. CASE q = r /\ ReadFloor(r)
    <3>1. floor'[r] = durable[Bucket(r)] /\ Bucket(r)' = Bucket(r)
      BY <2>2 DEF ReadFloor, Bucket, TypeOK
    <3>2. QED
      BY <3>1, <2>2, <1>1, <1>3 DEF Bounded, TypeOK
  <2>3. CASE q = r /\ CheckSeeded(r)
    <3>1. /\ floor'[r] = floor[r] /\ Bucket(r)' = Bucket(r)
          /\ Within(floor[r], Bucket(r)) /\ floor[r] \in [Names -> Nat]
      BY <2>3 DEF CheckSeeded, Bucket, Bounded, TypeOK
    <3>2. QED
      BY <3>1, <2>3, <1>1, <1>3
  <2>4. CASE q = r /\ ~ReadFloor(r) /\ ~CheckSeeded(r)
    BY <1>8, <2>4 DEF RecordStep, RecordFail, Claim, SeedBucket, Increment,
                      Describe, MarkDirty, TypeOK
  <2>5. QED
    BY <2>1, <2>2, <2>3, <2>4
<1>9. QED
  BY <1>5, <1>6, <1>7, <1>8 DEF Bounded, Within

\* What a sweep writes is within bounds.
LEMMA BoundedSweep ==
    ASSUME TypeOK, Bounded, Next, NEW s \in Sweeps, SweepStep(s) \/ SweepFail(s)
    PROVE  Bounded'
<1>1. /\ UNCHANGED <<hot, pc, touch, floor, base, incs>>
      /\ \A q \in Sweeps : q # s => spc'[q] = spc[q] /\ snap'[q] = snap[q] /\ cur'[q] = cur[q]
  BY DEF SweepStep, SweepFail, SweepDrainCnt, SweepDrainCat, SweepCheck,
         SweepRemark, SweepRead, SweepUpsert, handlers, redis, TypeOK
<1>2. /\ \A b \in Buckets : Within(hot[b], b)'
      /\ \A r \in Records : pc'[r] \in {"check", "seed"} => Within(floor[r], Bucket(r))'
  BY <1>1 DEF Bounded, Within, Bucket
<1>3. \A b \in Buckets : Within(durable[b], b)'
  <2>1. CASE SweepUpsert(s)
    <3>1. PICK n \in rows[s] :
            durable' = [durable EXCEPT ![cur[s]][n] = MergeCount(@, snap[s][n])]
      BY <2>1 DEF SweepUpsert
    <3>2. /\ cur[s] \in Buckets /\ n \in Names
          /\ durable \in [Buckets -> [Names -> Nat]]
          /\ snap[s][n] \in Nat
      BY DEF TypeOK
    <3>3. Within(snap[s], cur[s]) /\ \A b \in Buckets : Within(durable[b], b)
      BY <2>1 DEF SweepUpsert, Bounded
    <3>4. \A b \in Buckets, m \in Names :
            \/ durable'[b][m] = durable[b][m]
            \/ b = cur[s] /\ durable'[b][m] = snap[s][m]
      BY <3>1, <3>2 DEF MergeCount, Greatest
    <3>5. QED
      BY <3>3, <3>4, <1>1 DEF Within
  <2>2. CASE ~SweepUpsert(s)
    <3>1. durable' = durable
      BY <2>2 DEF SweepStep, SweepFail, SweepDrainCnt, SweepDrainCat, SweepCheck,
                  SweepRemark, SweepRead
    <3>2. QED
      BY <3>1, <1>1 DEF Bounded, Within
  <2>3. QED
    BY <2>1, <2>2
<1>4. ASSUME NEW q \in Sweeps, spc'[q] = "upsert"
      PROVE  \A n \in Names : snap'[q][n] <= base'[cur'[q]][n] + incs'[cur'[q]][n]
  <2>1. CASE q # s
    BY <2>1, <1>1, <1>4 DEF Bounded, Within
  <2>2. CASE q = s /\ SweepRead(s)
    <3>1. snap'[s] = hot[cur[s]] /\ cur'[s] = cur[s] /\ cur[s] \in Buckets
      BY <2>2 DEF SweepRead, TypeOK
    <3>2. QED
      BY <3>1, <2>2, <1>1 DEF Bounded, Within
  <2>3. CASE q = s /\ SweepUpsert(s)
    <3>1. snap'[s] = snap[s] /\ cur'[s] = cur[s] /\ spc[s] = "upsert"
      BY <2>3 DEF SweepUpsert
    <3>2. QED
      BY <3>1, <2>3, <1>1 DEF Bounded, Within
  <2>4. CASE q = s /\ ~SweepRead(s) /\ ~SweepUpsert(s)
    BY <2>4, <1>4 DEF SweepStep, SweepFail, SweepDrainCnt, SweepDrainCat,
                      SweepCheck, SweepRemark, AfterBucket, TypeOK
  <2>5. QED
    BY <2>1, <2>2, <2>3, <2>4
<1>5. QED
  BY <1>2, <1>3, <1>4 DEF Bounded, Within

LEMMA BoundedNext == TypeOK /\ Bounded /\ [Next]_vars => Bounded'
<1> SUFFICES ASSUME TypeOK, Bounded, [Next]_vars
             PROVE  Bounded'
  OBVIOUS
<1>1. CASE UNCHANGED vars
  BY <1>1 DEF vars, redis, handlers, sweepers, Bounded, Within, Bucket
<1>2. CASE Next
  <2>1. ASSUME NEW j \in Jobs, Enqueue(j) \/ AckJob(j)
        PROVE  Bounded'
    BY <2>1 DEF Enqueue, AckJob, redis, sweepers, Bounded, Within, Bucket, TypeOK
  <2>2. CASE Crash
    BY <2>2 DEF Crash, redis, Bounded, Within, Bucket, TypeOK
  <2>3. CASE RedisLoss
    <3>1. \A b \in Buckets : \A n \in Names : hot'[b][n] = 0
      BY <2>3 DEF RedisLoss, NoCounts
    <3>2. \A b \in Buckets, n \in Names : base[b][n] + incs[b][n] \in Nat
      BY DEF TypeOK
    <3>3. /\ UNCHANGED <<durable, touch, floor, spc, cur, snap, base, incs>>
          /\ \A r \in Records : pc'[r] \in {"check", "seed"} => pc'[r] = pc[r]
      BY <2>3 DEF RedisLoss, sweepers, TypeOK
    <3>4. QED
      BY <3>1, <3>2, <3>3 DEF Bounded, Within, Bucket
  <2>4. QED
    BY <1>2, <2>1, <2>2, <2>3, BoundedRecord, BoundedSweep DEF Next
<1>3. QED
  BY <1>1, <1>2

\* Whatever crashes, throws or is lost, Postgres never shows more than what it
\* held at the start and what was counted since.
THEOREM PublishedCorrect == Spec => []PublishedWithinCounted
<1>1. Init => TypeOK /\ Bounded
  BY TypeInit, BoundedInit
<1>2. TypeOK /\ Bounded /\ [Next]_vars => (TypeOK /\ Bounded)'
  BY TypeNext, BoundedNext
<1>3. TypeOK /\ Bounded => PublishedWithinCounted
  BY DEF Bounded, Within, PublishedWithinCounted, Counted
<1>4. QED
  BY <1>1, <1>2, <1>3, PTL DEF Spec

-----------------------------------------------------------------------------
(* The abstract promise *)

\* Only an upsert writes Postgres, one cell, to the greater of two counts.
LEMMA DurableWrites ==
    ASSUME TypeOK, Next
    PROVE  \/ durable' = durable
           \/ \E s \in Sweeps, n \in Names :
                /\ spc[s] = "upsert"
                /\ durable[cur[s]][n] < snap[s][n]
                /\ durable' = [durable EXCEPT ![cur[s]][n] = snap[s][n]]
                /\ base' = base /\ incs' = incs
<1>1. ASSUME NEW s \in Sweeps, SweepUpsert(s)
      PROVE  \/ durable' = durable
             \/ \E n \in Names :
                  /\ spc[s] = "upsert"
                  /\ durable[cur[s]][n] < snap[s][n]
                  /\ durable' = [durable EXCEPT ![cur[s]][n] = snap[s][n]]
                  /\ base' = base /\ incs' = incs
  <2>1. PICK n \in rows[s] :
          durable' = [durable EXCEPT ![cur[s]][n] = MergeCount(@, snap[s][n])]
    BY <1>1 DEF SweepUpsert
  <2>2. /\ n \in Names /\ cur[s] \in Buckets
        /\ durable \in [Buckets -> [Names -> Nat]]
        /\ snap[s][n] \in Nat
    BY DEF TypeOK
  <2>3. CASE durable[cur[s]][n] < snap[s][n]
    BY <2>1, <2>2, <2>3, <1>1 DEF MergeCount, Greatest, SweepUpsert
  <2>4. CASE ~(durable[cur[s]][n] < snap[s][n])
    <3>1. durable' = [durable EXCEPT ![cur[s]][n] = durable[cur[s]][n]]
      BY <2>1, <2>2, <2>4 DEF MergeCount, Greatest
    <3>2. QED
      BY <3>1, <2>2
  <2>5. QED
    BY <2>2, <2>3, <2>4
<1>2. ASSUME ~ \E s \in Sweeps : SweepUpsert(s)
      PROVE  durable' = durable
  BY <1>2 DEF Next, Enqueue, AckJob, Crash, RedisLoss, RecordStep, RecordFail,
              Claim, ReadFloor, CheckSeeded, SeedBucket, Increment, Describe,
              MarkDirty, SweepStep, SweepFail, SweepDrainCnt, SweepDrainCat,
              SweepCheck, SweepRemark, SweepRead
<1>3. QED
  BY <1>1, <1>2

\* What was counted changes by one increment at a time.
LEMMA CountedWrites ==
    ASSUME TypeOK, Next
    PROVE  \/ base' = base /\ incs' = incs
           \/ \E b \in Buckets, n \in Names :
                /\ base' = base
                /\ incs' = [incs EXCEPT ![b][n] = @ + 1]
                /\ durable' = durable
<1>1. ASSUME NEW r \in Records, Increment(r)
      PROVE  \E b \in Buckets, n \in Names :
                /\ base' = base
                /\ incs' = [incs EXCEPT ![b][n] = @ + 1]
                /\ durable' = durable
  BY <1>1, CellInHand DEF Increment
<1>2. ASSUME ~ \E r \in Records : Increment(r)
      PROVE  base' = base /\ incs' = incs
  BY <1>2 DEF Next, Enqueue, AckJob, Crash, RedisLoss, RecordStep, RecordFail,
              Claim, ReadFloor, CheckSeeded, SeedBucket, Describe,
              MarkDirty, SweepStep, SweepFail, SweepDrainCnt, SweepDrainCat,
              SweepCheck, SweepRemark, SweepRead, SweepUpsert
<1>3. QED
  BY <1>1, <1>2

\* A step of the pipeline counts once, publishes a figure within the total, or
\* changes neither.
LEMMA StepImplements ==
    ASSUME TypeOK, Bounded, [Next]_vars
    PROVE  [Published!Next]_(Published!vars)
<1> USE DEF Published!vars, Published!Next, Published!Count, Published!Publish
<1>1. CASE UNCHANGED vars
  BY <1>1 DEF vars, Counted
<1>2. CASE Next /\ base' = base /\ incs' = incs
  <2>1. Counted' = Counted
    BY <1>2 DEF Counted
  <2>2. ASSUME NEW s \in Sweeps, NEW n \in Names,
               spc[s] = "upsert", durable[cur[s]][n] < snap[s][n],
               durable' = [durable EXCEPT ![cur[s]][n] = snap[s][n]]
        PROVE  Published!Publish(cur[s], n)
    <3>1. /\ cur[s] \in Buckets
          /\ durable[cur[s]][n] \in Nat /\ snap[s][n] \in Nat
          /\ base[cur[s]][n] \in Nat /\ incs[cur[s]][n] \in Nat
      BY DEF TypeOK
    <3>2. snap[s][n] <= Counted[cur[s]][n]
      BY <2>2, <3>1 DEF Bounded, Within, Counted
    <3>3. /\ Counted[cur[s]][n] \in Nat
          /\ snap[s][n] \in durable[cur[s]][n] + 1 .. Counted[cur[s]][n]
      BY <2>2, <3>1, <3>2 DEF Counted
    <3>4. QED
      BY <3>3, <2>1, <2>2
  <2>3. QED
    BY <2>1, <2>2, <1>2, DurableWrites DEF TypeOK
<1>3. ASSUME NEW b \in Buckets, NEW n \in Names, base' = base,
             incs' = [incs EXCEPT ![b][n] = @ + 1], durable' = durable
      PROVE  Published!Count(b, n)
  <2>1. Counted' = [Counted EXCEPT ![b][n] = @ + 1]
    <3>1. \A c \in Buckets, m \in Names :
            /\ incs'[c][m] = IF c = b /\ m = n THEN incs[c][m] + 1 ELSE incs[c][m]
            /\ base[c][m] \in Nat /\ incs[c][m] \in Nat
      BY <1>3, CellUpdate DEF TypeOK
    <3>2. \A c \in Buckets, m \in Names :
            Counted'[c][m] = [Counted EXCEPT ![b][n] = @ + 1][c][m]
      <4>1. Counted \in [Buckets -> [Names -> Nat]]
        BY <3>1 DEF Counted
      <4>2. \A c \in Buckets, m \in Names :
              [Counted EXCEPT ![b][n] = @ + 1][c][m] =
                IF c = b /\ m = n THEN Counted[c][m] + 1 ELSE Counted[c][m]
        BY <4>1, CellUpdate
      <4>3. \A c \in Buckets, m \in Names :
              /\ Counted[c][m] = base[c][m] + incs[c][m]
              /\ Counted'[c][m] = base[c][m] + incs'[c][m]
        BY <1>3 DEF Counted
      <4>4. QED
        BY <3>1, <4>2, <4>3
    <3>3. \A c \in Buckets : Counted'[c] = [Counted EXCEPT ![b][n] = @ + 1][c]
      BY <3>2 DEF Counted
    <3>4. QED
      BY <3>3 DEF Counted
  <2>2. QED
    BY <2>1, <1>3
<1>4. QED
  BY <1>1, <1>2, <1>3, CountedWrites

\* The counting path implements PublishedCount: nothing it does to Redis, no
\* overlap of sweeps and no failure shows the reader anything that counting one
\* by one and publishing within the total could not.
THEOREM ImplementsAbstract == Spec => ImplementsPublishedCount
<1>1. Init => Published!Init
  <2>1. ASSUME Init PROVE base \in [Buckets -> [Names -> Nat]] /\ durable = base
    BY <2>1, ConstantsAssumption DEF Init
  <2>2. ASSUME Init PROVE Counted = base
    <3>1. \A b \in Buckets : Counted[b] = base[b]
      BY <2>1, <2>2 DEF Init, NoCounts, Counted
    <3>2. QED
      BY <3>1, <2>1, <2>2 DEF Counted
  <2>3. QED
    BY <2>1, <2>2 DEF Published!Init, Published!Counts
<1>2. Init => TypeOK /\ Bounded
  BY TypeInit, BoundedInit
<1>3. TypeOK /\ Bounded /\ [Next]_vars => (TypeOK /\ Bounded)'
  BY TypeNext, BoundedNext
<1>4. TypeOK /\ Bounded /\ [Next]_vars => [Published!Next]_(Published!vars)
  BY StepImplements
<1>5. QED
  BY <1>1, <1>2, <1>3, <1>4, PTL DEF Spec, ImplementsPublishedCount, Published!Spec

\* A published figure never goes down.
THEOREM PublishedNeverDrops == Spec => DurableMonotone
<1>1. ASSUME TypeOK, [Next]_vars
      PROVE  [\A b \in Buckets, n \in Names : durable[b][n] <= durable'[b][n]]_vars
  <2>1. durable \in [Buckets -> [Names -> Nat]] /\ snap \in [Sweeps -> [Names -> Nat]]
        /\ cur \in [Sweeps -> Buckets]
    BY <1>1 DEF TypeOK
  <2>2. ASSUME NEW s \in Sweeps, NEW n \in Names,
               durable[cur[s]][n] < snap[s][n],
               durable' = [durable EXCEPT ![cur[s]][n] = snap[s][n]],
               NEW b \in Buckets, NEW m \in Names
        PROVE  durable[b][m] <= durable'[b][m]
    <3>1. durable[b][m] \in Nat /\ snap[s][n] \in Nat /\ cur[s] \in Buckets
      BY <2>1
    <3>2. durable'[b][m] = IF b = cur[s] /\ m = n THEN snap[s][n] ELSE durable[b][m]
      BY <2>1, <2>2, <3>1, CellUpdate
    <3>3. QED
      BY <2>2, <3>1, <3>2
  <2>3. \A b \in Buckets, m \in Names : durable[b][m] <= durable[b][m]
    BY <2>1
  <2>4. CASE Next
    BY <1>1, <2>2, <2>3, <2>4, DurableWrites
  <2>5. QED
    BY <2>4, <1>1 DEF vars
<1>2. QED
  BY <1>1, TypeCorrect, PTL DEF Spec, DurableMonotone

-----------------------------------------------------------------------------
(* The hot count is exact while Redis keeps its data *)

\* Why HotExact holds: until its bucket is seeded nothing was counted in it, so
\* the floor a handler carries is still what Postgres held at the start; and a
\* handler increments, and a sweep reads, only a seeded bucket.
Exact ==
    losses = 0 =>
      /\ \A b \in Buckets, n \in Names :
           IF b \in seeded
             THEN hot[b][n] = base[b][n] + incs[b][n]
             ELSE hot[b][n] = 0 /\ incs[b][n] = 0 /\ durable[b][n] = base[b][n]
      /\ \A r \in Records : pc[r] = "incr" => Bucket(r) \in seeded
      /\ \A r \in Records : pc[r] \in {"check", "seed"} /\ Bucket(r) \notin seeded
           => \A n \in Names : floor[r][n] = base[Bucket(r)][n]
      /\ \A s \in Sweeps : spc[s] \in {"read", "upsert"} => cur[s] \in seeded

LEMMA ExactInit == Init => Exact
  BY ConstantsAssumption DEF Init, Exact, NoCounts

\* A handler keeps the hot counts exact.
LEMMA ExactRecord ==
    ASSUME TypeOK, Bounded, Exact, Next, losses' = 0,
           NEW r \in Records, RecordStep(r) \/ RecordFail(r)
    PROVE  Exact'
<1>1. Bucket(r) \in Buckets /\ Name(r) \in Names
  BY CellInHand
<1>2. /\ UNCHANGED <<durable, base, losses, spc, cur>>
      /\ seeded \subseteq seeded'
      /\ \A q \in Records : q # r =>
           pc'[q] = pc[q] /\ floor'[q] = floor[q] /\ Bucket(q)' = Bucket(q)
  BY DEF RecordStep, RecordFail, Claim, ReadFloor, CheckSeeded, SeedBucket,
         Increment, Describe, MarkDirty, redis, sweepers, failures, TypeOK, Bucket
<1>3. losses = 0
  BY <1>2
<1>4. \A b \in Buckets, n \in Names :
        /\ hot[b][n] \in Nat /\ base[b][n] \in Nat /\ incs[b][n] \in Nat
        /\ durable[b][n] \in Nat
        /\ hot[b][n] <= base[b][n] + incs[b][n]
  BY DEF TypeOK, Bounded, Within
<1>5. \A b \in Buckets, n \in Names :
        IF b \in seeded'
          THEN hot'[b][n] = base'[b][n] + incs'[b][n]
          ELSE hot'[b][n] = 0 /\ incs'[b][n] = 0 /\ durable'[b][n] = base'[b][n]
  <2>1. CASE SeedBucket(r)
    <3>1. /\ hot' = [hot EXCEPT ![Bucket(r)] = SeedIfAbsent(@, floor[r])]
          /\ seeded' = seeded \cup {Bucket(r)} /\ incs' = incs
      BY <2>1 DEF SeedBucket
    <3>2. \A n \in Names :
            hot'[Bucket(r)][n] = IF hot[Bucket(r)][n] = 0 THEN floor[r][n] ELSE hot[Bucket(r)][n]
      BY <3>1, <1>1 DEF SeedIfAbsent, TypeOK
    <3>3. \A n \in Names : floor[r][n] \in Nat /\ floor[r][n] <= base[Bucket(r)][n] + incs[Bucket(r)][n]
      BY <2>1 DEF SeedBucket, Bounded, Within, TypeOK
    <3>4. \A n \in Names : hot'[Bucket(r)][n] = base[Bucket(r)][n] + incs[Bucket(r)][n]
      <4>1. CASE Bucket(r) \in seeded
        BY <4>1, <3>2, <3>3, <1>1, <1>3, <1>4 DEF Exact
      <4>2. CASE Bucket(r) \notin seeded
        <5>1. \A n \in Names : floor[r][n] = base[Bucket(r)][n]
          BY <4>2, <2>1, <1>3 DEF SeedBucket, Exact
        <5>2. QED
          BY <4>2, <5>1, <3>2, <1>1, <1>3, <1>4 DEF Exact
      <4>3. QED
        BY <4>1, <4>2
    <3>5. \A b \in Buckets : b # Bucket(r) => hot'[b] = hot[b] /\ (b \in seeded' <=> b \in seeded)
      BY <3>1 DEF TypeOK
    <3>6. QED
      BY <3>1, <3>4, <3>5, <1>2, <1>3 DEF Exact
  <2>2. CASE Increment(r)
    <3>1. /\ hot' = [hot EXCEPT ![Bucket(r)][Name(r)] = @ + 1]
          /\ incs' = [incs EXCEPT ![Bucket(r)][Name(r)] = @ + 1]
          /\ seeded' = seeded /\ Bucket(r) \in seeded
      BY <2>2, <1>3 DEF Increment, Exact
    <3>2. \A b \in Buckets, n \in Names :
            \/ hot'[b][n] = hot[b][n] /\ incs'[b][n] = incs[b][n]
            \/ /\ b = Bucket(r)
               /\ hot'[b][n] = hot[b][n] + 1 /\ incs'[b][n] = incs[b][n] + 1
      BY <3>1, <1>1, CellUpdate DEF TypeOK
    <3>3. QED
      BY <3>1, <3>2, <1>2, <1>3, <1>4 DEF Exact
  <2>3. CASE ~SeedBucket(r) /\ ~Increment(r)
    <3>1. UNCHANGED <<hot, seeded, incs>>
      BY <2>3 DEF RecordStep, RecordFail, Claim, ReadFloor, CheckSeeded,
                  Describe, MarkDirty, redis
    <3>2. QED
      BY <3>1, <1>2, <1>3 DEF Exact
  <2>4. QED
    BY <2>1, <2>2, <2>3
<1>6. ASSUME NEW q \in Records, pc'[q] = "incr"
      PROVE  Bucket(q)' \in seeded'
  <2>1. CASE q # r
    BY <2>1, <1>6, <1>2, <1>3 DEF Exact
  <2>2. CASE q = r
    BY <2>2, <1>6 DEF RecordStep, RecordFail, Claim, ReadFloor, CheckSeeded,
                      SeedBucket, Increment, Describe, MarkDirty, TypeOK, Bucket, redis
  <2>3. QED
    BY <2>1, <2>2
<1>7. ASSUME NEW q \in Records, pc'[q] \in {"check", "seed"}, Bucket(q)' \notin seeded'
      PROVE  \A n \in Names : floor'[q][n] = base'[Bucket(q)'][n]
  <2>1. CASE q # r
    BY <2>1, <1>7, <1>2, <1>3 DEF Exact
  <2>2. CASE q = r /\ ReadFloor(r)
    <3>1. floor'[r] = durable[Bucket(r)] /\ Bucket(r)' = Bucket(r) /\ seeded' = seeded
      BY <2>2 DEF ReadFloor, Bucket, TypeOK, redis
    <3>2. QED
      BY <3>1, <2>2, <1>7, <1>1, <1>2, <1>3 DEF Exact
  <2>3. CASE q = r /\ CheckSeeded(r)
    BY <2>3, <1>7, <1>2, <1>3 DEF CheckSeeded, Exact, Bucket, TypeOK
  <2>4. CASE q = r /\ ~ReadFloor(r) /\ ~CheckSeeded(r)
    BY <1>7, <2>4 DEF RecordStep, RecordFail, Claim, SeedBucket, Increment,
                      Describe, MarkDirty, TypeOK
  <2>5. QED
    BY <2>1, <2>2, <2>3, <2>4
<1>8. \A s \in Sweeps : spc'[s] \in {"read", "upsert"} => cur'[s] \in seeded'
  BY <1>2, <1>3 DEF Exact
<1>9. QED
  BY <1>5, <1>6, <1>7, <1>8 DEF Exact

\* A sweep keeps them exact: it writes only rows of a seeded bucket.
LEMMA ExactSweep ==
    ASSUME TypeOK, Exact, losses' = 0,
           NEW s \in Sweeps, SweepStep(s) \/ SweepFail(s)
    PROVE  Exact'
<1>1. /\ UNCHANGED <<hot, seeded, pc, touch, floor, base, incs, losses>>
      /\ \A q \in Sweeps : q # s => spc'[q] = spc[q] /\ cur'[q] = cur[q]
  BY DEF SweepStep, SweepFail, SweepDrainCnt, SweepDrainCat, SweepCheck,
         SweepRemark, SweepRead, SweepUpsert, handlers, redis, failures, TypeOK
<1>2. \A b \in Buckets : b \notin seeded => durable'[b] = durable[b]
  <2>1. CASE SweepUpsert(s)
    <3>1. PICK n \in rows[s] :
            durable' = [durable EXCEPT ![cur[s]][n] = MergeCount(@, snap[s][n])]
      BY <2>1 DEF SweepUpsert
    <3>2. cur[s] \in seeded
      BY <2>1, <1>1 DEF SweepUpsert, Exact
    <3>3. QED
      BY <3>1, <3>2 DEF TypeOK
  <2>2. CASE ~SweepUpsert(s)
    BY <2>2 DEF SweepStep, SweepFail, SweepDrainCnt, SweepDrainCat, SweepCheck,
                SweepRemark, SweepRead
  <2>3. QED
    BY <2>1, <2>2
<1>3. spc'[s] \in {"read", "upsert"} => cur'[s] \in seeded'
  BY <1>1 DEF SweepStep, SweepFail, SweepDrainCnt, SweepDrainCat, SweepCheck,
              SweepRemark, SweepRead, SweepUpsert, AfterBucket, TypeOK, Exact
<1>4. QED
  BY <1>1, <1>2, <1>3 DEF Exact, Bucket

LEMMA ExactNext == TypeOK /\ Bounded /\ Exact /\ [Next]_vars => Exact'
<1> SUFFICES ASSUME TypeOK, Bounded, Exact, [Next]_vars, losses' = 0
             PROVE  Exact'
  BY DEF Exact
<1>1. CASE UNCHANGED vars
  BY <1>1 DEF vars, redis, handlers, sweepers, failures, Exact, Bucket
<1>2. ASSUME NEW j \in Jobs, Enqueue(j) \/ AckJob(j)
      PROVE  Exact'
  <2>1. /\ UNCHANGED <<hot, seeded, durable, touch, floor, spc, cur, base, incs, losses>>
        /\ \A r \in Records : pc'[r] = pc[r] \/ pc'[r] = "queued"
    BY <1>2 DEF Enqueue, AckJob, redis, sweepers, failures, TypeOK
  <2>2. QED
    BY <2>1 DEF Exact, Bucket
<1>3. CASE Crash
  BY <1>3 DEF Crash, redis, Exact, Bucket, TypeOK
<1>4. ASSUME RedisLoss PROVE FALSE
  BY <1>4 DEF RedisLoss, TypeOK
<1>5. QED
  BY <1>1, <1>2, <1>3, <1>4, ExactRecord, ExactSweep DEF Next

\* While Redis keeps its data a seeded bucket holds exactly the floor plus the
\* increments, and an unseeded one nothing, whichever handlers raced to seed it.
THEOREM HotCountExact == Spec => []HotExact
<1>1. Init => TypeOK /\ Bounded /\ Exact
  BY TypeInit, BoundedInit, ExactInit
<1>2. TypeOK /\ Bounded /\ Exact /\ [Next]_vars => (TypeOK /\ Bounded /\ Exact)'
  BY TypeNext, BoundedNext, ExactNext
<1>3. TypeOK /\ Exact => HotExact
  <2>1. ASSUME TypeOK, Exact, losses = 0, NEW b \in Buckets
        PROVE  hot[b] = IF b \in seeded THEN Counted[b] ELSE NoCounts
    <3>1. hot[b] \in [Names -> Nat]
      BY <2>1 DEF TypeOK
    <3>2. CASE b \in seeded
      BY <2>1, <3>1, <3>2 DEF Exact, Counted
    <3>3. CASE b \notin seeded
      BY <2>1, <3>1, <3>3 DEF Exact, NoCounts
    <3>4. QED
      BY <3>2, <3>3
  <2>2. QED
    BY <2>1 DEF HotExact
<1>4. QED
  BY <1>1, <1>2, <1>3, PTL DEF Spec

-----------------------------------------------------------------------------
(* An event is counted at most once in a bucket *)

AllWindowed(e) == \A r \in Records : EventOf[r] = e => r \in Windowed

\* Why AtMostOnce holds: the dedup marker is taken before anything else, so a
\* marked event has at most one delivery in a handler, whatever crashes and is
\* delivered again, and that delivery has not touched the cells still ahead.
Once ==
    losses = 0 =>
      \A e \in Events : AllWindowed(e) =>
        /\ \A b \in Buckets : hits[e][b] <= 1
        /\ e \notin dedup =>
             /\ \A b \in Buckets : hits[e][b] = 0
             /\ \A r \in Records : EventOf[r] = e => pc[r] \notin InHandler
        /\ \A r \in Records : EventOf[r] = e /\ pc[r] \in InHandler =>
             /\ \A q \in Records : EventOf[q] = e /\ pc[q] \in InHandler => q = r
             /\ \A k \in DOMAIN Touches[r] :
                  \/ k > touch[r]
                  \/ k = touch[r] /\ pc[r] \in {"floor", "check", "seed", "incr"}
                  => hits[e][Touches[r][k][1]] = 0

LEMMA OnceInit == Init => Once
<1> SUFFICES ASSUME Init PROVE Once
  OBVIOUS
<1>1. \A r \in Records : \A k \in DOMAIN Touches[r] : Touches[r][k][1] \in Buckets
  <2>1. \A q \in Seq(Cells) : \A k \in DOMAIN q : q[k] \in Cells
    OBVIOUS
  <2>2. QED
    BY <2>1, ConstantsAssumption DEF Cells
<1>2. QED
  BY <1>1 DEF Init, Once, InHandler

\* A handler keeps an event counted at most once.
LEMMA OnceRecord ==
    ASSUME TypeOK, Once, losses' = 0,
           NEW r \in Records, RecordStep(r) \/ RecordFail(r)
    PROVE  Once'
<1> DEFINE Ahead(q, k) ==
             \/ k > touch[q]
             \/ k = touch[q] /\ pc[q] \in {"floor", "check", "seed", "incr"}
<1>1. Bucket(r) \in Buckets /\ EventOf[r] \in Events
  BY CellInHand, ConstantsAssumption
<1>2. /\ losses = 0 /\ dedup \subseteq dedup'
      /\ \A q \in Records : q # r => pc'[q] = pc[q] /\ touch'[q] = touch[q]
  BY DEF RecordStep, RecordFail, Claim, ReadFloor, CheckSeeded, SeedBucket,
         Increment, Describe, MarkDirty, redis, failures, TypeOK
<1>3. \A q \in Records : \A k \in DOMAIN Touches[q] :
        Touches[q][k][1] \in Buckets /\ k \in Nat
  <2>1. \A q \in Seq(Cells) : \A k \in DOMAIN q : q[k] \in Cells /\ k \in Nat
    OBVIOUS
  <2>2. QED
    BY <2>1, ConstantsAssumption DEF Cells
<1>4. SUFFICES ASSUME NEW e \in Events, AllWindowed(e)
      PROVE  /\ \A b \in Buckets : hits'[e][b] <= 1
             /\ e \notin dedup' =>
                  /\ \A b \in Buckets : hits'[e][b] = 0
                  /\ \A q \in Records : EventOf[q] = e => pc'[q] \notin InHandler
             /\ \A q \in Records : EventOf[q] = e /\ pc'[q] \in InHandler =>
                  /\ \A p \in Records : EventOf[p] = e /\ pc'[p] \in InHandler => p = q
                  /\ \A k \in DOMAIN Touches[q] :
                       Ahead(q, k)' => hits'[e][Touches[q][k][1]] = 0
  BY <1>4 DEF Once, AllWindowed
<1>5. /\ \A b \in Buckets : hits[e][b] <= 1 /\ hits[e][b] \in Nat
      /\ e \notin dedup =>
           /\ \A b \in Buckets : hits[e][b] = 0
           /\ \A q \in Records : EventOf[q] = e => pc[q] \notin InHandler
      /\ \A q \in Records : EventOf[q] = e /\ pc[q] \in InHandler =>
           /\ \A p \in Records : EventOf[p] = e /\ pc[p] \in InHandler => p = q
           /\ \A k \in DOMAIN Touches[q] :
                Ahead(q, k) => hits[e][Touches[q][k][1]] = 0
  BY <1>2, <1>4 DEF Once, TypeOK
<1>6. CASE EventOf[r] # e
  <2>1. \A b \in Buckets : hits'[e][b] = hits[e][b]
    BY <1>6, <1>1 DEF RecordStep, RecordFail, Claim, ReadFloor, CheckSeeded,
           SeedBucket, Increment, Describe, MarkDirty, TypeOK
  <2>2. e \in dedup' => e \in dedup
    BY <1>6 DEF RecordStep, RecordFail, Claim, ReadFloor, CheckSeeded,
           SeedBucket, Increment, Describe, MarkDirty, redis
  <2>3. QED
    BY <1>6, <2>1, <2>2, <1>2, <1>3, <1>5
<1>7. CASE EventOf[r] = e /\ Claim(r)
  <2>1. r \in Windowed /\ hits' = hits
    BY <1>7, <1>4 DEF AllWindowed, Claim
  <2>2. CASE e \in dedup
    BY <1>7, <2>1, <2>2, <1>2, <1>3, <1>5 DEF Claim, InHandler, TypeOK
  <2>3. CASE e \notin dedup
    BY <1>7, <2>1, <2>3, <1>2, <1>3, <1>5 DEF Claim, TypeOK
  <2>4. QED
    BY <2>2, <2>3
<1>8. CASE EventOf[r] = e /\ Increment(r)
  <2>1. /\ pc[r] = "incr" /\ pc'[r] \in {"describe", "mark"}
        /\ touch' = touch /\ dedup' = dedup
        /\ hits' = [hits EXCEPT ![e][Bucket(r)] = @ + 1]
    BY <1>8 DEF Increment, TypeOK
  <2>2. \A b \in Buckets : hits'[e][b] = IF b = Bucket(r) THEN hits[e][b] + 1 ELSE hits[e][b]
    BY <2>1, <1>1 DEF TypeOK
  <2>3. touch[r] \in DOMAIN Touches[r]
    BY DEF TypeOK
  <2>4. hits[e][Bucket(r)] = 0
    BY <2>1, <2>3, <1>5, <1>8 DEF Bucket, InHandler
  <2>5. e \in dedup
    BY <2>1, <1>5, <1>8 DEF InHandler
  <2>6. \A q \in Records : EventOf[q] = e /\ pc'[q] \in InHandler => q = r
    BY <2>1, <1>2, <1>5, <1>8 DEF InHandler
  <2>7. ASSUME NEW k \in DOMAIN Touches[r], Ahead(r, k)'
        PROVE  hits'[e][Touches[r][k][1]] = 0
    <3>1. k > touch[r] /\ k # touch[r]
      BY <2>1, <2>7, <2>3, <1>3
    <3>2. Touches[r][k][1] # Bucket(r)
      BY <3>1, <2>3, ConstantsAssumption DEF Bucket
    <3>3. hits[e][Touches[r][k][1]] = 0
      BY <3>1, <2>1, <1>5, <1>8 DEF InHandler
    <3>4. QED
      BY <3>2, <3>3, <2>2, <1>3
  <2>8. QED
    BY <2>1, <2>2, <2>4, <2>5, <2>6, <2>7, <1>5
<1>9. CASE EventOf[r] = e /\ ~Claim(r) /\ ~Increment(r)
  <2>1. hits' = hits /\ dedup' = dedup
    BY <1>9 DEF RecordStep, RecordFail, ReadFloor, CheckSeeded, SeedBucket,
                Describe, MarkDirty, redis
  <2>2. pc'[r] \in InHandler => pc[r] \in InHandler
    BY <1>9 DEF RecordStep, RecordFail, ReadFloor, CheckSeeded, SeedBucket,
                Describe, MarkDirty, InHandler, TypeOK
  <2>3. ASSUME NEW k \in DOMAIN Touches[r], pc'[r] \in InHandler, Ahead(r, k)'
        PROVE  Ahead(r, k)
    <3>1. CASE touch'[r] = touch[r]
      BY <3>1, <2>3, <1>9 DEF RecordStep, RecordFail, ReadFloor, CheckSeeded,
                SeedBucket, Describe, MarkDirty, InHandler, TypeOK
    <3>2. CASE touch'[r] # touch[r]
      <4>1. touch'[r] = touch[r] + 1 /\ touch[r] \in Nat
        BY <3>2, <1>9 DEF RecordStep, RecordFail, ReadFloor, CheckSeeded,
                SeedBucket, Describe, MarkDirty, TypeOK
      <4>2. QED
        BY <4>1, <2>3, <1>3
    <3>3. QED
      BY <3>1, <3>2
  <2>4. \A q \in Records : EventOf[q] = e /\ pc'[q] \in InHandler => pc[q] \in InHandler
    BY <2>2, <1>2
  <2>5. QED
    BY <2>1, <2>3, <2>4, <1>2, <1>5
<1>10. QED
  BY <1>6, <1>7, <1>8, <1>9

LEMMA OnceNext == TypeOK /\ Once /\ [Next]_vars => Once'
<1> SUFFICES ASSUME TypeOK, Once, [Next]_vars, losses' = 0
             PROVE  Once'
  BY DEF Once
<1>1. CASE UNCHANGED vars
  BY <1>1 DEF vars, redis, handlers, sweepers, failures, Once, AllWindowed
<1>2. ASSUME \/ \E j \in Jobs : Enqueue(j) \/ AckJob(j)
             \/ \E s \in Sweeps : SweepStep(s) \/ SweepFail(s)
             \/ Crash
      PROVE  Once'
  <2>1. /\ UNCHANGED <<dedup, touch, hits, losses>>
        /\ \A r \in Records : pc'[r] = pc[r] \/ pc'[r] = "queued"
    BY <1>2 DEF Enqueue, AckJob, Crash, SweepStep, SweepFail, SweepDrainCnt,
                SweepDrainCat, SweepCheck, SweepRemark, SweepRead, SweepUpsert,
                redis, handlers, failures, TypeOK
  <2>2. QED
    BY <2>1 DEF Once, AllWindowed, InHandler
<1>3. ASSUME RedisLoss PROVE FALSE
  BY <1>3 DEF RedisLoss, TypeOK
<1>4. QED
  BY <1>1, <1>2, <1>3, OnceRecord DEF Next

\* While Redis keeps its data, an event that passes the dedup gate is counted at
\* most once in every bucket: second copies and redeliveries after a crash are
\* stopped by the marker, wherever the first delivery was when it died.
THEOREM CountedAtMostOnce == Spec => []AtMostOnce
<1>1. Init => TypeOK /\ Once
  BY TypeInit, OnceInit
<1>2. TypeOK /\ Once /\ [Next]_vars => (TypeOK /\ Once)'
  BY TypeNext, OnceNext
<1>3. Once => AtMostOnce
  BY DEF Once, AtMostOnce, AllWindowed
<1>4. QED
  BY <1>1, <1>2, <1>3, PTL DEF Spec

-----------------------------------------------------------------------------
(* No count is left behind while nothing fails *)

NoFailure == crashes = 0 /\ sweepFails = 0 /\ recordFails = 0 /\ losses = 0

Unpublished(b, n) == durable[b][n] < hot[b][n]

\* Why no count is left behind: a sweep forgets a bucket only after it wrote the
\* rows it read, a floor is never above its row, and a bucket whose row cannot be
\* named yet has a handler that is about to name it, and to mark it after that.
Followed ==
    NoFailure =>
      /\ NothingForgotten
      /\ \A s \in Sweeps : spc[s] = "idle" => batch[s] = {}
      /\ \A r \in Records : pc[r] \in {"check", "seed"} =>
           \A n \in Names : floor[r][n] <= durable[Bucket(r)][n]
      /\ \A b \in Buckets, n \in Names :
           Unpublished(b, n) /\ PlanOf[b] # "cnt" /\ b \notin described =>
             \E r \in Records : pc[r] = "describe" /\ Bucket(r) = b

LEMMA FollowedInit == Init => Followed
<1> SUFFICES ASSUME Init PROVE Followed
  OBVIOUS
<1>1. ASSUME NEW b \in Buckets, NEW n \in Names PROVE ~Unpublished(b, n)
  <2>1. durable[b][n] \in Nat /\ hot[b][n] = 0
    BY ConstantsAssumption DEF Init, NoCounts
  <2>2. QED
    BY <2>1 DEF Unpublished
<1>2. QED
  BY <1>1 DEF Init, Followed, NothingForgotten, Unpublished

\* A handler that raises a count marks its bucket before it lets go of it.
LEMMA FollowedRecord ==
    ASSUME TypeOK, Followed, NoFailure, NEW r \in Records, RecordStep(r)
    PROVE  Followed'
<1>1. Bucket(r) \in Buckets /\ Name(r) \in Names
  BY CellInHand
<1>2. /\ UNCHANGED <<durable, batch, cur, snap, rows, spc>>
      /\ dirty \subseteq dirty' /\ described \subseteq described'
      /\ \A q \in Records : q # r =>
           pc'[q] = pc[q] /\ floor'[q] = floor[q] /\ Bucket(q)' = Bucket(q)
  BY DEF RecordStep, Claim, ReadFloor, CheckSeeded, SeedBucket, Increment,
         Describe, MarkDirty, redis, sweepers, TypeOK, Bucket
<1>3. \A b \in Buckets, n \in Names :
        hot[b][n] \in Nat /\ durable[b][n] \in Nat
  BY DEF TypeOK
<1>4. \A b \in Buckets, n \in Names : Unpublished(b, n) => OnItsWay(b, n)
  BY DEF Followed, NothingForgotten, Unpublished
<1>5. ASSUME NEW q \in Records, pc'[q] \in {"check", "seed"}, NEW n \in Names
      PROVE  floor'[q][n] <= durable'[Bucket(q)'][n]
  <2>1. CASE q # r
    BY <1>2, <1>5, <2>1 DEF Followed
  <2>2. CASE q = r /\ ReadFloor(r)
    <3>1. floor'[r] = durable[Bucket(r)] /\ Bucket(r)' = Bucket(r)
      BY <2>2 DEF ReadFloor, Bucket, TypeOK
    <3>2. QED
      BY <1>1, <1>2, <1>3, <2>2, <3>1
  <2>3. CASE q = r /\ CheckSeeded(r)
    BY <1>2, <1>5, <2>3 DEF CheckSeeded, Bucket, Followed
  <2>4. CASE q = r /\ ~ReadFloor(r) /\ ~CheckSeeded(r)
    BY <1>5, <2>4 DEF RecordStep, Claim, SeedBucket, Increment, Describe,
                      MarkDirty, TypeOK
  <2>5. QED
    BY <2>1, <2>2, <2>3, <2>4
<1>6. CASE Increment(r)
  <2>1. /\ pc[r] = "incr"
        /\ pc' = [pc EXCEPT ![r] = IF PlanOf[Bucket(r)] = "exc" THEN "describe" ELSE "mark"]
        /\ described' = IF PlanOf[Bucket(r)] = "cat"
                          THEN described \cup {Bucket(r)} ELSE described
        /\ hot' = [hot EXCEPT ![Bucket(r)][Name(r)] = @ + 1]
        /\ Bucket(r)' = Bucket(r)
    BY <1>6 DEF Increment, Bucket
  <2>2. pc'[r] \in {"describe", "mark"} /\ (PlanOf[Bucket(r)] = "exc" => pc'[r] = "describe")
    BY <2>1 DEF TypeOK
  <2>3. \A b \in Buckets : b # Bucket(r) => hot'[b] = hot[b]
    BY <2>1 DEF TypeOK
  <2>4. ASSUME NEW b \in Buckets, NEW n \in Names, Unpublished(b, n)'
        PROVE  OnItsWay(b, n)'
    <3>1. CASE b = Bucket(r)
      BY <2>1, <2>2, <3>1 DEF OnItsWay
    <3>2. CASE b # Bucket(r)
      <4>1. Unpublished(b, n)
        BY <1>2, <2>3, <2>4, <3>2 DEF Unpublished
      <4>2. QED
        BY <1>2, <1>4, <2>1, <2>3, <3>2, <4>1 DEF OnItsWay
    <3>3. QED
      BY <3>1, <3>2
  <2>5. ASSUME NEW b \in Buckets, NEW n \in Names, Unpublished(b, n)',
               PlanOf[b] # "cnt", b \notin described'
        PROVE  \E q \in Records : pc'[q] = "describe" /\ Bucket(q)' = b
    <3>1. CASE b = Bucket(r)
      <4>1. PlanOf[b] = "exc"
        BY <2>1, <2>5, <3>1, <1>1, ConstantsAssumption
      <4>2. QED
        BY <2>1, <2>2, <3>1, <4>1
    <3>2. CASE b # Bucket(r)
      <4>1. Unpublished(b, n)
        BY <1>2, <2>3, <2>5, <3>2 DEF Unpublished
      <4>2. PICK q \in Records : pc[q] = "describe" /\ Bucket(q) = b
        BY <1>2, <2>5, <4>1 DEF Followed
      <4>3. QED
        BY <1>2, <3>2, <4>2
    <3>3. QED
      BY <3>1, <3>2
  <2>6. QED
    BY <1>2, <1>5, <2>4, <2>5 DEF Followed, NothingForgotten, Unpublished
<1>7. CASE SeedBucket(r)
  <2>1. /\ pc[r] = "seed" /\ pc'[r] = "incr"
        /\ hot' = [hot EXCEPT ![Bucket(r)] = SeedIfAbsent(@, floor[r])]
        /\ dirty' = dirty /\ described' = described
    BY <1>7 DEF SeedBucket, TypeOK
  <2>2. \A n \in Names : floor[r][n] \in Nat /\ floor[r][n] <= durable[Bucket(r)][n]
    BY <2>1 DEF Followed, TypeOK
  <2>3. \A b \in Buckets, n \in Names :
          \/ hot'[b][n] = hot[b][n]
          \/ b = Bucket(r) /\ hot'[b][n] = floor[r][n]
    BY <2>1, <1>1 DEF SeedIfAbsent, TypeOK
  <2>4. \A b \in Buckets, n \in Names :
          Unpublished(b, n)' => Unpublished(b, n) /\ hot'[b][n] = hot[b][n]
    BY <1>1, <1>2, <1>3, <2>2, <2>3 DEF Unpublished
  <2>5. \A b \in Buckets, n \in Names : Unpublished(b, n)' => OnItsWay(b, n)'
    BY <1>2, <1>4, <2>1, <2>4 DEF OnItsWay
  <2>6. QED
    BY <1>2, <1>5, <2>1, <2>4, <2>5 DEF Followed, NothingForgotten, Unpublished
<1>8. CASE Describe(r)
  <2>1. /\ pc[r] = "describe" /\ pc'[r] = "mark" /\ Bucket(r)' = Bucket(r)
        /\ hot' = hot /\ described' = described \cup {Bucket(r)}
    BY <1>8 DEF Describe, Bucket, TypeOK
  <2>2. \A b \in Buckets, n \in Names : Unpublished(b, n)' => OnItsWay(b, n)'
    BY <1>2, <1>4, <2>1 DEF OnItsWay, Unpublished
  <2>3. QED
    BY <1>2, <1>5, <2>1, <2>2 DEF Followed, NothingForgotten, Unpublished
<1>9. CASE MarkDirty(r)
  <2>1. /\ pc[r] = "mark" /\ pc'[r] \in {"floor", "done"}
        /\ hot' = hot /\ described' = described /\ dirty' = dirty \cup {Bucket(r)}
    BY <1>9 DEF MarkDirty, TypeOK
  <2>2. \A b \in Buckets, n \in Names : Unpublished(b, n)' => OnItsWay(b, n)'
    BY <1>2, <1>4, <2>1 DEF OnItsWay, Unpublished
  <2>3. QED
    BY <1>2, <1>5, <2>1, <2>2 DEF Followed, NothingForgotten, Unpublished
<1>10. CASE Claim(r) \/ ReadFloor(r) \/ CheckSeeded(r)
  <2>1. /\ pc[r] \notin {"describe", "mark"}
        /\ UNCHANGED <<hot, described, dirty>>
    BY <1>10 DEF Claim, ReadFloor, CheckSeeded, redis
  <2>2. \A b \in Buckets, n \in Names : Unpublished(b, n)' => OnItsWay(b, n)'
    BY <1>2, <1>4, <2>1 DEF OnItsWay, Unpublished
  <2>3. QED
    BY <1>2, <1>5, <2>1, <2>2 DEF Followed, NothingForgotten, Unpublished
<1>11. QED
  BY <1>6, <1>7, <1>8, <1>9, <1>10 DEF RecordStep

\* A sweep takes a bucket off the registry, and lets go of it when the bucket is
\* marked again or every row it read is written.
LEMMA FollowedSweep ==
    ASSUME TypeOK, Followed, NoFailure, NEW s \in Sweeps, SweepStep(s)
    PROVE  Followed'
<1>1. /\ UNCHANGED <<hot, described, pc, touch, floor>>
      /\ \A q \in Sweeps : q # s => /\ spc'[q] = spc[q] /\ batch'[q] = batch[q]
                                   /\ cur'[q] = cur[q] /\ snap'[q] = snap[q]
                                   /\ rows'[q] = rows[q]
  BY DEF SweepStep, SweepDrainCnt, SweepDrainCat, SweepCheck, SweepRemark,
         SweepRead, SweepUpsert, handlers, redis, TypeOK
<1>2. \A b \in Buckets, n \in Names :
        hot[b][n] \in Nat /\ durable[b][n] \in Nat
  BY DEF TypeOK
<1>3. \A b \in Buckets, n \in Names : Unpublished(b, n) => OnItsWay(b, n)
  BY DEF Followed, NothingForgotten, Unpublished
<1>4. \A b \in Buckets, n \in Names : durable[b][n] <= durable'[b][n]
  <2>1. CASE SweepUpsert(s)
    <3>1. PICK n \in rows[s] :
            durable' = [durable EXCEPT ![cur[s]][n] = MergeCount(@, snap[s][n])]
      BY <2>1 DEF SweepUpsert
    <3>2. /\ n \in Names /\ cur[s] \in Buckets /\ snap[s][n] \in Nat
          /\ durable \in [Buckets -> [Names -> Nat]]
      BY DEF TypeOK
    <3>3. \A b \in Buckets, m \in Names :
            \/ durable'[b][m] = durable[b][m]
            \/ durable'[b][m] = MergeCount(durable[b][m], snap[s][n])
      BY <3>1, <3>2
    <3>4. QED
      BY <1>2, <3>2, <3>3 DEF MergeCount, Greatest
  <2>2. CASE ~SweepUpsert(s)
    <3>1. durable' = durable
      BY <2>2 DEF SweepStep, SweepDrainCnt, SweepDrainCat, SweepCheck,
                  SweepRemark, SweepRead
    <3>2. QED
      BY <1>2, <3>1
  <2>3. QED
    BY <2>1, <2>2
<1>5. durable' \in [Buckets -> [Names -> Nat]]
  BY TypeSweep DEF TypeOK
<1>6. \A b \in Buckets, n \in Names : Unpublished(b, n)' => Unpublished(b, n)
  BY <1>1, <1>2, <1>4, <1>5 DEF Unpublished
<1>7. \A r \in Records : pc'[r] \in {"check", "seed"} =>
         \A n \in Names : floor'[r][n] <= durable'[Bucket(r)'][n]
  <2>1. \A r \in Records : Bucket(r) \in Buckets /\ floor[r] \in [Names -> Nat]
    BY CellInHand DEF TypeOK
  <2>2. QED
    BY <1>1, <1>2, <1>4, <1>5, <2>1 DEF Followed, Bucket
<1>8. \A b \in Buckets, n \in Names :
         Unpublished(b, n)' /\ PlanOf[b] # "cnt" /\ b \notin described' =>
           \E r \in Records : pc'[r] = "describe" /\ Bucket(r)' = b
  BY <1>1, <1>6 DEF Followed, Bucket
<1>9. SUFFICES /\ spc'[s] = "idle" => batch'[s] = {}
               /\ \A b \in Buckets, n \in Names :
                    Unpublished(b, n) /\ Unpublished(b, n)' => OnItsWay(b, n)'
  BY <1>1, <1>6, <1>7, <1>8 DEF Followed, NothingForgotten, Unpublished
<1> DEFINE Held(b, n) ==
             \/ b \in batch[s]
             \/ cur[s] = b /\ spc[s] \in {"remark", "read"}
             \/ cur[s] = b /\ spc[s] = "upsert" /\ n \in rows[s] /\ snap[s][n] = hot[b][n]
\* What the registry, another sweep or a handler has on its way stays there.
<1>10. ASSUME NEW b \in Buckets, NEW n \in Names, OnItsWay(b, n),
              b \in dirty => b \in dirty' \/ Held(b, n)',
              Held(b, n) => b \in dirty' \/ Held(b, n)' \/
                \E r \in Records : pc[r] \in {"describe", "mark"} /\ Bucket(r) = b
       PROVE  OnItsWay(b, n)'
  BY <1>1, <1>10 DEF OnItsWay, Bucket
<1>11. CASE SweepDrainCnt(s)
  BY <1>3, <1>10, <1>11 DEF SweepDrainCnt, Followed, TypeOK
<1>12. CASE SweepDrainCat(s)
  BY <1>3, <1>10, <1>12 DEF SweepDrainCat, AfterBucket, TypeOK
<1>13. CASE SweepCheck(s)
  BY <1>3, <1>10, <1>13 DEF SweepCheck, redis, TypeOK
<1>14. CASE SweepRemark(s)
  BY <1>3, <1>10, <1>14 DEF SweepRemark, AfterBucket, TypeOK
<1>15. CASE SweepRead(s)
  <2> DEFINE todo == Project(cur[s], hot[cur[s]])
  <2>1. /\ spc[s] = "read" /\ cur[s] \in Buckets
        /\ snap'[s] = hot[cur[s]] /\ rows'[s] = todo
        /\ spc'[s] = IF todo = {} THEN AfterBucket(batch[s]) ELSE "upsert"
        /\ UNCHANGED <<dirty, batch, cur>>
    BY <1>15 DEF SweepRead, redis, TypeOK
  <2>2. spc'[s] = "idle" => batch'[s] = {}
    BY <2>1 DEF AfterBucket
  <2>3. ASSUME NEW b \in Buckets, NEW n \in Names, Unpublished(b, n),
               Unpublished(b, n)', Held(b, n)
        PROVE  \/ Held(b, n)'
               \/ \E r \in Records : pc[r] \in {"describe", "mark"} /\ Bucket(r) = b
    <3>1. CASE b \in batch[s]
      BY <2>1, <3>1
    <3>2. CASE b = cur[s] /\ (PlanOf[b] = "cnt" \/ b \in described)
      <4>1. hot[b][n] > 0
        BY <1>2, <2>3 DEF Unpublished
      <4>2. n \in todo
        BY <3>2, <4>1 DEF Project
      <4>3. QED
        BY <1>1, <2>1, <3>2, <4>2
    <3>3. CASE b = cur[s] /\ PlanOf[b] # "cnt" /\ b \notin described
      BY <1>1, <1>8, <2>3, <3>3 DEF Bucket
    <3>4. QED
      BY <2>1, <2>3, <3>1, <3>2, <3>3
  <2>4. QED
    BY <1>3, <1>10, <2>1, <2>2, <2>3
<1>16. CASE SweepUpsert(s)
  <2>1. PICK k \in rows[s] :
          /\ durable' = [durable EXCEPT ![cur[s]][k] = MergeCount(@, snap[s][k])]
          /\ rows' = [rows EXCEPT ![s] = @ \ {k}]
          /\ spc' = [spc EXCEPT ![s] =
                       IF rows[s] = {k} THEN AfterBucket(batch[s]) ELSE "upsert"]
    BY <1>16 DEF SweepUpsert
  <2>2. /\ spc[s] = "upsert" /\ rows'[s] = rows[s] \ {k}
        /\ spc'[s] = IF rows[s] = {k} THEN AfterBucket(batch[s]) ELSE "upsert"
        /\ UNCHANGED <<dirty, batch, cur, snap>>
    BY <1>16, <2>1 DEF SweepUpsert, redis, TypeOK
  <2>3. spc'[s] = "idle" => batch'[s] = {}
    BY <2>2 DEF AfterBucket
  <2>4. ASSUME NEW b \in Buckets, NEW n \in Names, Unpublished(b, n)', Held(b, n)
        PROVE  Held(b, n)'
    <3>1. CASE b \in batch[s]
      BY <2>2, <3>1
    <3>2. CASE cur[s] = b /\ n \in rows[s] /\ snap[s][n] = hot[b][n] /\ n # k
      <4>1. rows[s] # {k} /\ n \in rows'[s]
        BY <2>2, <3>2
      <4>2. QED
        BY <1>1, <2>2, <3>2, <4>1
    <3>3. CASE cur[s] = b /\ snap[s][n] = hot[b][n] /\ n = k
      <4>1. durable'[b][n] = MergeCount(durable[b][n], hot[b][n])
        BY <2>1, <3>3 DEF TypeOK
      <4>2. ~(durable'[b][n] < hot[b][n])
        BY <1>2, <4>1 DEF MergeCount, Greatest
      <4>3. QED
        BY <1>1, <2>4, <4>2 DEF Unpublished
    <3>4. QED
      BY <2>2, <2>4, <3>1, <3>2, <3>3
  <2>5. QED
    BY <1>3, <1>10, <2>2, <2>3, <2>4
<1>17. QED
  BY <1>11, <1>12, <1>13, <1>14, <1>15, <1>16 DEF SweepStep

LEMMA FollowedNext == TypeOK /\ Followed /\ [Next]_vars => Followed'
<1> SUFFICES ASSUME TypeOK, Followed, [Next]_vars, NoFailure'
             PROVE  Followed'
  BY DEF Followed
<1>1. CASE UNCHANGED vars
  BY <1>1 DEF vars, redis, handlers, sweepers, failures, Followed, NoFailure,
              NothingForgotten, OnItsWay, Unpublished, Bucket
<1>2. ASSUME NEW r \in Records, RecordStep(r)
      PROVE  Followed'
  <2>1. NoFailure
    BY <1>2 DEF NoFailure, RecordStep, Claim, ReadFloor, CheckSeeded, SeedBucket,
                Increment, Describe, MarkDirty, failures
  <2>2. QED
    BY <1>2, <2>1, FollowedRecord
<1>3. ASSUME NEW s \in Sweeps, SweepStep(s)
      PROVE  Followed'
  <2>1. NoFailure
    BY <1>3 DEF NoFailure, SweepStep, SweepDrainCnt, SweepDrainCat, SweepCheck,
                SweepRemark, SweepRead, SweepUpsert, failures
  <2>2. QED
    BY <1>3, <2>1, FollowedSweep
<1>4. ASSUME NEW j \in Jobs, Enqueue(j) \/ AckJob(j)
      PROVE  Followed'
  <2>1. /\ UNCHANGED <<redis, durable, touch, floor, sweepers, failures>>
        /\ \A r \in Records : pc'[r] = pc[r] \/ (pc[r] = "absent" /\ pc'[r] = "queued")
    BY <1>4 DEF Enqueue, AckJob, TypeOK
  <2>2. QED
    BY <2>1 DEF redis, sweepers, failures, Followed, NoFailure, NothingForgotten,
                OnItsWay, Unpublished, Bucket
<1>5. ASSUME \/ \E r \in Records : RecordFail(r)
             \/ \E s \in Sweeps : SweepFail(s)
             \/ Crash
             \/ RedisLoss
      PROVE  FALSE
  BY <1>5 DEF RecordFail, SweepFail, Crash, RedisLoss, NoFailure, TypeOK
<1>6. QED
  BY <1>1, <1>2, <1>3, <1>4, <1>5 DEF Next

\* Where no process dies and nothing throws, a count above its row is always on
\* its way to Postgres, for any number of sweeps at once and any order of their
\* steps: a mark that arrives during a sweep lands in the next one.
THEOREM NoCountForgotten == Spec => []NothingForgottenWithoutFailure
<1>1. Init => TypeOK /\ Followed
  BY TypeInit, FollowedInit
<1>2. TypeOK /\ Followed /\ [Next]_vars => (TypeOK /\ Followed)'
  BY TypeNext, FollowedNext
<1>3. Followed => NothingForgottenWithoutFailure
  BY DEF Followed, NoFailure, NothingForgottenWithoutFailure
<1>4. QED
  BY <1>1, <1>2, <1>3, PTL DEF Spec

-----------------------------------------------------------------------------
(* The dashboard: a page stays within what was counted, from the invariants  *)
(* of the counting path it reads.                                            *)

LEMMA PagesTypeInit == DashboardInit => PagesTypeOK
  BY ConstantsAssumption DEF DashboardInit, PagesInit, PagesTypeOK, NoCounts

LEMMA PagesTypeNext ==
    TypeOK /\ PagesTypeOK /\ [DashboardNext]_allVars => PagesTypeOK'
<1> SUFFICES ASSUME TypeOK, PagesTypeOK, [DashboardNext]_allVars
             PROVE  PagesTypeOK'
  OBVIOUS
<1>1. CASE UNCHANGED pages
  BY <1>1 DEF pages, PagesTypeOK
<1>2. ASSUME NEW q \in Pages, Ask(q)
      PROVE  PagesTypeOK'
  <2>1. PICK b \in Buckets : /\ asked' = [asked EXCEPT ![q] = b]
                             /\ atStart' = [atStart EXCEPT ![q] = Counted[b]]
    BY <1>2 DEF Ask, Shown
  <2>2. Counted[b] \in [Names -> Nat]
    BY DEF Counted, TypeOK
  <2>3. QED
    BY <1>2, <2>1, <2>2 DEF Ask, PagesTypeOK
<1>3. ASSUME NEW q \in Pages, ReadLive(q)
      PROVE  PagesTypeOK'
  <2>1. hot[asked[q]] \in [Names -> Nat]
    BY DEF TypeOK, PagesTypeOK
  <2>2. QED
    BY <1>3, <2>1 DEF ReadLive, PagesTypeOK
<1>4. ASSUME NEW q \in Pages, ReadStored(q)
      PROVE  PagesTypeOK'
  <2>1. durable[asked[q]] \in [Names -> Nat]
    BY DEF TypeOK, PagesTypeOK
  <2>2. QED
    BY <1>4, <2>1 DEF ReadStored, PagesTypeOK
<1>5. QED
  BY <1>1, <1>2, <1>3, <1>4 DEF DashboardNext, PageStep, allVars

-----------------------------------------------------------------------------
\* Why PageWithinCounts holds.  Each read alone is within what was counted, and
\* what was counted only grows.  The live read misses nothing unless the bucket
\* was not seeded; then nothing had been counted since the start, and the
\* durable rows, whenever they are read, hold at least what they held then.
PageFacts(q) ==
    LET b == asked[q]
    IN  \A n \in Names :
          /\ page[q] # "idle" => atStart[q][n] <= base[b][n] + incs[b][n]
          /\ page[q] \in {"live", "answered"} =>
               /\ live[q][n] <= base[b][n] + incs[b][n]
               /\ losses = 0 => \/ atStart[q][n] <= live[q][n]
                                \/ atStart[q][n] <= base[b][n]
          /\ page[q] \in {"stored", "answered"} =>
               /\ stored[q][n] <= base[b][n] + incs[b][n]
               /\ base[b][n] <= stored[q][n]

Pursued ==
    /\ \A b \in Buckets, n \in Names : base[b][n] <= durable[b][n]
    /\ \A q \in Pages : PageFacts(q)

LEMMA PursuedInit == DashboardInit => Pursued
<1>1. ASSUME DashboardInit
      PROVE  \A b \in Buckets, n \in Names : base[b][n] <= durable[b][n]
  BY <1>1, ConstantsAssumption DEF DashboardInit, Init
<1>2. ASSUME DashboardInit, NEW q \in Pages
      PROVE  page[q] = "idle"
  BY <1>2 DEF DashboardInit, PagesInit
<1>3. QED
  BY <1>1, <1>2 DEF Pursued, PageFacts

\* A step of the counting path keeps the facts: what was counted grows, rows
\* grow, and Redis is never given back what it lost.
LEMMA PursuedUnderNext ==
    ASSUME TypeOK, PagesTypeOK, Pursued, Next, UNCHANGED pages
    PROVE  Pursued'
<1>1. /\ base' = base
      /\ \A b \in Buckets, n \in Names : incs[b][n] <= incs'[b][n]
  BY CountedGrows
<1>2. \A b \in Buckets, n \in Names : durable[b][n] <= durable'[b][n]
  <2>1. durable \in [Buckets -> [Names -> Nat]] /\ snap \in [Sweeps -> [Names -> Nat]]
        /\ cur \in [Sweeps -> Buckets]
    BY DEF TypeOK
  <2>2. ASSUME NEW s \in Sweeps, NEW n \in Names,
               durable[cur[s]][n] < snap[s][n],
               durable' = [durable EXCEPT ![cur[s]][n] = snap[s][n]],
               NEW b \in Buckets, NEW m \in Names
        PROVE  durable[b][m] <= durable'[b][m]
    <3>1. durable[b][m] \in Nat /\ snap[s][n] \in Nat /\ cur[s] \in Buckets
      BY <2>1
    <3>2. durable'[b][m] = IF b = cur[s] /\ m = n THEN snap[s][n] ELSE durable[b][m]
      BY <2>1, <2>2, <3>1, CellUpdate
    <3>3. QED
      BY <2>2, <3>1, <3>2
  <2>3. \A b \in Buckets, m \in Names : durable[b][m] <= durable[b][m]
    BY <2>1
  <2>4. QED
    BY <2>2, <2>3, DurableWrites
<1>3. losses' = 0 => losses = 0
  <2>1. CASE RedisLoss
    BY <2>1 DEF RedisLoss, TypeOK
  <2>2. ASSUME \/ \E j \in Jobs : Enqueue(j) \/ AckJob(j)
               \/ Crash
        PROVE  losses' = losses
    BY <2>2 DEF Enqueue, AckJob, Crash, failures
  <2>3. ASSUME NEW r \in Records, RecordStep(r) \/ RecordFail(r)
        PROVE  losses' = losses
    BY <2>3 DEF RecordStep, RecordFail, Claim, ReadFloor, CheckSeeded, SeedBucket,
                Increment, Describe, MarkDirty, failures
  <2>4. ASSUME NEW s \in Sweeps, SweepStep(s) \/ SweepFail(s)
        PROVE  losses' = losses
    BY <2>4 DEF SweepStep, SweepFail, SweepDrainCnt, SweepDrainCat, SweepCheck,
                SweepRemark, SweepRead, SweepUpsert, failures
  <2>5. QED
    BY <2>1, <2>2, <2>3, <2>4 DEF Next
<1>4. \A b \in Buckets, n \in Names :
        /\ base[b][n] \in Nat /\ incs[b][n] \in Nat /\ incs'[b][n] \in Nat
        /\ durable[b][n] \in Nat /\ durable'[b][n] \in Nat
  BY TypeNext DEF TypeOK
<1>5. \A b \in Buckets, n \in Names : base'[b][n] <= durable'[b][n]
  BY <1>1, <1>2, <1>4 DEF Pursued
<1>6. ASSUME NEW q \in Pages
      PROVE  PageFacts(q)'
  <2>1. asked[q] \in Buckets
    BY DEF PagesTypeOK
  <2>2. \A n \in Names : live[q][n] \in Nat /\ stored[q][n] \in Nat /\ atStart[q][n] \in Nat
    BY DEF PagesTypeOK
  <2>3. PageFacts(q)
    BY DEF Pursued
  <2>4. QED
    BY <1>1, <1>3, <1>4, <2>1, <2>2, <2>3 DEF PageFacts, pages
<1>7. QED
  BY <1>5, <1>6 DEF Pursued

\* A step of a page keeps them.
LEMMA PursuedUnderPage ==
    ASSUME TypeOK, Bounded, Exact, PagesTypeOK, Pursued,
           NEW q \in Pages, PageStep(q), UNCHANGED vars
    PROVE  Pursued'
<1>1. UNCHANGED <<base, incs, durable, losses, hot, seeded>>
  BY DEF vars, redis, failures
<1>2. \A b \in Buckets, n \in Names :
        base[b][n] \in Nat /\ incs[b][n] \in Nat /\ durable[b][n] \in Nat /\ hot[b][n] \in Nat
  BY DEF TypeOK
<1>3. asked[q] \in Buckets
  BY DEF PagesTypeOK
<1>4. \A p \in Pages : PageFacts(p)
  BY DEF Pursued
<1>5. ASSUME NEW p \in Pages, p # q
      PROVE  PageFacts(p)'
  <2>1. /\ page'[p] = page[p] /\ asked'[p] = asked[p] /\ live'[p] = live[p]
        /\ stored'[p] = stored[p] /\ atStart'[p] = atStart[p]
    BY <1>5 DEF PageStep, Ask, ReadLive, ReadStored, PagesTypeOK
  <2>2. QED
    BY <1>1, <1>4, <2>1 DEF PageFacts
<1>6. PageFacts(q)'
  <2>1. CASE Ask(q)
    <3>1. PICK b \in Buckets : /\ asked' = [asked EXCEPT ![q] = b]
                               /\ atStart' = [atStart EXCEPT ![q] = Counted[b]]
      BY <2>1 DEF Ask, Shown
    <3>2. /\ page'[q] = "asked" /\ asked'[q] = b
          /\ \A n \in Names : atStart'[q][n] = base[b][n] + incs[b][n]
      BY <2>1, <3>1 DEF Ask, PagesTypeOK, Counted
    <3>3. QED
      BY <1>1, <1>2, <3>2 DEF PageFacts
  <2>2. CASE ReadLive(q)
    <3>1. /\ page[q] \in {"asked", "stored"}
          /\ page'[q] = IF page[q] = "asked" THEN "live" ELSE "answered"
          /\ live'[q] = hot[asked[q]]
          /\ asked'[q] = asked[q] /\ stored'[q] = stored[q] /\ atStart'[q] = atStart[q]
      BY <2>2 DEF ReadLive, PagesTypeOK
    <3>2. ASSUME NEW n \in Names
          PROVE  /\ hot[asked[q]][n] <= base[asked[q]][n] + incs[asked[q]][n]
                 /\ losses = 0 => \/ atStart[q][n] <= hot[asked[q]][n]
                                  \/ atStart[q][n] <= base[asked[q]][n]
      <4>1. atStart[q][n] <= base[asked[q]][n] + incs[asked[q]][n]
        BY <1>4, <3>1 DEF PageFacts
      <4>2. hot[asked[q]][n] <= base[asked[q]][n] + incs[asked[q]][n]
        BY <1>3 DEF Bounded, Within
      <4>3. ASSUME losses = 0, asked[q] \in seeded
            PROVE  hot[asked[q]][n] = base[asked[q]][n] + incs[asked[q]][n]
        BY <4>3, <1>3 DEF Exact
      <4>4. ASSUME losses = 0, asked[q] \notin seeded
            PROVE  incs[asked[q]][n] = 0
        BY <4>4, <1>3 DEF Exact
      <4>5. QED
        BY <4>1, <4>2, <4>3, <4>4, <1>2, <1>3
    <3>3. QED
      BY <1>1, <1>4, <3>1, <3>2 DEF PageFacts
  <2>3. CASE ReadStored(q)
    <3>1. /\ page[q] \in {"asked", "live"}
          /\ page'[q] = IF page[q] = "asked" THEN "stored" ELSE "answered"
          /\ stored'[q] = durable[asked[q]]
          /\ asked'[q] = asked[q] /\ live'[q] = live[q] /\ atStart'[q] = atStart[q]
      BY <2>3 DEF ReadStored, PagesTypeOK
    <3>2. \A n \in Names :
            /\ durable[asked[q]][n] <= base[asked[q]][n] + incs[asked[q]][n]
            /\ base[asked[q]][n] <= durable[asked[q]][n]
      BY <1>3 DEF Bounded, Within, Pursued
    <3>3. QED
      BY <1>1, <1>4, <3>1, <3>2 DEF PageFacts
  <2>4. QED
    BY <2>1, <2>2, <2>3 DEF PageStep
<1>7. QED
  BY <1>1, <1>5, <1>6 DEF Pursued

\* Whatever is seeded, counted, flushed and lost between its two reads, a page
\* never shows more than was counted, and while Redis keeps its data never less
\* than was counted when it asked.
THEOREM PageCorrect == DashboardSpec => []PageWithinCounts
<1> DEFINE Inv == TypeOK /\ Bounded /\ Exact /\ PagesTypeOK /\ Pursued
<1>1. DashboardInit => Inv
  BY TypeInit, BoundedInit, ExactInit, PagesTypeInit, PursuedInit DEF DashboardInit
<1>2. Inv /\ [DashboardNext]_allVars => Inv'
  <2> SUFFICES ASSUME Inv, [DashboardNext]_allVars
               PROVE  Inv'
    OBVIOUS
  <2>1. [Next]_vars
    BY DEF DashboardNext, allVars
  <2>2. TypeOK' /\ Bounded' /\ Exact'
    BY <2>1, TypeNext, BoundedNext, ExactNext
  <2>3. PagesTypeOK'
    BY PagesTypeNext
  <2>4. Pursued'
    <3>1. CASE UNCHANGED allVars
      BY <3>1 DEF allVars, vars, failures, pages, Pursued, PageFacts
    <3>2. CASE Next /\ UNCHANGED pages
      BY <3>2, PursuedUnderNext
    <3>3. ASSUME NEW q \in Pages, PageStep(q), UNCHANGED vars
          PROVE  Pursued'
      BY <3>3, PursuedUnderPage
    <3>4. QED
      BY <3>1, <3>2, <3>3 DEF DashboardNext
  <2>5. QED
    BY <2>2, <2>3, <2>4
<1>3. Inv => PageWithinCounts
  <2> SUFFICES ASSUME Inv, NEW q \in Pages, page[q] = "answered", NEW n \in Names
               PROVE  LET answer == Merged(live[q], stored[q])
                      IN  /\ answer[n] <= Counted[asked[q]][n]
                          /\ losses = 0 => atStart[q][n] <= answer[n]
    BY DEF PageWithinCounts
  <2>1. /\ asked[q] \in Buckets /\ live[q][n] \in Nat /\ stored[q][n] \in Nat
        /\ atStart[q][n] \in Nat
    BY DEF PagesTypeOK
  <2>2. PageFacts(q)
    BY DEF Pursued
  <2>3. base[asked[q]][n] \in Nat /\ incs[asked[q]][n] \in Nat
    BY <2>1 DEF TypeOK
  <2>4. Counted[asked[q]][n] = base[asked[q]][n] + incs[asked[q]][n]
    BY <2>1 DEF Counted
  <2>5. Merged(live[q], stored[q])[n] =
          IF live[q][n] < stored[q][n] THEN stored[q][n] ELSE live[q][n]
    BY DEF Merged, Greatest
  <2>6. QED
    BY <2>1, <2>2, <2>3, <2>4, <2>5 DEF PageFacts
<1>4. QED
  BY <1>1, <1>2, <1>3, PTL DEF DashboardSpec
=============================================================================
