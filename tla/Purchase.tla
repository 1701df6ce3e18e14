------------------------------ MODULE Purchase ------------------------------
(***************************************************************************)
(* The purchases of one game on one day: steps 6 to 8 of the kernel for    *)
(* server rows (money) and client companions (context), and the flush of   *)
(* the revenue cells, the day total and the payer set.                     *)
(*                                                                         *)
(* A cell of the day is a product under one combination of dimensions.     *)
(* The product is fixed here; of the dimensions payer_tier stands for what *)
(* the server derives and one client value for what a companion supplies.  *)
(* A hot cell carries the purchase count and the normalized revenue; the   *)
(* local sums and the category move in the same scripts.                   *)
(*                                                                         *)
(* One Redis command, one Lua script, one MULTI, one SQL statement and one *)
(* Postgres commit are atomic; whatever is awaited apart is a step apart.  *)
(***************************************************************************)
EXTENDS Integers, Sequences, FiniteSetsExt

CONSTANTS
    Records,           \* deliveries of purchase records
    Arrivals,          \* the sets of them that may come in
    Companions,        \* those with source = client; the others are server rows
    Eligible,          \* server rows: verified, prod, sent with a server credential
    Transactions,      \* transaction ids
    Users,             \* payers
    Attempts,          \* purchase_attempt_ids, the join key of row and companion
    Events,            \* event ids of companions
    Values,            \* values of the client dimension
    None,              \* no value, no cell, nothing staged
    TxOf, UserOf,      \* transaction id on a record (or None), payer of a transaction
    AttemptOf,         \* attempt of a record; a server row may carry None
    EventOf, ValueOf,  \* event id and client value (or None) of a companion
    PriceOf,           \* price of a transaction at the rate of its day
    Parked,            \* transactions without a usable exchange rate
    ValueCap,          \* monetization_dimension_value_cap
    DolphinMin, WhaleMin,   \* payer_tier_rule
    Before,            \* transactions of the day committed before Redis was lost
    Stored,            \* what Postgres holds of the day at the start, with them
    Sweeps,            \* flush sweeps
    MaxFailures        \* bound: kills of the worker, records and sweeps that throw

Servers == Records \ Companions
Tiers == {"first", "minnow", "dolphin", "whale", "indeterminate"}
ClientValues == Values \cup {"unknown", "other"}
Cells == Tiers \X ClientValues
Staged == [tx : Transactions, cell : Cells, rev : Nat]   \* a server row as it is staged
Hashes == {"mon", "meta", "payer", "rev"}
Domains == {"payer", "mon", "rev"}
Empty == [c \in {} |-> 0]

\* What a purchase adds: 0 while its amount is parked.
Normalized(t) == IF t \in Parked THEN 0 ELSE PriceOf[t]

\* Types: a hash or table by cell, and what Postgres holds of the day.
IsTable(f, row) == DOMAIN f \subseteq Cells /\ f \in [DOMAIN f -> row]
IsDay(d) ==
    /\ d = [cells |-> d.cells, total |-> d.total, gen |-> d.gen, members |-> d.members]
    /\ IsTable(d.cells, [cnt : Int, rev : Int, gen : Nat])
    /\ d.total \in Int /\ d.gen \in Nat /\ d.members \subseteq Users

ASSUME ConstantsAssumption ==
    /\ Companions \subseteq Records /\ Eligible \subseteq Servers
    /\ Arrivals \subseteq SUBSET Records
    /\ TxOf \in [Records -> Transactions \cup {None}]
    /\ \A r \in Servers : TxOf[r] # None
    /\ UserOf \in [Transactions -> Users]
    /\ AttemptOf \in [Records -> Attempts \cup {None}]
    /\ \A r \in Companions : AttemptOf[r] # None
    /\ EventOf \in [Companions -> Events]
    /\ None \notin Values \cup Cells \cup Transactions \cup Attempts \cup Staged
    /\ ValueOf \in [Companions -> Values \cup {None}]
    /\ PriceOf \in [Transactions -> Nat] /\ Parked \subseteq Transactions
    /\ ValueCap \in Nat /\ DolphinMin \in Nat /\ WhaleMin \in Nat
    /\ Before \subseteq Transactions /\ IsFiniteSet(Before)
    /\ IsDay(Stored) /\ IsFiniteSet(DOMAIN Stored.cells)
    /\ MaxFailures \in Nat

VARIABLES
    claimed,      \* Postgres: transaction ids in purchase_idempotency
    spine,        \* Postgres: payer_spine_ext
    period,       \* Postgres: payer_period_spend of the month
    day,          \* Postgres: monetization_cell rows and payer_day of the day
    dedup,        \* Redis: event ids with a live dedup marker
    stage,        \* Redis: stage:{purchase_attempt_id}
    admitted,     \* Redis: values the cardinality guard has admitted
    cells,        \* Redis: mon:{day}:cnt and :rev, by the fields present
    gen,          \* Redis: generation in mon:{day}:meta
    total,        \* Redis: rev:{day}
    payers,       \* Redis: payer:{day}
    seeded,       \* Redis: hashes that hold the seeded marker
    dirty,        \* Redis: domains whose bucket of the day is registered
    sealed,       \* the day is past its grace
    pc,           \* pc[r]: where the record's handler is
    tier,         \* tier[r]: payer tier read before the purchase
    floor,        \* floor[r]: what the handler last read of day
    todo,         \* todo[r]: hashes it has still to look at
    held,         \* held[r]: server side of the stage a companion has read
    value,        \* value[r]: client value the handler works with
    spc, snap, rows,   \* sweep: domain and phase, what it read, cells to write
    stamp,        \* history: stamp[t], tier the committed purchase was given
    counted,      \* history: counted[t], rollups of t
    place,        \* history: place[t], the cell t is in
    late,         \* history: companions that came when their row was staged
    failures      \* history: failures so far

ledger   == <<claimed, spine, period>>
hotDay   == <<cells, gen, total, payers, seeded>>
handlers == <<pc, tier, floor, todo, held, value>>
sweepers == <<spc, snap, rows>>
history  == <<stamp, counted, place, late, failures>>
vars == <<ledger, day, dedup, stage, admitted, hotDay, dirty, sealed, handlers,
          sweepers, history>>

NoStage == [srv |-> None, cmp |-> None]
Idle == <<"payer", "drain">>
SeedOrder == <<"mon", "meta", "payer", "rev">>

\* The row of payer u when the transactions ts are what has been paid.
Payer(ts, u) ==
    LET mine == {t \in ts : UserOf[t] = u}
    IN  [row |-> mine # {}, lifetime |-> MapThenSumSet(Normalized, mine),
         unconverted |-> mine \cap Parked # {}]

Init ==
    /\ claimed = Before
    /\ spine = [u \in Users |-> Payer(Before, u)]
    /\ period = [u \in Users |-> Payer(Before, u).lifetime]
    /\ day = Stored
    /\ dedup = {} /\ admitted = {} /\ seeded = {} /\ dirty = {}
    /\ stage = [a \in Attempts |-> NoStage]
    /\ cells = Empty /\ gen = 0 /\ total = 0 /\ payers = {}
    /\ sealed = FALSE
    /\ pc \in {[r \in Records |-> IF r \in sent THEN "queued" ELSE "absent"] : sent \in Arrivals}
    /\ tier = [r \in Records |-> "first"]
    /\ floor = [r \in Records |-> None]
    /\ todo = [r \in Records |-> SeedOrder]
    /\ held = [r \in Records |-> None]
    /\ value = [r \in Records |-> "unknown"]
    /\ spc = [s \in Sweeps |-> Idle]
    /\ snap = [s \in Sweeps |-> None]
    /\ rows = [s \in Sweeps |-> {}]
    /\ stamp = [t \in Transactions |-> IF t \in Before THEN "first" ELSE None]
    /\ counted = [t \in Transactions |-> 0]
    /\ place = [t \in Transactions |-> None]
    /\ late = {} /\ failures = 0

-----------------------------------------------------------------------------
(* Steps 5 to 7 of a server row *)

\* Steps 5 and 6: a sealed day and a transaction already in the table stop the
\* row.  The check claims nothing; an ineligible row ends at step 7.
CheckClaimed(r) ==
    /\ r \in Servers /\ pc[r] = "queued"
    /\ pc' = [pc EXCEPT ![r] = IF sealed \/ TxOf[r] \in claimed \/ r \notin Eligible
                                 THEN "done" ELSE "preread"]
    /\ UNCHANGED <<ledger, day, dedup, stage, admitted, hotDay, dirty, sealed,
                   tier, floor, todo, held, value, sweepers, history>>

ClassifyTier(payer) ==
    IF ~payer.row THEN "first"
    ELSE IF payer.unconverted THEN "indeterminate"
    ELSE IF payer.lifetime >= WhaleMin THEN "whale"
    ELSE IF payer.lifetime >= DolphinMin THEN "dolphin"
    ELSE "minnow"

\* The transaction of step 7 starts with a read of the payer.
PreRead(r) ==
    /\ pc[r] = "preread"
    /\ tier' = [tier EXCEPT ![r] = ClassifyTier(spine[UserOf[TxOf[r]]])]
    /\ pc' = [pc EXCEPT ![r] = "commit"]
    /\ UNCHANGED <<ledger, day, dedup, stage, admitted, hotDay, dirty, sealed,
                   floor, todo, held, value, sweepers, history>>

\* payer_spine_ext: inserted, or the spend added and the flag kept or raised.
Paid(payer, t) == [row |-> TRUE,
                   lifetime |-> payer.lifetime + Normalized(t),
                   unconverted |-> payer.unconverted \/ t \in Parked]

\* What one commit writes for transaction t, paid in tier x.
Book(t, x) ==
    /\ claimed' = claimed \cup {t}
    /\ spine' = [spine EXCEPT ![UserOf[t]] = Paid(@, t)]
    /\ period' = [period EXCEPT ![UserOf[t]] = @ + Normalized(t)]
    /\ stamp' = [stamp EXCEPT ![t] = x]

\* Mutated forms of Commit: the outcome of the insert is not looked at; a
\* duplicate goes on to step 8; the tier is read when the spend is written.
CommitWithoutConflict(r) ==
    /\ pc[r] = "commit"
    /\ Book(TxOf[r], tier[r])
    /\ pc' = [pc EXCEPT ![r] = "floors"]
    /\ UNCHANGED <<day, dedup, stage, admitted, hotDay, dirty, sealed, tier,
                   floor, todo, held, value, sweepers, counted, place,
                   late, failures>>

CommitAndResume(r) ==
    /\ pc[r] = "commit"
    /\ pc' = [pc EXCEPT ![r] = "floors"]
    /\ IF TxOf[r] \in claimed THEN UNCHANGED <<ledger, stamp>> ELSE Book(TxOf[r], tier[r])
    /\ UNCHANGED <<day, dedup, stage, admitted, hotDay, dirty, sealed, tier,
                   floor, todo, held, value, sweepers, counted, place,
                   late, failures>>

CommitThenRead(r) ==
    LET t == TxOf[r]
    IN  /\ pc[r] = "commit"
        /\ IF t \in claimed
             THEN pc' = [pc EXCEPT ![r] = "done"] /\ UNCHANGED <<ledger, stamp>>
             ELSE /\ Book(t, ClassifyTier(Paid(spine[UserOf[t]], t)))
                  /\ pc' = [pc EXCEPT ![r] = "floors"]
        /\ UNCHANGED <<day, dedup, stage, admitted, hotDay, dirty, sealed, tier,
                       floor, todo, held, value, sweepers, counted, place,
                       late, failures>>

\* INSERT ... ON CONFLICT DO NOTHING decides between deliveries that passed
\* step 6 together: the loser writes nothing and does nothing at step 8.
Commit(r) ==
    /\ pc[r] = "commit"
    /\ IF TxOf[r] \in claimed
         THEN pc' = [pc EXCEPT ![r] = "done"] /\ UNCHANGED <<ledger, stamp>>
         ELSE pc' = [pc EXCEPT ![r] = "floors"] /\ Book(TxOf[r], tier[r])
    /\ UNCHANGED <<day, dedup, stage, admitted, hotDay, dirty, sealed, tier,
                   floor, todo, held, value, sweepers, counted, place,
                   late, failures>>

-----------------------------------------------------------------------------
(* Steps 6 and 8 of a companion, up to the join *)

\* History: the first delivery of an event finds the row staged, the day open.
ComesLate(r) ==
    /\ stage[AttemptOf[r]].srv # None /\ ~sealed
    /\ \A q \in Companions \ {r} : EventOf[q] = EventOf[r] => pc[q] \in {"queued", "absent"}

\* Step 6: a record that carries a transaction id is checked against the table
\* of transactions, any other against the window of event ids.
Arrive(r) ==
    LET duplicate == IF TxOf[r] # None THEN TxOf[r] \in claimed ELSE EventOf[r] \in dedup
    IN  /\ r \in Companions /\ pc[r] = "queued"
        /\ late' = IF ComesLate(r) THEN late \cup {r} ELSE late
        /\ dedup' = IF TxOf[r] = None THEN dedup \cup {EventOf[r]} ELSE dedup
        /\ pc' = [pc EXCEPT ![r] = IF duplicate THEN "done" ELSE "join"]
        /\ UNCHANGED <<ledger, day, stage, admitted, hotDay, dirty, sealed, tier,
                       floor, todo, held, value, sweepers, stamp, counted,
                       place, failures>>

\* HGETALL of the stage.  With the row staged the companion will move the
\* purchase, unless its day is sealed; without it the companion is staged.
Join(r) ==
    LET srv == stage[AttemptOf[r]].srv
    IN  /\ pc[r] = "join"
        /\ held' = [held EXCEPT ![r] = srv]
        /\ pc' = [pc EXCEPT ![r] = IF srv = None THEN "wait"
                                   ELSE IF sealed THEN "done" ELSE "floors"]
        /\ UNCHANGED <<ledger, day, dedup, stage, admitted, hotDay, dirty,
                       sealed, tier, floor, todo, value, sweepers, history>>

\* An orphan leaves its context for the row; no context, nothing written.
StageCompanion(r) ==
    /\ pc[r] = "wait"
    /\ stage' = IF ValueOf[r] = None THEN stage
                ELSE [stage EXCEPT ![AttemptOf[r]].cmp = ValueOf[r]]
    /\ pc' = [pc EXCEPT ![r] = "done"]
    /\ UNCHANGED <<ledger, day, dedup, admitted, hotDay, dirty, sealed, tier,
                   floor, todo, held, value, sweepers, history>>

-----------------------------------------------------------------------------
(* Step 8: seed the hashes of the day, on either path *)

\* Mutated form of MaxGen: a hash that was lost starts again from 0.
ZeroGen(d) == 0

\* The generation starts where the rows of the day have got to.
MaxGen(d) == Max({0} \cup {d.cells[c].gen : c \in DOMAIN d.cells})

\* One SELECT for each hash in turn, awaited before its seed is sent.
ReadFloor(r) ==
    /\ pc[r] = "floors"
    /\ floor' = [floor EXCEPT ![r] = day]
    /\ pc' = [pc EXCEPT ![r] = "check"]
    /\ UNCHANGED <<ledger, day, dedup, stage, admitted, hotDay, dirty, sealed,
                   tier, todo, held, value, sweepers, history>>

\* HSETNX of every field the floor has.
Filled(hash, rws) ==
    [c \in DOMAIN hash \cup DOMAIN rws |->
        IF c \in DOMAIN hash THEN hash[c] ELSE [cnt |-> rws[c].cnt, rev |-> rws[c].rev]]

\* On to the next hash; after the last a companion's props are read.
NextHash(r) ==
    LET last == Len(todo[r]) = 1
    IN  /\ todo' = [todo EXCEPT ![r] = IF last THEN SeedOrder ELSE Tail(@)]
        /\ floor' = [floor EXCEPT ![r] = None]
        /\ pc' = [pc EXCEPT ![r] = IF ~last THEN "floors"
                                   ELSE IF r \in Servers THEN "context" ELSE "resolve"]
        /\ value' = IF last /\ r \in Companions
                    THEN [value EXCEPT ![r] = ValueOf[r]] ELSE value

\* A hash that carries the marker needs no seed.
CheckSeeded(r) ==
    /\ pc[r] = "check"
    /\ IF Head(todo[r]) \in seeded
         THEN NextHash(r)
         ELSE pc' = [pc EXCEPT ![r] = "seed"] /\ UNCHANGED <<todo, floor, value>>
    /\ UNCHANGED <<ledger, day, dedup, stage, admitted, hotDay, dirty, sealed,
                   tier, held, sweepers, history>>

\* The MULTI: fields that are absent, then the marker.  Another handler may have
\* seeded the hash, and counted in it, since the check.
SeedHash(r) ==
    LET h == Head(todo[r])
        absent == h \notin seeded
    IN  /\ pc[r] = "seed"
        /\ NextHash(r)
        /\ seeded' = seeded \cup {h}
        /\ cells' = IF h = "mon" THEN Filled(cells, floor[r].cells) ELSE cells
        /\ gen' = IF h = "meta" /\ absent THEN MaxGen(floor[r]) ELSE gen
        /\ total' = IF h = "rev" /\ absent THEN floor[r].total ELSE total
        /\ payers' = IF h = "payer" THEN payers \cup floor[r].members ELSE payers
        /\ UNCHANGED <<ledger, day, dedup, stage, admitted, dirty, sealed, tier,
                       held, sweepers, history>>

-----------------------------------------------------------------------------
(* Step 8: the cell, the staging and the dirty marks *)

\* A server row takes the context a companion may have left for its attempt.
ReadContext(r) ==
    /\ pc[r] = "context"
    /\ value' = [value EXCEPT ![r] = IF AttemptOf[r] = None THEN None
                                       ELSE stage[AttemptOf[r]].cmp]
    /\ pc' = [pc EXCEPT ![r] = "resolve"]
    /\ UNCHANGED <<ledger, day, dedup, stage, admitted, hotDay, dirty, sealed,
                   tier, floor, todo, held, sweepers, history>>

\* A dimension that was not supplied is unknown, or stays what it was counted as.
Unsupplied(r) == IF r \in Servers THEN "unknown" ELSE held[r].cell[2]

\* Cardinality guard: known values pass, new ones while there is room.
Guarded(v) == IF v \in admitted \/ Cardinality(admitted) < ValueCap THEN v ELSE "other"

\* Mutated form of Resolved: what was counted overlays what has arrived.
StagedFirst(r) ==
    IF held[r] # None THEN held[r].cell[2]
    ELSE IF value[r] = None THEN Unsupplied(r) ELSE Guarded(value[r])

\* The client component of the cell: what has arrived overlays what was counted.
Resolved(r) == IF value[r] = None THEN Unsupplied(r) ELSE Guarded(value[r])

Resolve(r) ==
    /\ pc[r] = "resolve"
    /\ value' = [value EXCEPT ![r] = Resolved(r)]
    /\ admitted' = IF Resolved(r) \in Values THEN admitted \cup {Resolved(r)} ELSE admitted
    /\ pc' = [pc EXCEPT ![r] = IF r \in Servers THEN "rollup" ELSE "move"]
    /\ UNCHANGED <<ledger, day, dedup, stage, hotDay, dirty, sealed, tier,
                   floor, todo, held, sweepers, history>>

\* Mutated form of Added: the decrement of a move forgets the sign of the money.
AddedUnsigned(hash, c, n, v) ==
    LET was == IF c \in DOMAIN hash THEN hash[c] ELSE [cnt |-> 0, rev |-> 0]
    IN  [x \in DOMAIN hash \cup {c} |->
           IF x = c THEN [cnt |-> was.cnt + n, rev |-> was.rev + v] ELSE hash[x]]

\* HINCRBY of one purchase of amount v; a field that is absent counts from 0.
Added(hash, c, n, v) ==
    LET was == IF c \in DOMAIN hash THEN hash[c] ELSE [cnt |-> 0, rev |-> 0]
    IN  [x \in DOMAIN hash \cup {c} |->
           IF x = c THEN [cnt |-> was.cnt + n, rev |-> was.rev + n * v] ELSE hash[x]]

\* SERVER_ROLLUP_LUA.
Rollup(r) ==
    LET t == TxOf[r]
        c == <<tier[r], value[r]>>
    IN  /\ pc[r] = "rollup"
        /\ cells' = Added(cells, c, 1, Normalized(t))
        /\ total' = total + Normalized(t)
        /\ payers' = payers \cup {UserOf[t]}
        /\ counted' = [counted EXCEPT ![t] = @ + 1]
        /\ place' = [place EXCEPT ![t] = c]
        /\ pc' = [pc EXCEPT ![r] = IF AttemptOf[r] = None THEN "mark mon" ELSE "stage"]
        /\ UNCHANGED <<ledger, day, dedup, stage, admitted, gen, seeded, dirty,
                       sealed, tier, floor, todo, held, value, sweepers,
                       stamp, late, failures>>

\* HSET of the srv fields.  What a companion staged meanwhile is not read again.
StageServer(r) ==
    LET t == TxOf[r]
    IN  /\ pc[r] = "stage"
        /\ stage' = [stage EXCEPT ![AttemptOf[r]].srv =
                       [tx |-> t, cell |-> <<tier[r], value[r]>>, rev |-> Normalized(t)]]
        /\ pc' = [pc EXCEPT ![r] = "mark mon"]
        /\ UNCHANGED <<ledger, day, dedup, admitted, hotDay, dirty, sealed, tier,
                       floor, todo, held, value, sweepers, history>>

\* MOVE_LUA, from the cell that was staged to the same tier with the client
\* value replaced; nothing to do when that is the same cell.
Move(r) ==
    LET from == held[r].cell
        to == <<from[1], value[r]>>
    IN  /\ pc[r] = "move"
        /\ IF to = from
             THEN /\ pc' = [pc EXCEPT ![r] = "done"]
                  /\ UNCHANGED <<cells, gen, place>>
             ELSE /\ cells' = Added(Added(cells, from, -1, held[r].rev), to, 1, held[r].rev)
                  /\ gen' = gen + 1
                  /\ place' = [place EXCEPT ![held[r].tx] = to]
                  /\ pc' = [pc EXCEPT ![r] = "restage"]
        /\ UNCHANGED <<ledger, day, dedup, stage, admitted, total, payers, seeded,
                       dirty, sealed, tier, floor, todo, held, value, sweepers,
                       stamp, counted, late, failures>>

\* HSET srv:dim_combo; on a stage that has expired it is a field nobody reads.
Restage(r) ==
    LET a == AttemptOf[r]
    IN  /\ pc[r] = "restage"
        /\ stage' = IF stage[a].srv = None THEN stage
                    ELSE [stage EXCEPT ![a].srv.cell = <<@[1], value[r]>>]
        /\ pc' = [pc EXCEPT ![r] = "mark mon"]
        /\ UNCHANGED <<ledger, day, dedup, admitted, hotDay, dirty, sealed, tier,
                       floor, todo, held, value, sweepers, history>>

\* markDirty: one SADD after another; nothing else is needed of what was read.
Marking == [p \in {"mark mon", "mark rev", "mark payer"} |->
              CASE p = "mark mon"   -> [domain |-> "mon", next |-> "mark rev"]
                [] p = "mark rev"   -> [domain |-> "rev", next |-> "mark payer"]
                [] p = "mark payer" -> [domain |-> "payer", next |-> "done"]]

Mark(r) ==
    /\ pc[r] \in DOMAIN Marking
    /\ dirty' = dirty \cup {Marking[pc[r]].domain}
    /\ pc' = [pc EXCEPT ![r] = Marking[@].next]
    /\ tier' = [tier EXCEPT ![r] = "first"]
    /\ value' = [value EXCEPT ![r] = "unknown"]
    /\ held' = [held EXCEPT ![r] = None]
    /\ UNCHANGED <<ledger, day, dedup, stage, admitted, hotDay, sealed, floor,
                   todo, sweepers, history>>

-----------------------------------------------------------------------------
(* The sweep: payer set, then the class-N domains mon and rev *)

After == [d \in Domains |-> CASE d = "payer" -> <<"mon", "drain">>
                              [] d = "mon" -> <<"rev", "drain">>
                              [] d = "rev" -> Idle]

\* The bucket is flushed: on to the next domain.
EndOf(s) == /\ spc' = [spc EXCEPT ![s] = After[spc[s][1]]]
            /\ snap' = [snap EXCEPT ![s] = None]

SweepDrain(s) ==
    LET d == spc[s][1]
    IN  /\ spc[s][2] = "drain"
        /\ spc' = [spc EXCEPT ![s] = IF d \in dirty THEN <<d, "read">> ELSE After[d]]
        /\ dirty' = dirty \ {d}
        /\ UNCHANGED <<ledger, day, dedup, stage, admitted, hotDay, sealed,
                       handlers, snap, rows, history>>

\* HGETALL of the payer hash; for mon and rev the snapshot script, which reads
\* the generation with the data.  A hash without the marker is put back.
SweepRead(s) ==
    LET d == spc[s][1]
    IN  /\ spc[s][2] = "read"
        /\ IF d \notin seeded
             THEN /\ dirty' = dirty \cup {d}
                  /\ spc' = [spc EXCEPT ![s] = After[d]]
                  /\ UNCHANGED <<snap, rows>>
             ELSE /\ snap' = [snap EXCEPT ![s] = [cells |-> cells, gen |-> gen,
                                                  total |-> total, members |-> payers]]
                  /\ rows' = [rows EXCEPT ![s] = IF d = "mon" THEN DOMAIN cells ELSE {}]
                  /\ spc' = [spc EXCEPT ![s] = IF d = "mon" /\ cells = Empty
                                                 THEN After[d] ELSE <<d, "write">>]
                  /\ UNCHANGED dirty
        /\ UNCHANGED <<ledger, day, dedup, stage, admitted, hotDay, sealed,
                       handlers, history>>

\* Class N: WHERE EXCLUDED.gen >= target.gen.
Accepts(excluded, target) == excluded >= target

CellRow(sn, c) == [cnt |-> sn.cells[c].cnt, rev |-> sn.cells[c].rev, gen |-> sn.gen]

\* One upsert of a monetization_cell row.
SweepCell(s) ==
    /\ spc[s] = <<"mon", "write">>
    /\ \E c \in rows[s] :
         /\ day' = IF c \in DOMAIN day.cells /\ ~Accepts(snap[s].gen, day.cells[c].gen)
                   THEN day
                   ELSE [day EXCEPT !.cells = [x \in DOMAIN @ \cup {c} |->
                           IF x = c THEN CellRow(snap[s], c) ELSE @[x]]]
         /\ rows' = [rows EXCEPT ![s] = @ \ {c}]
         /\ IF rows[s] = {c} THEN EndOf(s) ELSE UNCHANGED <<spc, snap>>
    /\ UNCHANGED <<ledger, dedup, stage, admitted, hotDay, dirty, sealed,
                   handlers, history>>

\* The two upserts of payer_day touch a column each.
SweepTotal(s) ==
    /\ spc[s] = <<"rev", "write">>
    /\ day' = IF Accepts(snap[s].gen, day.gen)
              THEN [day EXCEPT !.total = snap[s].total, !.gen = snap[s].gen] ELSE day
    /\ EndOf(s)
    /\ UNCHANGED <<ledger, dedup, stage, admitted, hotDay, dirty, sealed,
                   handlers, rows, history>>

SweepMembers(s) ==
    /\ spc[s] = <<"payer", "write">>
    /\ day' = [day EXCEPT !.members = @ \cup snap[s].members]
    /\ EndOf(s)
    /\ UNCHANGED <<ledger, dedup, stage, admitted, hotDay, dirty, sealed,
                   handlers, rows, history>>

-----------------------------------------------------------------------------
(* Time and failures *)

\* The day's grace is over.
Seal ==
    /\ ~sealed
    /\ sealed' = TRUE
    /\ UNCHANGED <<ledger, day, dedup, stage, admitted, hotDay, dirty, handlers,
                   sweepers, history>>

\* A stage lives 48 hours.
Expire(a) ==
    /\ stage[a] # NoStage
    /\ stage' = [stage EXCEPT ![a] = NoStage]
    /\ late' = {r \in late : AttemptOf[r] # a}
    /\ UNCHANGED <<ledger, day, dedup, admitted, hotDay, dirty, sealed, handlers,
                   sweepers, stamp, counted, place, failures>>

\* The worker dies.  Handlers and sweeps are gone; jobs BullMQ still holds are
\* delivered again, with those of their records that had already ended.
Crash ==
    /\ failures < MaxFailures
    /\ failures' = failures + 1
    /\ \E settled \in SUBSET {r \in Records : pc[r] = "done"} :
         pc' = [r \in Records |-> CASE r \in settled -> "done"
                                    [] pc[r] = "absent" -> "absent"
                                    [] OTHER -> "queued"]
    /\ spc' = [s \in Sweeps |-> Idle]
    /\ rows' = [s \in Sweeps |-> {}]
    /\ UNCHANGED <<ledger, day, dedup, stage, admitted, hotDay, dirty, sealed,
                   tier, floor, todo, held, value, snap, stamp, counted,
                   place, late>>

\* A handler that throws just ends; so does a sweep, with what it had drained.
RecordFail(r) ==
    /\ failures < MaxFailures
    /\ pc[r] \notin {"absent", "done"}
    /\ failures' = failures + 1
    /\ pc' = [pc EXCEPT ![r] = "done"]
    /\ UNCHANGED <<ledger, day, dedup, stage, admitted, hotDay, dirty, sealed,
                   tier, floor, todo, held, value, sweepers, stamp,
                   counted, place, late>>

SweepFail(s) ==
    /\ failures < MaxFailures
    /\ spc[s] # Idle
    /\ failures' = failures + 1
    /\ spc' = [spc EXCEPT ![s] = Idle]
    /\ rows' = [rows EXCEPT ![s] = {}]
    /\ UNCHANGED <<ledger, day, dedup, stage, admitted, hotDay, dirty, sealed,
                   handlers, snap, stamp, counted, place, late>>

-----------------------------------------------------------------------------
RecordStep(r) ==
    \/ CheckClaimed(r) \/ PreRead(r) \/ Commit(r)
    \/ Arrive(r) \/ Join(r) \/ StageCompanion(r)
    \/ ReadFloor(r) \/ CheckSeeded(r) \/ SeedHash(r)
    \/ ReadContext(r) \/ Resolve(r) \/ Rollup(r) \/ StageServer(r)
    \/ Move(r) \/ Restage(r) \/ Mark(r)

SweepStep(s) == \/ SweepDrain(s) \/ SweepRead(s)
                \/ SweepCell(s) \/ SweepTotal(s) \/ SweepMembers(s)

Next == \/ \E r \in Records : RecordStep(r) \/ RecordFail(r)
        \/ \E s \in Sweeps : SweepStep(s) \/ SweepFail(s)
        \/ \E a \in Attempts : Expire(a)
        \/ Seal
        \/ Crash

Spec == Init /\ [][Next]_vars

-----------------------------------------------------------------------------
(* Properties *)

Stages == [srv : Staged \cup {None}, cmp : Values \cup {None}]

\* Every variable keeps its type.
TypeOK ==
    /\ claimed \subseteq Transactions
    /\ spine \in [Users -> [row : BOOLEAN, lifetime : Nat, unconverted : BOOLEAN]]
    /\ period \in [Users -> Nat]
    /\ IsDay(day)
    /\ dedup \subseteq Events /\ admitted \subseteq Values
    /\ stage \in [Attempts -> Stages]
    /\ IsTable(cells, [cnt : Int, rev : Int]) /\ gen \in Nat /\ total \in Int /\ payers \subseteq Users
    /\ seeded \subseteq Hashes /\ dirty \subseteq Domains /\ sealed \in BOOLEAN
    /\ pc \in [Records -> {"absent", "queued", "preread", "commit", "join", "wait", "floors",
                           "check", "seed", "context", "resolve", "rollup", "stage",
                           "move", "restage", "done"} \cup DOMAIN Marking]
    /\ tier \in [Records -> Tiers]
    /\ DOMAIN floor = Records
    /\ \A r \in Records : floor[r] # None => IsDay(floor[r])
    /\ \A r \in Records : todo[r] \in Seq(Hashes) /\ todo[r] # <<>>
    /\ held \in [Records -> Staged \cup {None}]
    /\ value \in [Records -> ClientValues \cup {None}]
    /\ spc \in [Sweeps -> Domains \X {"drain", "read", "write"}]
    /\ DOMAIN snap = Sweeps
    /\ \A s \in Sweeps : snap[s] # None =>
         /\ IsTable(snap[s].cells, [cnt : Int, rev : Int])
         /\ snap[s].gen \in Nat /\ snap[s].total \in Int /\ snap[s].members \subseteq Users
    /\ rows \in [Sweeps -> SUBSET Cells]
    /\ stamp \in [Transactions -> Tiers \cup {None}]
    /\ counted \in [Transactions -> Nat]
    /\ place \in [Transactions -> Cells \cup {None}]
    /\ late \subseteq Companions /\ failures \in Nat

\* The sum of what a set of purchases adds.
Worth(ts) == MapThenSumSet(Normalized, ts)

\* The payer tables can be derived again from the table of transactions, as its
\* comment says, however deliveries of a transaction race past step 6 and
\* whatever was refused as ineligible (purchase-idempotency.entity.ts).
SpineMatchesClaims ==
    \A u \in Users :
      spine[u] = Payer(claimed, u) /\ period[u] = Payer(claimed, u).lifetime

\* A payer's purchases are never all stamped as repeats: the tier is read before
\* the purchase is written (bridge 05.5, section 3).
FirstPurchaseStamped ==
    \A u \in Users :
      LET mine == {t \in claimed : UserOf[t] = u}
      IN  mine # {} => \E t \in mine : stamp[t] = "first"

\* A transaction is rolled up once at most, and only when it is in the table.
CountedAtMostOnce ==
    \A t \in Transactions :
      counted[t] <= 1 /\ (counted[t] = 1 => t \in claimed)

At(f, c) == IF c \in DOMAIN f THEN [cnt |-> f[c].cnt, rev |-> f[c].rev]
            ELSE [cnt |-> 0, rev |-> 0]
InCell(c) == {t \in Transactions : place[t] = c}
RolledUp == {t \in Transactions : counted[t] > 0}
Accounted(c) == [cnt |-> At(Stored.cells, c).cnt + Cardinality(InCell(c)),
                 rev |-> At(Stored.cells, c).rev + Worth(InCell(c))]

\* Every purchase rolled up is in one cell, with its money, and a move takes both
\* along; the day total and the payer set hold it once (hot hook header: a move
\* conserves count and revenue).
CellsHoldEachPurchaseOnce ==
    /\ "mon" \in seeded => \A c \in Cells : At(cells, c) = Accounted(c)
    /\ "rev" \in seeded => total = Stored.total + Worth(RolledUp)
    /\ "payer" \in seeded => payers = Stored.members \cup {UserOf[t] : t \in RolledUp}

Quiet == /\ \A r \in Records : pc[r] \in {"absent", "queued", "done"}
         /\ \A s \in Sweeps : spc[s] = Idle
         /\ dirty = {}

\* When nothing failed and nothing is under way, Postgres holds the floor and
\* every purchase since, each in its last cell: no generation was rewound by a
\* rehydrate, and no move stayed half published (metaFloor, flush-merge.ts).
Converged ==
    failures = 0 /\ Quiet =>
      /\ \A c \in Cells : At(day.cells, c) = Accounted(c)
      /\ day.total = Stored.total + Worth(RolledUp)
      /\ day.members = Stored.members \cup {UserOf[t] : t \in RolledUp}

\* A companion that comes when its row is counted and staged, before the seal,
\* gives the purchase its value (design.md, step 8, first case).
LateCompanionEnriches ==
    failures = 0 /\ ~sealed =>
      \A r \in late :
        (ValueOf[r] # None /\ \A q \in Companions : EventOf[q] = EventOf[r] => pc[q] \in {"absent", "done"})
          => \A q \in Servers, t \in RolledUp :
               AttemptOf[q] = AttemptOf[r] /\ TxOf[q] = t
                 => place[t][2] \in {ValueOf[r], "other"}

\* While the day is open, a transaction in the table whose deliveries have all
\* ended is in the cells: a crash after the commit is healed by the retry
\* (design.md, gate 6b; bridge 05.5, section 4).
CommittedIsCounted ==
    ~sealed => \A t \in claimed \ Before :
      (\A r \in Servers : TxOf[r] = t => pc[r] \in {"absent", "done"}) => counted[t] = 1
=============================================================================
