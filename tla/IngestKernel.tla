----------------------------- MODULE IngestKernel -----------------------------
(***************************************************************************)
(* The worker's batches: every record of a job runs through the nine steps *)
(* concurrently, reading the configuration on the way, while an operator   *)
(* may change it.  A record is refused and tallied, dropped as a duplicate *)
(* or counted, first by the base every kind shares and then by the story   *)
(* of its kind.  An exception ends its own record; a crash of the node     *)
(* gives the whole batch back to the queue.                                *)
(***************************************************************************)
EXTENDS GameConfig, FiniteSets, FiniteSetsExt

CONSTANTS
    Jobs,          \* batches of the queue
    JobOf,         \* JobOf[r]: the batch the record came in
    Deliveries,    \* what the queue may hold: the event of each record
    DigitRuns,     \* identifiers that hold nine digits in a row
    MaxFaults      \* bound: exceptions of handlers and crashes of nodes together

Records == Readers

\* fields are the keys of the event's props that are present and well formed.
ASSUME KernelAssumption ==
    /\ JobOf \in [Records -> Jobs]
    /\ \A r, q \in Records : JobOf[r] = JobOf[q] => NodeOf[r] = NodeOf[q]
    /\ \A d \in Deliveries, r \in Records :
        DOMAIN d[r] = {"name", "kind", "event", "fields", "transaction", "sealsAt"}

\* The cap is a JSON integer, in the row at first and in every accepted request.
ASSUME CapAssumption ==
    /\ ValueAt(InitialRow, "event_name_cap_per_game").v \in Nat
    /\ \A q \in Requests :
        q[1] = "event_name_cap_per_game" /\ Settable(q[1], q[2]) => q[2].v \in Nat

Other == "other"

VARIABLES
    envelope,   \* envelope[r]: the event the record carries
    job,        \* job[j]: the batch is queued, running or acked
    pc,         \* pc[r]: the step the record's handler awaits
    late,       \* late[r]: the corrected day was sealed when the batch began
    props,      \* props[r]: the fields left by the scrubber
    cap,        \* cap[r]: the name cap the gate is asked with
    bucket,     \* bucket[r]: the name the record counts under
    file,       \* raw file: <<record, fields, banned>> of its frames
    names,      \* Redis: the set of known event names
    claims,     \* Redis and Postgres: claimed event and transaction ids
    durable,    \* Postgres: records whose step-7 rows are committed
    base,       \* Redis: base[r], times the record was counted
    story,      \* Redis: story[r], times its kind's accumulators ran
    tally,      \* Redis: tally[r], times it was tallied as refused
    banned,     \* history: banned[r], the keys long listed when r was scrubbed
    duplicate,  \* history: records stopped by the dedup gate
    lost,       \* history: records whose handler threw or was killed
    faults      \* history: exceptions and crashes so far

kernelVars == <<envelope, job, pc, late, props, cap, bucket, file, names, claims, durable, base, story,
                tally, banned, duplicate, lost, faults>>
vars == <<configVars, kernelVars>>

Batch(j) == {r \in Records : JobOf[r] = j}

Init ==
    /\ ConfigInit
    /\ envelope \in Deliveries
    /\ job = [j \in Jobs |-> "queued"]
    /\ pc = [r \in Records |-> "queued"]
    /\ late = [r \in Records |-> FALSE]
    /\ props = [r \in Records |-> {}]
    /\ cap = [r \in Records |-> 0]
    /\ bucket = [r \in Records |-> Other]
    /\ file = {} /\ names = {} /\ claims = {} /\ durable = {}
    /\ base = [r \in Records |-> 0] /\ story = [r \in Records |-> 0]
    /\ tally = [r \in Records |-> 0]
    /\ banned = [r \in Records |-> {}]
    /\ duplicate = {} /\ lost = {} /\ faults = 0

----------------------------------------------------------------------------
\* Steps 1 to 3, which touch nothing but the record.

\* The default denylist and the game's own: a listed key is dropped.
DefaultDenylist == {"email", "ip", "phone", "name", "address", "ssn", "password", "credit_card"}

Denylist(cfg) ==
    IF "pii_prop_denylist" \in DOMAIN cfg
      THEN {cfg["pii_prop_denylist"].v[i] : i \in DOMAIN cfg["pii_prop_denylist"].v}
      ELSE {}

Scrub(fields, cfg) == fields \ (DefaultDenylist \cup Denylist(cfg))

\* A value that looks like a long number is replaced by one marker.
Redacted9(x) == IF x \in DigitRuns THEN "[redacted:digits]" ELSE x

\* A reserved name forces its kind, whatever the record declares.
ReservedNames == {"economy", "purchase", "session"}
TypedKinds    == {"economy", "purchase", "session"}

ResolvedKind(r) ==
    IF envelope[r].name \in ReservedNames THEN envelope[r].name ELSE envelope[r].kind

UnknownKind(r) == ResolvedKind(r) \notin TypedKinds \cup {"generic"}

SessionShape  == {"session_id", "session_start_time", "session_end_time", "duration_ms"}
EconomyShape  == {"flow_type", "currency_type", "amount", "reason"}
RevenueShape  == {"transaction_id", "original_transaction_id", "product_id", "product_category",
                  "price_local", "currency", "verified", "environment", "user_id"}

PurchaseValid(fields) ==
    \/ "source=server" \in fields /\ RevenueShape \subseteq fields
    \/ "source=client" \in fields /\ "purchase_attempt_id" \in fields

\* The strict validator of the resolved kind, on the scrubbed fields.
TypedValid(r, fields) ==
    \/ ResolvedKind(r) = "session" /\ SessionShape \subseteq fields
    \/ ResolvedKind(r) = "economy" /\ EconomyShape \subseteq fields
    \/ ResolvedKind(r) = "purchase" /\ PurchaseValid(fields)

Routed(r, fields) ==
    IF UnknownKind(r) \/ (ResolvedKind(r) \in TypedKinds /\ ~TypedValid(r, fields)) THEN "quarantine"
    ELSE IF ResolvedKind(r) \in TypedKinds THEN "append"
    ELSE "gate"

\* The dedup gate asks for the transaction of a purchase that carries one, in
\* Postgres; for the event id of any other record, within the window.
Transacted(r) == ResolvedKind(r) = "purchase" /\ "transaction_id" \in props[r]

ClaimKey(r) ==
    IF Transacted(r) THEN <<"transaction", Redacted9(envelope[r].transaction)>>
                     ELSE <<"event", envelope[r].event>>

\* A row that books money: from a server, verified, of production, and sent with
\* a server credential (these three are the field "eligible").
Books(r) == Transacted(r) /\ {"source=server", "eligible"} \subseteq props[r]

----------------------------------------------------------------------------
\* History: the keys the row has listed for at least a refresh interval and
\* an answer's latency.
LongListed ==
    IF clock - SetAt("pii_prop_denylist") >= Ttl + MaxLatency THEN Denylist(row) ELSE {}

NameCap(cfg) == ValueAt(cfg, "event_name_cap_per_game").v

\* A batch starts: all its handlers run to their first await.  A nameless
\* record is refused before anything is kept of it.  While the node's copy of
\* the configuration is fresh, the others are scrubbed and routed at once,
\* and ask for the name cap in the same turn.
Begin(j) == \E n \in {NodeOf[r] : r \in Batch(j)} :
    LET cfg   == cache[n].cfg
        named == {r \in Batch(j) : envelope[r].name # ""}
        ready == IF Fresh(n) THEN named ELSE {}
        kept  == [r \in Records |-> Scrub(envelope[r].fields, cfg)]
    IN
    /\ job[j] = "queued"
    /\ job' = [job EXCEPT ![j] = "running"]
    /\ pc' = [r \in Records |-> IF r \in ready THEN Routed(r, kept[r])
                                ELSE IF r \in named THEN "scrub"
                                ELSE IF r \in Batch(j) THEN "tally" ELSE pc[r]]
    /\ props' = [r \in Records |-> IF r \in ready THEN kept[r] ELSE props[r]]
    /\ cap' = [r \in Records |-> IF pc'[r] = "gate" /\ r \in ready THEN NameCap(cfg) ELSE cap[r]]
    /\ banned' = [r \in Records |-> IF r \in ready THEN LongListed ELSE banned[r]]
    /\ late' = [r \in Records |-> IF r \in Batch(j) THEN clock >= envelope[r].sealsAt ELSE late[r]]
    /\ UNCHANGED <<configVars, envelope, bucket, file, names, claims, durable, base, story, tally,
                   duplicate, lost, faults>>

\* Else each handler reads the row for itself, and stores its answer.
ScrubQuery(r) ==
    /\ pc[r] = "scrub"
    /\ Query(r)
    /\ UNCHANGED <<clock, row, audit, key, cache, request, changedAt, kernelVars>>

ScrubFill(r) ==
    /\ pc[r] = "scrub"
    /\ \E cfg \in {fetch[r].cfg} :
        LET kept == Scrub(envelope[r].fields, cfg) IN
        /\ Fill(r, cfg)
        /\ props' = [props EXCEPT ![r] = kept]
        /\ pc' = [pc EXCEPT ![r] = Routed(r, kept)]
        /\ cap' = [cap EXCEPT ![r] = IF Routed(r, kept) = "gate" THEN NameCap(cfg) ELSE @]
        /\ banned' = [banned EXCEPT ![r] = LongListed]
    /\ UNCHANGED <<clock, row, audit, key, request, changedAt>>
    /\ UNCHANGED <<envelope, job, late, bucket, file, names, claims, durable, base, story, tally,
                   duplicate, lost, faults>>

\* A new name is admitted while the set is below the cap; `other` always is.
\* Mutant: one name past the cap.
AdmittedPastCap(name, limit) == name = Other \/ name \in names \/ Cardinality(names) <= limit

Admitted(name, limit) == name = Other \/ name \in names \/ Cardinality(names) < limit

Gate(r) ==
    /\ pc[r] = "gate"
    /\ LET name == envelope[r].name IN
        IF Admitted(name, cap[r])
          THEN names' = names \cup {name} /\ bucket' = [bucket EXCEPT ![r] = name]
          ELSE bucket' = [bucket EXCEPT ![r] = Other] /\ UNCHANGED names
    /\ pc' = [pc EXCEPT ![r] = "append"]
    /\ cap' = [cap EXCEPT ![r] = 0]
    /\ UNCHANGED <<configVars, envelope, job, late, props, file, claims, durable, base, story, tally,
                   banned, duplicate, lost, faults>>

\* Mutant: a late record ends behind its frame and is tallied nowhere.
RawAppendLateUntallied(r) ==
    /\ pc[r] \in {"append", "quarantine"}
    /\ file' = file \cup {<<r, props[r], banned[r]>>}
    /\ pc' = [pc EXCEPT ![r] = IF pc[r] = "quarantine" THEN "tally" ELSE IF late[r] THEN "done" ELSE "dedup"]
    /\ UNCHANGED <<configVars, envelope, job, late, props, cap, bucket, names, claims, durable, base, story,
                   tally, banned, duplicate, lost, faults>>

\* Steps 4 and 5: nothing is counted before the frame is in the file; a late
\* record stops behind it.
RawAppend(r) ==
    /\ pc[r] \in {"append", "quarantine"}
    /\ file' = file \cup {<<r, props[r], banned[r]>>}
    /\ pc' = [pc EXCEPT ![r] = IF pc[r] = "quarantine" \/ late[r] THEN "tally" ELSE "dedup"]
    /\ UNCHANGED <<configVars, envelope, job, late, props, cap, bucket, names, claims, durable, base, story,
                   tally, banned, duplicate, lost, faults>>

\* Step 6.  A transaction is looked up and not claimed.  Only kinds with a
\* durable hook await step 7.
DurableKinds == {"session", "purchase"}

Dedup(r) ==
    /\ pc[r] = "dedup"
    /\ claims' = IF Transacted(r) THEN claims ELSE claims \cup {ClaimKey(r)}
    /\ IF ClaimKey(r) \in claims
         THEN pc' = [pc EXCEPT ![r] = "done"] /\ duplicate' = duplicate \cup {r}
         ELSE /\ pc' = [pc EXCEPT ![r] = IF ResolvedKind(r) \in DurableKinds THEN "durable" ELSE "base"]
              /\ UNCHANGED duplicate
    /\ UNCHANGED <<configVars, envelope, job, late, props, cap, bucket, file, names, durable, base, story,
                   tally, banned, lost, faults>>

\* Step 7: the durable hook of the kind.  A session's spine is written; a row of
\* money is, and its transaction claimed, unless the insert finds it there.
Durable(r) ==
    LET writes == ResolvedKind(r) = "session" \/ (Books(r) /\ ClaimKey(r) \notin claims) IN
    /\ pc[r] = "durable"
    /\ durable' = IF writes THEN durable \cup {r} ELSE durable
    /\ claims' = IF writes THEN claims \cup {ClaimKey(r)} ELSE claims
    /\ pc' = [pc EXCEPT ![r] = "base"]
    /\ UNCHANGED <<configVars, envelope, job, late, props, cap, bucket, file, names, base, story,
                   tally, banned, duplicate, lost, faults>>

\* Step 8: catalog, day count and rank for every kind, then the kind's own.
Base(r) ==
    /\ pc[r] = "base"
    /\ base' = [base EXCEPT ![r] = @ + 1]
    /\ pc' = [pc EXCEPT ![r] = IF ResolvedKind(r) \in TypedKinds THEN "story" ELSE "done"]
    /\ UNCHANGED <<configVars, envelope, job, late, props, cap, bucket, file, names, claims, durable, story,
                   tally, banned, duplicate, lost, faults>>

\* A server's row that booked nothing counts for nothing here.
Story(r) ==
    LET empty == ResolvedKind(r) = "purchase" /\ "source=server" \in props[r] /\ r \notin durable IN
    /\ pc[r] = "story"
    /\ story' = IF empty THEN story ELSE [story EXCEPT ![r] = @ + 1]
    /\ pc' = [pc EXCEPT ![r] = "done"]
    /\ UNCHANGED <<configVars, envelope, job, late, props, cap, bucket, file, names, claims, durable, base,
                   tally, banned, duplicate, lost, faults>>

\* A dropped or quarantined record is tallied by its reason.
Tally(r) ==
    /\ pc[r] = "tally"
    /\ tally' = [tally EXCEPT ![r] = @ + 1]
    /\ pc' = [pc EXCEPT ![r] = "done"]
    /\ UNCHANGED <<configVars, envelope, job, late, props, cap, bucket, file, names, claims, durable, base,
                   story, banned, duplicate, lost, faults>>

----------------------------------------------------------------------------
\* The job is acked when the last of its handlers has returned.
Ack(j) ==
    /\ job[j] = "running"
    /\ \A r \in Batch(j) : pc[r] = "done"
    /\ job' = [job EXCEPT ![j] = "acked"]
    /\ UNCHANGED <<configVars, envelope, pc, late, props, cap, bucket, file, names, claims, durable, base,
                   story, tally, banned, duplicate, lost, faults>>

\* An await fails: the record ends as a drop that is neither kept nor tallied.
Throw(r) ==
    /\ pc[r] \notin {"queued", "done"} /\ faults < MaxFaults
    /\ faults' = faults + 1
    /\ lost' = lost \cup {r}
    /\ pc' = [pc EXCEPT ![r] = "done"]
    /\ fetch' = [fetch EXCEPT ![r] = Nothing]
    /\ UNCHANGED <<clock, row, audit, key, cache, request, changedAt>>
    /\ UNCHANGED <<envelope, job, late, props, cap, bucket, file, names, claims, durable, base, story, tally,
                   banned, duplicate>>

\* The node dies with its handlers; the queue delivers its batches again.
Crash(n) ==
    LET killed == {r \in Records : NodeOf[r] = n /\ job[JobOf[r]] = "running"} IN
    /\ killed # {} /\ faults < MaxFaults
    /\ faults' = faults + 1
    /\ RestartNode(n, key[n])
    /\ job' = [j \in Jobs |-> IF \E r \in killed : JobOf[r] = j THEN "queued" ELSE job[j]]
    /\ lost' = lost \cup {r \in killed : pc[r] \in {"base", "story"} \/ (pc[r] = "durable" /\ ~Transacted(r))}
    /\ pc' = [r \in Records |-> IF r \in killed THEN "queued" ELSE pc[r]]
    /\ UNCHANGED <<envelope, late, props, cap, bucket, file, names, claims, durable, base, story, tally,
                   banned, duplicate>>

Administer == (\E o \in Operators : Set(o)) /\ UNCHANGED kernelVars
Pass       == Tick /\ UNCHANGED kernelVars

Handle(r) ==
    \/ ScrubQuery(r) \/ ScrubFill(r) \/ Gate(r) \/ RawAppend(r) \/ Dedup(r) \/ Durable(r) \/ Base(r) \/ Story(r) \/ Tally(r)

Next ==
    \/ Administer
    \/ Pass
    \/ \E j \in Jobs : Begin(j) \/ Ack(j)
    \/ \E n \in Nodes : Crash(n)
    \/ \E r \in Records : Handle(r) \/ Throw(r)

Spec == Init /\ [][Next]_vars

----------------------------------------------------------------------------
\* A key the row had listed for a refresh interval and an answer's latency
\* when a record was scrubbed is in no frame of that delivery of the record,
\* whichever node's cache its handler read.
PolicyTakesEffect == \A f \in file : f[2] \cap f[3] = {}

\* However nodes with caches of different age race, no more names of generic
\* events are counted apart than the largest cap that was ever in force.
CapsEver ==
    {ValueAt(InitialRow, "event_name_cap_per_game").v}
        \cup {audit[i].new.v : i \in {j \in DOMAIN audit : audit[j].knob = "event_name_cap_per_game"}}

Counted(r) == base[r] > 0

NamesWithinCap ==
    Cardinality({bucket[r] : r \in {q \in Records : Counted(q) /\ ResolvedKind(q) = "generic"}} \ {Other})
        <= Max(CapsEver)

\* When a batch is acked, each of its records was counted once with all its
\* kind asks for, or tallied, or is a copy of a record that was claimed and
\* whose handler counted it, is still at it, or was lost.
CountedInFull(r) ==
    /\ base[r] = 1
    /\ ResolvedKind(r) \in TypedKinds => story[r] = 1
    /\ ResolvedKind(r) = "session" \/ Books(r) => r \in durable

Claimed(r) == CountedInFull(r) \/ pc[r] \in {"durable", "base", "story"} \/ r \in lost

\* Stopped by step 6, or too late for the insert of step 7.
IsCopy(r) == r \in duplicate \/ (Books(r) /\ r \notin durable)

AckedIsAccounted ==
    \A r \in Records : job[JobOf[r]] = "acked" =>
        \/ Claimed(r)
        \/ tally[r] > 0 /\ base[r] = 0
        \/ IsCopy(r) /\ \E q \in Records \ {r} : ClaimKey(q) = ClaimKey(r) /\ Claimed(q)

\* However often an event is delivered, the catalog and the day counts take it
\* once (ingest.worker.ts: a redelivery is never a double count; FR-008a of the
\* platform's specification: an event id that was seen is skipped).
CountedOnce ==
    \A r \in Records :
        /\ base[r] <= 1
        /\ base[r] = 1 => \A q \in Records \ {r} : envelope[q].event = envelope[r].event => base[q] = 0

\* A purchase is stopped as a duplicate only when another record with its
\* transaction id, or an earlier delivery of it, was claimed.
DuplicateOnlyIfSeen ==
    \A r \in duplicate : ResolvedKind(r) = "purchase" =>
        \/ r \in lost \/ base[r] > 0
        \/ \E q \in Records \ {r} : envelope[q].transaction = envelope[r].transaction
=============================================================================
