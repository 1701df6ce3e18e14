------------------------------ MODULE RawDayFile ------------------------------
(***************************************************************************)
(* The raw file of one game and one day: the write-ahead append of step 4  *)
(* (one group-committing writer per path), the seal, and the nightly run   *)
(* that ships the sealed file to the bucket and later deletes it locally.  *)
(*                                                                         *)
(* A writer is named by the record whose handler made it: a handler makes  *)
(* one at most.  The file is the sequence of its frames; Torn is a frame   *)
(* whose bytes are not all there.  A frame behind a torn one is there, and *)
(* decodeFrames never returns it.                                          *)
(***************************************************************************)
EXTENDS Naturals, Sequences

CONSTANTS
    Records,          \* envelopes whose corrected day is this file's day
    Accepted,         \* those that are not quarantined by step 3
    Torn,             \* an incomplete frame
    MayFail,          \* the kinds of faults that may happen
    MaxFaults         \* bound: faults of all kinds together

None == "none"

\* A power failure; a flush that ends in an I/O error; a write that writes less
\* than it was given and reports no error; an S3 or database error of the run.
FaultKinds == {"crash", "flush", "short", "ship"}

ASSUME ConstantsAssumption ==
    /\ Accepted \subseteq Records
    /\ Torn \notin Records /\ None \notin Records
    /\ MayFail \subseteq FaultKinds
    /\ MaxFaults \in Nat

VARIABLES
    sealed,       \* D_end + 48 h has passed
    file,         \* disk: frames of the file at the path
    inode,        \* disk: which file the path names, counted from 1
    exists,       \* disk: the path names a file
    synced,       \* disk: frames that survive a power failure
    current,      \* the writers map: the writer of the path, or None
    wpc,          \* wpc[w]: where the writer's flush is
    closed,       \* writers that refuse appends
    handle,       \* handle[w]: inode of its open handle, 0 before it opens
    pending,      \* pending[w]: appends not taken by a flush
    taken,        \* taken[w]: appends of the flush under way
    pc,           \* pc[r]: where the record's handler is
    late,         \* late[r]: the day was sealed when the handler started
    holds,        \* holds[r]: the writer the handler was given
    counted,      \* Redis: records that reached the counters
    spc,          \* where the nightly run is
    body,         \* bytes the run has read
    overlapped,   \* history: they end inside a frame a write was still making
    object,       \* bucket: what the object holds
    recorded,     \* Postgres: the upload row exists
    integrity,    \* Postgres: size and checksum in the row
    localDeleted, \* Postgres: the row's local_deleted_at is set
    onTime,       \* history: records counted before the day sealed
    logged,       \* history: records whose append resolved
    faults        \* history: faults[k], faults of kind k so far

disk     == <<file, inode, exists, synced>>
writers  == <<current, wpc, closed, handle, pending, taken>>
handlers == <<pc, late, holds, counted>>
upload   == <<object, recorded, integrity, localDeleted>>
history  == <<onTime, logged>>
read     == <<body, overlapped>>
vars == <<sealed, disk, writers, handlers, spc, read, upload, history, faults>>

Frames(s) == {s[i] : i \in DOMAIN s}

Init ==
    /\ sealed = FALSE
    /\ file = << >> /\ inode = 0 /\ exists = FALSE /\ synced = 0
    /\ current = None
    /\ wpc = [w \in Records |-> "unmade"]
    /\ closed = {}
    /\ handle = [w \in Records |-> 0]
    /\ pending = [w \in Records |-> << >>]
    /\ taken = [w \in Records |-> << >>]
    /\ pc = [r \in Records |-> "queued"]
    /\ late = [r \in Records |-> FALSE]
    /\ holds = [r \in Records |-> None]
    /\ counted = {}
    /\ spc = "idle" /\ body = << >> /\ overlapped = FALSE
    /\ object = << >> /\ recorded = FALSE /\ integrity = << >>
    /\ localDeleted = FALSE
    /\ onTime = {} /\ logged = {}
    /\ faults = [k \in FaultKinds |-> 0]

Fault(k) ==
    /\ k \in MayFail
    /\ faults["crash"] + faults["flush"] + faults["short"] + faults["ship"]
         < MaxFaults
    /\ faults' = [faults EXCEPT ![k] = @ + 1]

\* The clock passes the end of the day's grace window.
SealDay ==
    /\ ~sealed
    /\ sealed' = TRUE
    /\ UNCHANGED <<disk, writers, handlers, spc, read, upload, history, faults>>

-----------------------------------------------------------------------------
(* The handler of one record *)

\* The batch stamps its clock once; step 5 judges the record by that stamp.
Start(r) ==
    /\ pc[r] = "queued"
    /\ late' = [late EXCEPT ![r] = sealed]
    /\ pc' = [pc EXCEPT ![r] = "lookup"]
    /\ UNCHANGED <<sealed, disk, writers, holds, counted, spc, read, upload,
                   history, faults>>

\* writerFor: the writer of the map, or one that is made after mkdir.
Lookup(r) ==
    /\ pc[r] = "lookup"
    /\ holds' = [holds EXCEPT ![r] = current]
    /\ pc' = [pc EXCEPT ![r] = IF current = None THEN "mkdir" ELSE "append"]
    /\ UNCHANGED <<sealed, disk, writers, late, counted, spc, read, upload,
                   history, faults>>

\* Whoever comes back from mkdir replaces the writer of the map.
MakeWriter(r) ==
    /\ pc[r] = "mkdir"
    /\ wpc' = [wpc EXCEPT ![r] = "idle"]
    /\ current' = r
    /\ holds' = [holds EXCEPT ![r] = r]
    /\ pc' = [pc EXCEPT ![r] = "append"]
    /\ UNCHANGED <<sealed, disk, closed, handle, pending, taken, late, counted,
                   spc, read, upload, history, faults>>

\* A closed writer rejects, and processOne swallows the rejection.
AppendFrame(r) ==
    /\ pc[r] = "append"
    /\ IF holds[r] \in closed
         THEN /\ pc' = [pc EXCEPT ![r] = "ended"]
              /\ UNCHANGED pending
         ELSE /\ pc' = [pc EXCEPT ![r] = "waiting"]
              /\ pending' = [pending EXCEPT ![holds[r]] = Append(@, r)]
    /\ UNCHANGED <<sealed, disk, current, wpc, closed, handle, taken, late,
                   holds, counted, spc, read, upload, history, faults>>

\* Quarantined and sealed-late records feed nothing.
Feeds(r) == r \in Accepted /\ ~late[r]

\* Mutated form of Settle: counts while the append is still unresolved.
SettleBeforeAppend(r) ==
    /\ pc[r] \in {"waiting", "logged"}
    /\ counted' = counted \cup (IF Feeds(r) THEN {r} ELSE {})
    /\ onTime' = onTime \cup (IF Feeds(r) /\ ~sealed THEN {r} ELSE {})
    /\ pc' = [pc EXCEPT ![r] = "ended"]
    /\ UNCHANGED <<sealed, disk, writers, late, holds, spc, read, upload,
                   logged, faults>>

\* Steps 5 to 8, the append behind it.
Settle(r) ==
    /\ pc[r] = "logged"
    /\ counted' = counted \cup (IF Feeds(r) THEN {r} ELSE {})
    /\ onTime' = onTime \cup (IF Feeds(r) /\ ~sealed THEN {r} ELSE {})
    /\ pc' = [pc EXCEPT ![r] = "ended"]
    /\ UNCHANGED <<sealed, disk, writers, late, holds, spc, read, upload,
                   logged, faults>>

\* The job returns, its locals with it: BullMQ will not deliver the record again.
Ack(r) ==
    /\ pc[r] = "ended"
    /\ pc' = [pc EXCEPT ![r] = "done"]
    /\ late' = [late EXCEPT ![r] = FALSE]
    /\ holds' = [holds EXCEPT ![r] = None]
    /\ UNCHANGED <<sealed, disk, writers, counted, spc, read, upload, history, faults>>

-----------------------------------------------------------------------------
(* The group commit of one writer *)

\* flushOnce takes every pending append; the first one opens the handle.
TakeBatch(w) ==
    /\ wpc[w] = "idle" /\ pending[w] # << >>
    /\ taken' = [taken EXCEPT ![w] = pending[w]]
    /\ pending' = [pending EXCEPT ![w] = << >>]
    /\ wpc' = [wpc EXCEPT ![w] = IF handle[w] = 0 THEN "open" ELSE "write"]
    /\ UNCHANGED <<sealed, disk, current, closed, handle, handlers, spc, read,
                   upload, history, faults>>

\* open(path, 'a') creates the file when the path names none.
OpenFile(w) ==
    /\ wpc[w] = "open"
    /\ inode' = IF exists THEN inode ELSE inode + 1
    /\ exists' = TRUE
    /\ handle' = [handle EXCEPT ![w] = inode']
    /\ wpc' = [wpc EXCEPT ![w] = "write"]
    /\ UNCHANGED <<sealed, file, synced, current, closed, pending, taken,
                   handlers, spc, read, upload, history, faults>>

\* What a writer writes after its file was deleted goes to no path.
AtPath(w) == exists /\ handle[w] = inode

\* The writers whose write to the file is under way.
Writing == {w \in Records : wpc[w] = "write" /\ AtPath(w)}

Write(w) ==
    /\ wpc[w] = "write"
    /\ file' = IF AtPath(w) THEN file \o taken[w] ELSE file
    /\ wpc' = [wpc EXCEPT ![w] = "sync"]
    /\ UNCHANGED <<sealed, inode, exists, synced, current, closed, handle,
                   pending, taken, handlers, spc, read, upload, history, faults>>

\* Some frames of a batch, and perhaps part of the next one.
Partial(batch) ==
    {SubSeq(batch, 1, k) : k \in 0 .. Len(batch) - 1}
        \cup {Append(SubSeq(batch, 1, k), Torn) : k \in 0 .. Len(batch) - 1}

\* The write returns fewer bytes than it was given; nobody looks.
ShortWrite(w) ==
    /\ Fault("short")
    /\ w \in Writing
    /\ \E part \in Partial(taken[w]) : file' = file \o part
    /\ wpc' = [wpc EXCEPT ![w] = "sync"]
    /\ UNCHANGED <<sealed, inode, exists, synced, current, closed, handle,
                   pending, taken, handlers, spc, read, upload, history>>

\* Every append of the flush resolves once fsync returns.
Sync(w) ==
    /\ wpc[w] = "sync"
    /\ synced' = IF AtPath(w) THEN Len(file) ELSE synced
    /\ pc' = [r \in Records |-> IF r \in Frames(taken[w]) THEN "logged" ELSE pc[r]]
    /\ logged' = logged \cup Frames(taken[w])
    /\ taken' = [taken EXCEPT ![w] = << >>]
    /\ wpc' = [wpc EXCEPT ![w] = "idle"]
    /\ UNCHANGED <<sealed, file, inode, exists, current, closed, handle, pending,
                   late, holds, counted, spc, read, upload, onTime, faults>>

\* An I/O error of the open, the write or the fsync rejects every append of the
\* flush.  The writer stays in use: with the handle it has, or with an open that
\* failed, which it keeps.
FlushFail(w) ==
    /\ Fault("flush")
    /\ wpc[w] \in {"open", "write", "sync"}
    /\ IF wpc[w] = "write" /\ AtPath(w)
         THEN \E part \in Partial(taken[w]) : file' = file \o part
         ELSE UNCHANGED file
    /\ pc' = [r \in Records |-> IF r \in Frames(taken[w]) THEN "ended" ELSE pc[r]]
    /\ taken' = [taken EXCEPT ![w] = << >>]
    /\ wpc' = [wpc EXCEPT ![w] = IF wpc[w] = "open" THEN "broken" ELSE "idle"]
    /\ UNCHANGED <<sealed, inode, exists, synced, current, closed, handle,
                   pending, late, holds, counted, spc, read, upload, history>>

\* Every later flush of such a writer awaits the failed open again.
RejectBatch(w) ==
    /\ wpc[w] = "broken" /\ pending[w] # << >>
    /\ pc' = [r \in Records |-> IF r \in Frames(pending[w]) THEN "ended" ELSE pc[r]]
    /\ pending' = [pending EXCEPT ![w] = << >>]
    /\ UNCHANGED <<sealed, disk, current, wpc, closed, handle, taken, late, holds,
                   counted, spc, read, upload, history, faults>>

-----------------------------------------------------------------------------
(* The nightly run *)

\* The run takes a game that has local files.  Without this one, another day's
\* still brings it to the retention pass.  sealFile closes the writer of the map ...
RunStart ==
    /\ spc = "idle" /\ sealed
    /\ IF ~exists THEN spc' \in {"idle", "retention"} /\ UNCHANGED closed
       ELSE IF current = None THEN spc' = "row" /\ UNCHANGED closed
       ELSE spc' = "drain" /\ closed' = closed \cup {current}
    /\ UNCHANGED <<sealed, disk, current, wpc, handle, pending, taken, handlers,
                   read, upload, history, faults>>

\* ... and, its flushes over, forgets whichever writer the map holds by then.
SealDrained ==
    /\ spc = "drain"
    /\ \A w \in closed : wpc[w] \in {"idle", "broken"} /\ pending[w] = << >>
    /\ current' = None
    /\ spc' = "row"
    /\ UNCHANGED <<sealed, disk, wpc, closed, handle, pending, taken, handlers,
                   read, upload, history, faults>>

\* readFile and a write of the same file are not ordered: it may return part of
\* what a writer is about to have written.
ReadFile ==
    \E part \in {<< >>} \cup UNION {Partial(taken[w]) : w \in Writing} :
        /\ body' = file \o part
        /\ overlapped' = (Torn \in Frames(part))

\* The bytes are dropped; what is known of them stays for a day that was shipped.
LetGo == body' = << >> /\ overlapped' = (recorded /\ overlapped)

\* Mutated form of ReadUnlessRecorded: an object in the bucket counts as shipped.
ReadUnlessUploaded ==
    /\ spc = "row"
    /\ IF object # << >> THEN spc' = "retention" /\ UNCHANGED read
                         ELSE spc' = "gate" /\ ReadFile
    /\ UNCHANGED <<sealed, disk, writers, handlers, upload, history, faults>>

\* A day with a row is never shipped again; shipFile starts with a read.
ReadUnlessRecorded ==
    /\ spc = "row"
    /\ IF recorded THEN spc' = "retention" /\ UNCHANGED read
                   ELSE spc' = "gate" /\ ReadFile
    /\ UNCHANGED <<sealed, disk, writers, handlers, upload, history, faults>>

\* Mutated form of Gate: a torn file is shipped like any other.
GateOpen ==
    /\ spc = "gate"
    /\ spc' = "put"
    /\ UNCHANGED <<sealed, disk, writers, handlers, read, upload, history, faults>>

\* The decode gate reads the file a second time; a torn file is left alone, and
\* so is one that a write makes look torn.
Gate ==
    /\ spc = "gate"
    /\ \/ spc' = "put" /\ Torn \notin Frames(file)
       \/ spc' = "retention" /\ (Torn \in Frames(file) \/ Writing # {})
    /\ UNCHANGED <<sealed, disk, writers, handlers, read, upload, history, faults>>

Put ==
    /\ spc = "put"
    /\ object' = body
    /\ spc' = "verify"
    /\ UNCHANGED <<sealed, disk, writers, handlers, read, recorded, integrity,
                   localDeleted, history, faults>>

\* The bucket holds something else than what was sent.
PutDamaged ==
    /\ Fault("ship")
    /\ spc = "put"
    /\ object' = <<Torn>>
    /\ spc' = "verify"
    /\ UNCHANGED <<sealed, disk, writers, handlers, read, recorded, integrity,
                   localDeleted, history>>

\* Mutated form of VerifyAndRecord: the read-back is not compared.
RecordUnverified ==
    /\ spc = "verify"
    /\ recorded' = TRUE /\ integrity' = body
    /\ spc' = "retention"
    /\ UNCHANGED <<sealed, disk, writers, handlers, read, object, localDeleted,
                   history, faults>>

\* The object is read back, and its size and checksum are compared.
Verified == object = body

\* Only then is the row written.
VerifyAndRecord ==
    /\ spc = "verify"
    /\ IF Verified THEN recorded' = TRUE /\ integrity' = body
                     ELSE UNCHANGED <<recorded, integrity>>
    /\ spc' = "retention"
    /\ UNCHANGED <<sealed, disk, writers, handlers, read, object, localDeleted,
                   history, faults>>

\* An exception of shipFile is caught: no row, and on to the retention pass.
ShipFail ==
    /\ Fault("ship")
    /\ spc \in {"gate", "put", "verify"}
    /\ spc' = "retention"
    /\ UNCHANGED <<sealed, disk, writers, handlers, read, upload, history>>

\* The bookkeeping table or the rm throws: the game, or the row, is skipped.
RunFail ==
    /\ Fault("ship")
    /\ spc \in {"row", "retention", "remove", "stamp"}
    /\ spc' = "idle" /\ LetGo
    /\ UNCHANGED <<sealed, disk, writers, handlers, upload, history>>

\* The row's local retention, 0 days unless configured, may have run out.
RetentionPass ==
    /\ spc = "retention"
    /\ LetGo
    /\ \E due \in BOOLEAN :
         spc' = IF recorded /\ ~localDeleted /\ due THEN "remove" ELSE "idle"
    /\ UNCHANGED <<sealed, disk, writers, handlers, upload, history, faults>>

RemoveFile ==
    /\ spc = "remove"
    /\ file' = << >> /\ exists' = FALSE /\ synced' = 0
    /\ spc' = "stamp"
    /\ UNCHANGED <<sealed, inode, writers, handlers, read, upload, history, faults>>

StampRow ==
    /\ spc = "stamp"
    /\ localDeleted' = TRUE
    /\ spc' = "idle"
    /\ UNCHANGED <<sealed, disk, writers, handlers, read, object, recorded,
                   integrity, history, faults>>

-----------------------------------------------------------------------------
\* Power fails: what was not synced survives in part, the last frame perhaps
\* cut; writers, handlers and the run are gone, unacked records come again.
Crash ==
    /\ Fault("crash")
    /\ \E k \in synced .. Len(file) :
         \E cut \in {<< >>, <<Torn>>} :
           /\ cut = <<Torn>> => k < Len(file) \/ Writing # {}
           /\ file' = SubSeq(file, 1, k) \o cut
    /\ synced' = Len(file')
    /\ current' = None
    /\ wpc' = [w \in Records |-> "unmade"]
    /\ closed' = {}
    /\ handle' = [w \in Records |-> 0]
    /\ pending' = [w \in Records |-> << >>]
    /\ taken' = [w \in Records |-> << >>]
    /\ pc' = [r \in Records |-> IF pc[r] = "done" THEN "done" ELSE "queued"]
    /\ late' = [r \in Records |-> FALSE]
    /\ holds' = [r \in Records |-> None]
    /\ spc' = "idle" /\ LetGo
    /\ UNCHANGED <<sealed, inode, exists, counted, upload, history>>

RecordStep(r) == \/ Start(r) \/ Lookup(r) \/ MakeWriter(r) \/ AppendFrame(r)
                 \/ Settle(r) \/ Ack(r)

FlushStep(w) == TakeBatch(w) \/ RejectBatch(w) \/ OpenFile(w) \/ Write(w) \/ Sync(w)

RunStep == \/ RunStart \/ SealDrained \/ ReadUnlessRecorded \/ Gate \/ Put
           \/ VerifyAndRecord \/ RetentionPass \/ RemoveFile \/ StampRow

Next == \/ SealDay
        \/ \E r \in Records : RecordStep(r)
        \/ \E w \in Records : FlushStep(w) \/ ShortWrite(w) \/ FlushFail(w)
        \/ RunStep \/ PutDamaged \/ ShipFail \/ RunFail
        \/ Crash

Spec == Init /\ [][Next]_vars

\* The nightly job repeats, and the event loop runs what it holds.
Fairness == /\ WF_vars(RunStep)
            /\ \A r \in Records : WF_vars(RecordStep(r)) /\ WF_vars(FlushStep(r))

FairSpec == Spec /\ Fairness

-----------------------------------------------------------------------------
(* Properties *)

Contents == Seq(Records \cup {Torn})

\* Every variable keeps its type.
TypeOK ==
    /\ sealed \in BOOLEAN /\ exists \in BOOLEAN
    /\ file \in Contents /\ inode \in Nat /\ synced \in 0 .. Len(file)
    /\ current \in Records \cup {None}
    /\ wpc \in [Records -> {"unmade", "idle", "broken", "open", "write", "sync"}]
    /\ closed \subseteq Records
    /\ handle \in [Records -> 0 .. inode]
    /\ pending \in [Records -> Seq(Records)] /\ taken \in [Records -> Seq(Records)]
    /\ pc \in [Records -> {"queued", "lookup", "mkdir", "append", "waiting",
                            "logged", "ended", "done"}]
    /\ late \in [Records -> BOOLEAN]
    /\ holds \in [Records -> Records \cup {None}]
    /\ counted \subseteq Records /\ onTime \subseteq counted /\ logged \subseteq Records
    /\ spc \in {"idle", "drain", "row", "gate", "put", "verify", "retention",
                "remove", "stamp"}
    /\ body \in Contents /\ object \in Contents /\ integrity \in Contents
    /\ recorded \in BOOLEAN /\ localDeleted \in BOOLEAN /\ overlapped \in BOOLEAN
    /\ faults \in [FaultKinds -> Nat]

\* Write-ahead: until the file is deleted, whatever is counted is in the part of
\* it that a power failure spares, however appends of several writers share the
\* flushes, fail and come again (ingest-kernel.ts step 4, file-writer.ts append).
CountedIsDurable ==
    exists /\ inode = 1 /\ faults["short"] = 0
        => counted \subseteq Frames(SubSeq(file, 1, synced))

\* An upload row stands for an object that is in the bucket as it was checked
\* and decodes to its end, unless the bytes were read while the last frame of
\* them was being written: the gate looks at the file again, not at them
\* (nightly-shipment.service.ts steps 2 to 4).
RowMeansReadable ==
    recorded => object = integrity /\ (Torn \in Frames(object) => overlapped)

\* Whatever fails on the way to the bucket, what was counted while the day was
\* mutable stays in the local file or in the object
\* (nightly-shipment.service.ts retentionPass).
OnTimeSurvives ==
    faults["short"] = 0 => onTime \subseteq Frames(file) \cup Frames(object)

\* Every counted record can be read back from the raw file or the object: it is
\* not behind a torn frame (bridge 01.5 section 8, SC-008).
Readable(s) == {s[i] : i \in {k \in DOMAIN s : \A j \in 1 .. k : s[j] # Torn}}
CountedIsReadable == counted \subseteq Readable(file) \cup Readable(object)

\* Every record whose append resolved, a sealed-late one included, stays in the
\* local file or in the object (008 design: no append targets a sealed file).
LoggedSurvives == logged \subseteq Frames(file) \cup Frames(object)

\* A sealed file is shipped in the end, through failed uploads, damaged objects
\* and crashes, unless a torn frame keeps it local.
SealedIsShipped ==
    sealed /\ exists ~> recorded \/ Torn \in Frames(file)
=============================================================================
