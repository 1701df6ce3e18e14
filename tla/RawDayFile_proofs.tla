-------------------------- MODULE RawDayFile_proofs --------------------------
(***************************************************************************)
(* Theorems about RawDayFile, for every set of records and accepted        *)
(* records, every kind of fault that may happen and every bound on them.   *)
(***************************************************************************)
EXTENDS RawDayFile, SequenceTheorems, TLAPS

-----------------------------------------------------------------------------
(* The inductive invariant *)

\* The file the path names, with every write whole, is the first one: what has
\* been appended is still in it.
FirstWhole == exists /\ inode = 1 /\ faults["short"] = 0

\* No writer writes before it opened a file.
FileShape ==
    /\ exists => inode # 0
    /\ \A w \in Records : wpc[w] \in {"write", "sync"} => handle[w] # 0

\* Only a resolved append lets a record be counted.
CountedIsLogged ==
    /\ counted \subseteq logged
    /\ \A r \in Records : pc[r] = "logged" => r \in logged

\* Before the first open nothing has been appended; after it a flush that wrote
\* has its frames in the file, and a resolved append is below the fsync mark.
LoggedIsSynced ==
    /\ inode = 0 => logged = {}
    /\ FirstWhole =>
         /\ logged \subseteq Frames(SubSeq(file, 1, synced))
         /\ \A w \in Records : wpc[w] = "sync" => Frames(taken[w]) \subseteq Frames(file)

\* The run works on a sealed day; it ships only a day without a row, and deletes
\* only a day that has one: without a row the first file is there.
RunOrder ==
    /\ spc # "idle" \/ recorded => sealed
    /\ spc \in {"gate", "put", "verify"} => ~recorded
    /\ spc \in {"remove", "stamp"} => recorded
    /\ ~recorded => inode = 0 \/ (exists /\ inode = 1)

\* A torn frame of the bytes the run carries is one of the file, which the gate
\* would see, or of a write that the read overlapped; none counted on time is
\* missing.
BodyIsFile ==
    /\ spc = "gate" /\ Torn \in Frames(body) => Torn \in Frames(file) \/ overlapped
    /\ spc \in {"put", "verify"} /\ Torn \in Frames(body) => overlapped
    /\ spc \in {"gate", "put", "verify"} /\ faults["short"] = 0
         => onTime \subseteq Frames(body)

\* A row stands for an object with everything that was counted on time.
RowHoldsOnTime ==
    recorded /\ faults["short"] = 0 => onTime \subseteq Frames(object)

Kept == /\ FileShape
        /\ CountedIsLogged
        /\ LoggedIsSynced
        /\ RunOrder
        /\ BodyIsFile
        /\ RowMeansReadable
        /\ RowHoldsOnTime

IInv == TypeOK /\ Kept

-----------------------------------------------------------------------------
(* Lemmas on the frames of a file *)

\* Every frame of a file of frames of S is in S.
LEMMA FramesType ==
    ASSUME NEW S, NEW s \in Seq(S)
    PROVE  Frames(s) \subseteq S
  BY DEF Frames

\* An append to the end keeps the frames and adds those of the batch.
LEMMA FramesOfConcat ==
    ASSUME NEW S, NEW s \in Seq(S), NEW t \in Seq(S)
    PROVE  /\ s \o t \in Seq(S)
           /\ Frames(s \o t) = Frames(s) \cup Frames(t)
<1>1. /\ s \o t \in Seq(S) /\ Len(s \o t) = Len(s) + Len(t)
      /\ \A i \in 1 .. Len(s) + Len(t) :
           (s \o t)[i] = IF i <= Len(s) THEN s[i] ELSE t[i - Len(s)]
  BY ConcatProperties
<1>2. /\ Len(s) \in Nat /\ DOMAIN s = 1 .. Len(s)
      /\ Len(t) \in Nat /\ DOMAIN t = 1 .. Len(t)
      /\ DOMAIN (s \o t) = 1 .. Len(s) + Len(t)
  BY <1>1, LenProperties
<1>3. ASSUME NEW x \in Frames(s \o t)
      PROVE  x \in Frames(s) \cup Frames(t)
  <2>1. PICK i \in 1 .. Len(s) + Len(t) : x = (s \o t)[i]
    BY <1>2, <1>3 DEF Frames
  <2>2. CASE i <= Len(s)
    BY <1>1, <1>2, <2>1, <2>2 DEF Frames
  <2>3. CASE ~(i <= Len(s))
    <3>1. i - Len(s) \in 1 .. Len(t) /\ x = t[i - Len(s)]
      BY <1>1, <1>2, <2>1, <2>3
    <3>2. QED
      BY <1>2, <3>1 DEF Frames
  <2>4. QED
    BY <2>2, <2>3
<1>4. ASSUME NEW x \in Frames(s)
      PROVE  x \in Frames(s \o t)
  <2>1. PICK i \in 1 .. Len(s) : x = s[i]
    BY <1>2, <1>4 DEF Frames
  <2>2. i \in 1 .. Len(s) + Len(t) /\ x = (s \o t)[i]
    BY <1>1, <1>2, <2>1
  <2>3. QED
    BY <1>2, <2>2 DEF Frames
<1>5. ASSUME NEW x \in Frames(t)
      PROVE  x \in Frames(s \o t)
  <2>1. PICK i \in 1 .. Len(t) : x = t[i]
    BY <1>2, <1>5 DEF Frames
  <2>2. i + Len(s) \in 1 .. Len(s) + Len(t) /\ x = (s \o t)[i + Len(s)]
    BY <1>1, <1>2, <2>1
  <2>3. QED
    BY <1>2, <2>2 DEF Frames
<1>6. QED
  BY <1>1, <1>3, <1>4, <1>5

\* The first k frames are frames of the file.
LEMMA FramesOfPrefix ==
    ASSUME NEW S, NEW s \in Seq(S), NEW k \in 0 .. Len(s)
    PROVE  /\ SubSeq(s, 1, k) \in Seq(S)
           /\ Len(SubSeq(s, 1, k)) = k
           /\ Frames(SubSeq(s, 1, k)) = {s[i] : i \in 1 .. k}
           /\ Frames(SubSeq(s, 1, k)) \subseteq Frames(s)
<1>1. Len(s) \in Nat /\ DOMAIN s = 1 .. Len(s) /\ k \in Nat /\ k <= Len(s)
  BY LenProperties
<1>2. \A i \in 1 .. k : s[i] \in S
  BY <1>1, ElementOfSeq
<1>3. /\ SubSeq(s, 1, k) \in Seq(S)
      /\ Len(SubSeq(s, 1, k)) = k
      /\ \A i \in 1 .. k : SubSeq(s, 1, k)[i] = s[i]
  <2>1. /\ SubSeq(s, 1, k) \in Seq(S)
        /\ Len(SubSeq(s, 1, k)) = IF 1 <= k THEN k - 1 + 1 ELSE 0
        /\ \A i \in 1 .. k - 1 + 1 : SubSeq(s, 1, k)[i] = s[1 + i - 1]
    BY <1>1, <1>2, SubSeqProperties
  <2>2. QED
    BY <1>1, <2>1
<1>4. DOMAIN SubSeq(s, 1, k) = 1 .. k
  BY <1>3, LenProperties
<1>5. Frames(SubSeq(s, 1, k)) = {s[i] : i \in 1 .. k}
  BY <1>3, <1>4 DEF Frames
<1>6. {s[i] : i \in 1 .. k} \subseteq Frames(s)
  <2>1. \A i \in 1 .. k : i \in DOMAIN s
    BY <1>1
  <2>2. QED
    BY <2>1 DEF Frames
<1>7. QED
  BY <1>3, <1>5, <1>6

\* The first k frames, with k below k2, are among the first k2.
LEMMA PrefixMonotone ==
    ASSUME NEW S, NEW s \in Seq(S), NEW k \in 0 .. Len(s), NEW k2 \in k .. Len(s)
    PROVE  Frames(SubSeq(s, 1, k)) \subseteq Frames(SubSeq(s, 1, k2))
<1>1. Len(s) \in Nat
  BY LenProperties
<1>2. k2 \in 0 .. Len(s) /\ \A i \in 1 .. k : i \in 1 .. k2
  BY <1>1
<1>3. QED
  BY <1>2, FramesOfPrefix

\* An append to the end leaves the first k frames what they were.
LEMMA PrefixOfConcat ==
    ASSUME NEW S, NEW s \in Seq(S), NEW t \in Seq(S), NEW k \in 0 .. Len(s)
    PROVE  Frames(SubSeq(s \o t, 1, k)) = Frames(SubSeq(s, 1, k))
<1>1. /\ s \o t \in Seq(S) /\ Len(s \o t) = Len(s) + Len(t)
      /\ \A i \in 1 .. Len(s) + Len(t) :
           (s \o t)[i] = IF i <= Len(s) THEN s[i] ELSE t[i - Len(s)]
  BY ConcatProperties
<1>2. Len(s) \in Nat /\ Len(t) \in Nat
  BY LenProperties
<1>3. k \in 0 .. Len(s \o t) /\ \A i \in 1 .. k : (s \o t)[i] = s[i]
  BY <1>1, <1>2
<1>4. Frames(SubSeq(s \o t, 1, k)) = {(s \o t)[i] : i \in 1 .. k}
  <2> DEFINE st == s \o t
  <2>1. st \in Seq(S) /\ k \in 0 .. Len(st)
    BY <1>1, <1>3
  <2> HIDE DEF st
  <2>2. Frames(SubSeq(st, 1, k)) = {st[i] : i \in 1 .. k}
    BY <2>1, FramesOfPrefix
  <2>3. QED
    BY <2>2 DEF st
<1>5. Frames(SubSeq(s, 1, k)) = {s[i] : i \in 1 .. k}
  BY FramesOfPrefix
<1>6. QED
  BY <1>3, <1>4, <1>5

\* What a failed write leaves behind is frames of the batch, the last perhaps torn.
LEMMA PartialType ==
    ASSUME NEW batch \in Seq(Records), NEW part \in Partial(batch)
    PROVE  part \in Contents
<1>1. Len(batch) \in Nat
  BY LenProperties
<1>2. ASSUME NEW k \in 0 .. Len(batch) - 1
      PROVE  /\ SubSeq(batch, 1, k) \in Contents
             /\ Append(SubSeq(batch, 1, k), Torn) \in Contents
  <2>1. k \in 0 .. Len(batch)
    BY <1>1
  <2>2. SubSeq(batch, 1, k) \in Seq(Records)
    BY <2>1, FramesOfPrefix
  <2>3. SubSeq(batch, 1, k) \in Contents
    BY <2>2, SeqMonotonic DEF Contents
  <2>4. QED
    BY <2>3, AppendProperties DEF Contents
<1>3. QED
  BY <1>2 DEF Partial

-----------------------------------------------------------------------------
(* Type correctness *)

LEMMA TypeInit == Init => TypeOK
<1>1. << >> \in Contents /\ << >> \in Seq(Records) /\ Len(<< >>) = 0
  BY EmptySeq DEF Contents
<1> SUFFICES ASSUME Init PROVE TypeOK
  OBVIOUS
<1>2. /\ file \in Contents /\ synced \in 0 .. Len(file)
      /\ body \in Contents /\ object \in Contents /\ integrity \in Contents
  BY <1>1 DEF Init
<1>3. /\ pending \in [Records -> Seq(Records)] /\ taken \in [Records -> Seq(Records)]
      /\ handle \in [Records -> 0 .. inode] /\ faults \in [FaultKinds -> Nat]
  BY <1>1 DEF Init
<1>4. QED
  BY <1>2, <1>3 DEF Init, TypeOK

\* A fault is counted with its kind; the others keep their counts.
LEMMA FaultStep ==
    ASSUME TypeOK, NEW k \in FaultKinds, Fault(k)
    PROVE  /\ faults' \in [FaultKinds -> Nat]
           /\ k = "short" => faults'["short"] # 0
           /\ k # "short" => faults'["short"] = faults["short"]
  BY DEF Fault, TypeOK, FaultKinds

\* The handler of a record keeps the types.
LEMMA TypeRecord ==
    ASSUME TypeOK, NEW r \in Records, RecordStep(r)
    PROVE  TypeOK'
<1> USE DEF disk, writers, handlers, upload, history, read, LetGo
<1>1. CASE Start(r)
  BY <1>1 DEF Start, TypeOK
<1>2. CASE Lookup(r)
  BY <1>2 DEF Lookup, TypeOK
<1>3. CASE MakeWriter(r)
  BY <1>3 DEF MakeWriter, TypeOK
<1>4. CASE AppendFrame(r)
  <2>1. \A s \in Seq(Records) : Append(s, r) \in Seq(Records)
    BY AppendProperties
  <2>2. pending' \in [Records -> Seq(Records)]
    <3>1. pending \in [Records -> Seq(Records)]
      BY DEF TypeOK
    <3>2. [pending EXCEPT ![holds[r]] = Append(@, r)] \in [Records -> Seq(Records)]
      BY <2>1, <3>1
    <3>3. QED
      BY <1>4, <3>1, <3>2 DEF AppendFrame
  <2>3. QED
    BY <1>4, <2>2 DEF AppendFrame, TypeOK
<1>5. CASE Settle(r)
  BY <1>5 DEF Settle, TypeOK
<1>6. CASE Ack(r)
  BY <1>6 DEF Ack, TypeOK
<1>7. QED
  BY <1>1, <1>2, <1>3, <1>4, <1>5, <1>6 DEF RecordStep

\* A writer's flush, whole, short or failed, keeps the types.
LEMMA TypeFlush ==
    ASSUME TypeOK, NEW w \in Records, FlushStep(w) \/ ShortWrite(w) \/ FlushFail(w)
    PROVE  TypeOK'
<1> USE DEF disk, writers, handlers, upload, history, read, LetGo
<1>1. << >> \in Seq(Records)
  BY EmptySeq
<1>2. \A part \in Contents :
        file \o part \in Contents /\ synced \in 0 .. Len(file \o part)
  BY ConcatProperties, LenProperties DEF TypeOK, Contents
<1>3. taken[w] \in Contents /\ \A part \in Partial(taken[w]) : part \in Contents
  BY PartialType, SeqMonotonic DEF TypeOK, Contents
<1>4. Frames(taken[w]) \subseteq Records
  BY FramesType DEF TypeOK
<1>5. CASE TakeBatch(w)
  BY <1>1, <1>5 DEF TakeBatch, TypeOK
<1>6. CASE OpenFile(w)
  BY <1>6 DEF OpenFile, TypeOK
<1>7. CASE Write(w)
  <2>1. file' \in Contents /\ synced' \in 0 .. Len(file')
    BY <1>2, <1>3, <1>7 DEF Write, TypeOK
  <2>2. QED
    BY <1>7, <2>1 DEF Write, TypeOK
<1>8. CASE Sync(w)
  <2>1. Len(file) \in Nat
    BY LenProperties DEF TypeOK, Contents
  <2>2. QED
    BY <1>1, <1>4, <1>8, <2>1, SMTT(30) DEF Sync, TypeOK
<1>9. CASE ShortWrite(w)
  <2>1. file' \in Contents /\ synced' \in 0 .. Len(file')
    BY <1>2, <1>3, <1>9 DEF ShortWrite, TypeOK
  <2>2. faults' \in [FaultKinds -> Nat]
    BY <1>9, FaultStep DEF ShortWrite, FaultKinds
  <2>3. QED
    BY <1>9, <2>1, <2>2 DEF ShortWrite, TypeOK
<1>10. CASE FlushFail(w)
  <2>1. file' \in Contents /\ synced' \in 0 .. Len(file')
    BY <1>2, <1>3, <1>10, ZenonT(60) DEF FlushFail, TypeOK
  <2>2. faults' \in [FaultKinds -> Nat]
    BY <1>10, FaultStep DEF FlushFail, FaultKinds
  <2>3. QED
    BY <1>1, <1>10, <2>1, <2>2 DEF FlushFail, TypeOK
<1>11. CASE RejectBatch(w)
  BY <1>1, <1>11 DEF RejectBatch, TypeOK
<1>12. QED
  BY <1>5, <1>6, <1>7, <1>8, <1>9, <1>10, <1>11 DEF FlushStep

\* What a read returns is the file and perhaps part of a write under way: only the
\* latter adds a torn frame.
LEMMA ReadFrames ==
    ASSUME TypeOK, ReadFile
    PROVE  /\ body' \in Contents /\ overlapped' \in BOOLEAN
           /\ Frames(file) \subseteq Frames(body')
           /\ Torn \in Frames(body') => Torn \in Frames(file) \/ overlapped'
<1>1. PICK part \in {<< >>} \cup UNION {Partial(taken[w]) : w \in Writing} :
        /\ body' = file \o part
        /\ overlapped' = (Torn \in Frames(part))
  BY DEF ReadFile
<1>2. part \in Contents
  <2>1. << >> \in Contents
    BY EmptySeq DEF Contents
  <2>2. \A w \in Writing : taken[w] \in Seq(Records)
    BY DEF Writing, TypeOK
  <2>3. QED
    BY <2>1, <2>2, PartialType
<1>3. file \o part \in Contents /\ Frames(file \o part) = Frames(file) \cup Frames(part)
  BY <1>2, FramesOfConcat DEF TypeOK, Contents
<1>4. body' \in Contents /\ Frames(body') = Frames(file) \cup Frames(part)
  BY <1>1, <1>3
<1>5. overlapped' = (Torn \in Frames(part))
  BY <1>1
<1>6. CASE Torn \in Frames(part)
  <2>1. overlapped' = TRUE
    BY <1>5, <1>6, Zenon
  <2>2. QED
    BY <1>4, <2>1
<1>7. CASE ~(Torn \in Frames(part))
  <2>1. (Torn \in Frames(part)) = FALSE
    BY <1>7
  <2>2. overlapped' = FALSE
    BY <1>5, <2>1
  <2>3. QED
    BY <1>4, <1>7, <2>2
<1>8. QED
  BY <1>6, <1>7

\* The nightly run, and the failures in it, keep the types.
LEMMA TypeRun ==
    ASSUME TypeOK, RunStep \/ PutDamaged \/ ShipFail \/ RunFail
    PROVE  TypeOK'
<1> USE DEF disk, writers, handlers, upload, history, read, LetGo
<1>1. << >> \in Contents /\ Len(<< >>) = 0 /\ <<Torn>> \in Contents
  BY EmptySeq DEF Contents
<1>2. CASE RunStart
  BY <1>2 DEF RunStart, TypeOK, None
<1>3. CASE SealDrained
  BY <1>3 DEF SealDrained, TypeOK
<1>4. CASE ReadUnlessRecorded
  <2>1. ReadFile => body' \in Contents /\ overlapped' \in BOOLEAN
    BY ReadFrames
  <2>2. QED
    BY <1>4, <2>1 DEF ReadUnlessRecorded, TypeOK
<1>5. CASE Gate
  BY <1>5 DEF Gate, TypeOK
<1>6. CASE Put
  BY <1>6 DEF Put, TypeOK
<1>7. CASE VerifyAndRecord
  BY <1>7 DEF VerifyAndRecord, TypeOK
<1>8. CASE RetentionPass
  BY <1>1, <1>8 DEF RetentionPass, TypeOK
<1>9. CASE RemoveFile
  <2>1. file' \in Contents /\ synced' \in 0 .. Len(file')
    BY <1>1, <1>9 DEF RemoveFile
  <2>2. QED
    BY <1>9, <2>1 DEF RemoveFile, TypeOK
<1>10. CASE StampRow
  BY <1>10 DEF StampRow, TypeOK
<1>11. CASE PutDamaged
  <2>1. faults' \in [FaultKinds -> Nat]
    BY <1>11, FaultStep DEF PutDamaged, FaultKinds
  <2>2. QED
    BY <1>1, <1>11, <2>1 DEF PutDamaged, TypeOK
<1>12. CASE ShipFail
  <2>1. faults' \in [FaultKinds -> Nat]
    BY <1>12, FaultStep DEF ShipFail, FaultKinds
  <2>2. QED
    BY <1>12, <2>1 DEF ShipFail, TypeOK
<1>13. CASE RunFail
  <2>1. faults' \in [FaultKinds -> Nat]
    BY <1>13, FaultStep DEF RunFail, FaultKinds
  <2>2. QED
    BY <1>1, <1>13, <2>1 DEF RunFail, TypeOK
<1>14. QED
  BY <1>2, <1>3, <1>4, <1>5, <1>6, <1>7, <1>8, <1>9, <1>10, <1>11, <1>12, <1>13
     DEF RunStep

\* A power failure keeps the types, and every frame below the fsync mark.
LEMMA CrashKeepsSynced ==
    ASSUME TypeOK, Crash
    PROVE  /\ file' \in Contents
           /\ synced' = Len(file')
           /\ Frames(SubSeq(file, 1, synced)) \subseteq Frames(file')
           /\ Frames(SubSeq(file', 1, synced')) = Frames(file')
<1>1. PICK k \in synced .. Len(file), cut \in {<< >>, <<Torn>>} :
        file' = SubSeq(file, 1, k) \o cut
  BY DEF Crash
<1>2. Len(file) \in Nat /\ synced \in 0 .. Len(file) /\ k \in 0 .. Len(file)
  BY LenProperties DEF TypeOK, Contents
<1>3. cut \in Contents
  <2>1. << >> \in Contents /\ <<Torn>> \in Contents
    BY EmptySeq DEF Contents
  <2>2. QED
    BY <2>1
<1>4. /\ SubSeq(file, 1, k) \in Contents
      /\ Frames(SubSeq(file, 1, synced)) \subseteq Frames(SubSeq(file, 1, k))
  BY <1>2, FramesOfPrefix, PrefixMonotone DEF TypeOK, Contents
<1>5. file' \in Contents /\ Frames(SubSeq(file, 1, k)) \subseteq Frames(file')
  <2> DEFINE spared == SubSeq(file, 1, k)
  <2>1. spared \in Contents
    BY <1>4
  <2>2. file' = spared \o cut
    BY <1>1
  <2> HIDE DEF spared
  <2>3. spared \o cut \in Contents /\ Frames(spared) \subseteq Frames(spared \o cut)
    BY <1>3, <2>1, FramesOfConcat DEF Contents
  <2>4. QED
    BY <2>2, <2>3 DEF spared
<1>6. synced' = Len(file')
  BY DEF Crash
<1>7. SubSeq(file', 1, synced') = file'
  BY <1>5, <1>6, SubSeqFull DEF Contents
<1>8. QED
  BY <1>4, <1>5, <1>6, <1>7

LEMMA TypeCrash ==
    ASSUME TypeOK, Crash
    PROVE  TypeOK'
<1> USE DEF disk, writers, handlers, upload, history, read, LetGo
<1>1. << >> \in Seq(Records) /\ << >> \in Contents
  BY EmptySeq DEF Contents
<1>2. file' \in Contents /\ synced' \in 0 .. Len(file')
  BY CrashKeepsSynced, LenProperties DEF Contents
<1>3. faults' \in [FaultKinds -> Nat]
  BY FaultStep DEF Crash, FaultKinds
<1>4. QED
  BY <1>1, <1>2, <1>3 DEF Crash, TypeOK, None

LEMMA TypeNext == TypeOK /\ [Next]_vars => TypeOK'
<1> SUFFICES ASSUME TypeOK, [Next]_vars PROVE TypeOK'
  OBVIOUS
<1> USE DEF disk, writers, handlers, upload, history, read, LetGo
<1>1. CASE SealDay
  BY <1>1 DEF SealDay, TypeOK
<1>2. CASE \E r \in Records : RecordStep(r)
  BY <1>2, TypeRecord
<1>3. CASE \E w \in Records : FlushStep(w) \/ ShortWrite(w) \/ FlushFail(w)
  BY <1>3, TypeFlush
<1>4. CASE RunStep \/ PutDamaged \/ ShipFail \/ RunFail
  BY <1>4, TypeRun
<1>5. CASE Crash
  BY <1>5, TypeCrash
<1>6. CASE UNCHANGED vars
  BY <1>6 DEF vars, TypeOK
<1>7. QED
  BY <1>1, <1>2, <1>3, <1>4, <1>5, <1>6 DEF Next

\* Every variable keeps its type, for every set of records and any faults.
THEOREM TypeCorrect == Spec => []TypeOK
  BY TypeInit, TypeNext, PTL DEF Spec

-----------------------------------------------------------------------------
(* Each step keeps the invariant *)

LEMMA KeptInit == Init => Kept
<1>1. Frames(<< >>) = {}
  BY DEF Frames
<1>2. QED
  BY <1>1 DEF Init, Kept, FileShape, CountedIsLogged, LoggedIsSynced, FirstWhole,
              RunOrder, BodyIsFile, RowMeansReadable, RowHoldsOnTime

\* With the first file whole, its frames hold whatever has been counted.
LEMMA CountedInFile ==
    ASSUME IInv, FirstWhole
    PROVE  /\ counted \subseteq Frames(SubSeq(file, 1, synced))
           /\ counted \subseteq Frames(file)
<1>1. file \in Contents /\ synced \in 0 .. Len(file)
  BY DEF IInv, Kept, TypeOK
<1>2. Frames(SubSeq(file, 1, synced)) \subseteq Frames(file)
  BY <1>1, FramesOfPrefix DEF Contents
<1>3. QED
  BY <1>2 DEF IInv, Kept, CountedIsLogged, LoggedIsSynced

\* Growth of the file at its end keeps what was in it, and in its synced part.
LEMMA FileGrows ==
    ASSUME IInv, NEW part \in Contents, file' = file \o part, synced' = synced
    PROVE  /\ Frames(file') = Frames(file) \cup Frames(part)
           /\ Frames(SubSeq(file', 1, synced')) = Frames(SubSeq(file, 1, synced))
<1>1. file \in Contents /\ synced \in 0 .. Len(file)
  BY DEF IInv, Kept, TypeOK
<1>2. Frames(file \o part) = Frames(file) \cup Frames(part)
  BY <1>1, FramesOfConcat DEF Contents
<1>3. Frames(SubSeq(file \o part, 1, synced)) = Frames(SubSeq(file, 1, synced))
  BY <1>1, PrefixOfConcat DEF Contents
<1>4. QED
  BY <1>2, <1>3

LEMMA KeptRecord ==
    ASSUME IInv, NEW r \in Records, RecordStep(r)
    PROVE  Kept'
<1> USE DEF disk, writers, handlers, upload, history, read, LetGo, IInv, Kept, FileShape,
            CountedIsLogged, LoggedIsSynced, FirstWhole, RunOrder, BodyIsFile,
            RowMeansReadable, RowHoldsOnTime, TypeOK
<1>1. CASE Start(r)
  BY <1>1 DEF Start
<1>2. CASE Lookup(r)
  BY <1>2 DEF Lookup
<1>3. CASE MakeWriter(r)
  BY <1>3 DEF MakeWriter
<1>4. CASE AppendFrame(r)
  BY <1>4 DEF AppendFrame
<1>5. CASE Settle(r)
  BY <1>5 DEF Settle
<1>6. CASE Ack(r)
  BY <1>6 DEF Ack
<1>7. QED
  BY <1>1, <1>2, <1>3, <1>4, <1>5, <1>6 DEF RecordStep

LEMMA KeptRun ==
    ASSUME IInv, RunStep \/ PutDamaged \/ ShipFail \/ RunFail
    PROVE  Kept'
<1> USE DEF disk, writers, handlers, upload, history, read, LetGo, IInv, Kept, FileShape,
            CountedIsLogged, LoggedIsSynced, FirstWhole, RunOrder, BodyIsFile,
            RowMeansReadable, RowHoldsOnTime
<1>1. CASE RunStart
  BY <1>1 DEF RunStart
<1>2. CASE SealDrained
  BY <1>2 DEF SealDrained
<1>3. CASE ReadUnlessRecorded
  <2>1. ~recorded /\ faults["short"] = 0 => onTime \subseteq Frames(file)
    <3>1. ASSUME ~recorded, faults["short"] = 0
          PROVE  counted \subseteq Frames(file)
      <4>1. CASE inode = 0
        BY <4>1
      <4>2. CASE exists /\ inode = 1
        BY <3>1, <4>2, CountedInFile
      <4>3. QED
        BY <3>1, <4>1, <4>2
    <3>2. QED
      BY <3>1 DEF TypeOK
  <2>2. QED
    BY <1>3, <2>1, ReadFrames DEF ReadUnlessRecorded
<1>4. CASE Gate
  BY <1>4 DEF Gate
<1>5. CASE Put
  BY <1>5 DEF Put
<1>6. CASE VerifyAndRecord
  BY <1>6 DEF VerifyAndRecord, Verified
<1>7. CASE RetentionPass
  BY <1>7 DEF RetentionPass
<1>8. CASE RemoveFile
  BY <1>8 DEF RemoveFile
<1>9. CASE StampRow
  BY <1>9 DEF StampRow
<1>10. CASE PutDamaged
  BY <1>10, FaultStep DEF PutDamaged, FaultKinds
<1>11. CASE ShipFail
  BY <1>11, FaultStep DEF ShipFail, FaultKinds
<1>12. CASE RunFail
  BY <1>12, FaultStep DEF RunFail, FaultKinds
<1>13. QED
  BY <1>1, <1>2, <1>3, <1>4, <1>5, <1>6, <1>7, <1>8, <1>9, <1>10, <1>11, <1>12
     DEF RunStep

LEMMA KeptFlush ==
    ASSUME IInv, NEW w \in Records, FlushStep(w) \/ ShortWrite(w) \/ FlushFail(w)
    PROVE  Kept'
<1> USE DEF disk, writers, handlers, upload, history, read, LetGo, IInv, Kept, FileShape,
            CountedIsLogged, LoggedIsSynced, FirstWhole, RunOrder, BodyIsFile,
            RowMeansReadable, RowHoldsOnTime, TypeOK
<1>1. Frames(<< >>) = {}
  BY DEF Frames
<1>2. CASE TakeBatch(w)
  BY <1>2 DEF TakeBatch
<1>3. CASE OpenFile(w)
  BY <1>1, <1>3 DEF OpenFile
<1>4. CASE Write(w)
  <2>1. /\ Frames(file) \subseteq Frames(file')
        /\ AtPath(w) => Frames(taken[w]) \subseteq Frames(file')
        /\ Frames(SubSeq(file', 1, synced')) = Frames(SubSeq(file, 1, synced))
    <3>1. taken[w] \in Contents
      BY SeqMonotonic DEF Contents
    <3>2. CASE AtPath(w)
      BY <1>4, <3>1, <3>2, FileGrows DEF Write
    <3>3. CASE ~AtPath(w)
      BY <1>4, <3>3 DEF Write
    <3>4. QED
      BY <3>2, <3>3
  <2>2. LoggedIsSynced'
    <3>1. FirstWhole => AtPath(w)
      BY <1>4 DEF Write, AtPath
    <3>2. QED
      BY <1>4, <2>1, <3>1 DEF Write
  <2>3. FileShape' /\ CountedIsLogged' /\ RunOrder'
    BY <1>4 DEF Write
  <2>4. BodyIsFile' /\ RowMeansReadable' /\ RowHoldsOnTime'
    BY <1>4, <2>1 DEF Write
  <2>5. QED
    BY <2>2, <2>3, <2>4
<1>5. CASE Sync(w)
  <2>1. FirstWhole =>
          /\ SubSeq(file', 1, synced') = file
          /\ logged \subseteq Frames(file)
    <3>1. ASSUME FirstWhole
          PROVE  /\ AtPath(w)
                 /\ logged \subseteq Frames(file)
      <4>1. Frames(SubSeq(file, 1, synced)) \subseteq Frames(file)
        BY FramesOfPrefix DEF Contents
      <4>2. QED
        BY <1>5, <3>1, <4>1 DEF Sync, AtPath
    <3>2. SubSeq(file, 1, Len(file)) = file
      BY SubSeqFull DEF Contents
    <3>3. QED
      BY <1>5, <3>1, <3>2 DEF Sync
  <2>2. LoggedIsSynced'
    <3>1. inode' # 0
      BY <1>5 DEF Sync
    <3>2. FirstWhole' => logged' \subseteq Frames(SubSeq(file', 1, synced'))
      BY <1>5, <2>1 DEF Sync
    <3>3. FirstWhole' =>
            \A v \in Records : wpc'[v] = "sync" => Frames(taken'[v]) \subseteq Frames(file')
      BY <1>5 DEF Sync
    <3>4. QED
      BY <3>1, <3>2, <3>3
  <2>3. FileShape' /\ CountedIsLogged' /\ RunOrder'
    BY <1>5 DEF Sync
  <2>4. BodyIsFile' /\ RowMeansReadable' /\ RowHoldsOnTime'
    BY <1>5 DEF Sync
  <2>5. QED
    BY <2>2, <2>3, <2>4
<1>6. CASE ShortWrite(w)
  <2>1. Frames(file) \subseteq Frames(file')
    <3>1. PICK part \in Partial(taken[w]) : file' = file \o part
      BY <1>6 DEF ShortWrite
    <3>2. part \in Contents
      BY PartialType
    <3>3. QED
      BY <1>6, <3>1, <3>2, FileGrows DEF ShortWrite
  <2>2. faults'["short"] # 0
    BY <1>6, FaultStep DEF ShortWrite, FaultKinds
  <2>3. QED
    BY <1>6, <2>1, <2>2 DEF ShortWrite, Writing
<1>7. CASE FlushFail(w)
  <2>1. /\ Frames(file) \subseteq Frames(file')
        /\ Frames(SubSeq(file', 1, synced')) = Frames(SubSeq(file, 1, synced))
    <3>1. CASE file' = file
      BY <1>7, <3>1 DEF FlushFail
    <3>2. CASE \E part \in Partial(taken[w]) : file' = file \o part
      <4>1. PICK part \in Partial(taken[w]) : file' = file \o part
        BY <3>2
      <4>2. part \in Contents
        BY PartialType
      <4>3. QED
        BY <1>7, <4>1, <4>2, FileGrows DEF FlushFail
    <3>3. QED
      BY <1>7, <3>1, <3>2 DEF FlushFail
  <2>2. faults'["short"] = faults["short"]
    BY <1>7, FaultStep DEF FlushFail, FaultKinds
  <2>3. FileShape' /\ CountedIsLogged' /\ RunOrder'
    BY <1>7 DEF FlushFail
  <2>4. LoggedIsSynced'
    BY <1>7, <2>1, <2>2 DEF FlushFail
  <2>5. BodyIsFile' /\ RowMeansReadable' /\ RowHoldsOnTime'
    BY <1>7, <2>1, <2>2 DEF FlushFail
  <2>6. QED
    BY <2>3, <2>4, <2>5
<1>8. CASE RejectBatch(w)
  BY <1>8 DEF RejectBatch
<1>9. QED
  BY <1>2, <1>3, <1>4, <1>5, <1>6, <1>7, <1>8 DEF FlushStep

LEMMA KeptCrash ==
    ASSUME IInv, Crash
    PROVE  Kept'
<1> USE DEF disk, writers, handlers, upload, history, read, LetGo
<1>1. /\ Frames(SubSeq(file, 1, synced)) \subseteq Frames(SubSeq(file', 1, synced'))
      /\ faults'["short"] = faults["short"]
  BY CrashKeepsSynced, FaultStep DEF IInv, Kept, Crash, FaultKinds
<1>2. FileShape'
  BY DEF IInv, Kept, Crash, FileShape
<1>3. CountedIsLogged'
  BY DEF IInv, Kept, Crash, CountedIsLogged, TypeOK
<1>4. LoggedIsSynced'
  BY <1>1 DEF IInv, Kept, Crash, LoggedIsSynced, FirstWhole
<1>5. RunOrder' /\ BodyIsFile'
  BY DEF IInv, Kept, Crash, RunOrder, BodyIsFile
<1>6. RowMeansReadable' /\ RowHoldsOnTime'
  BY <1>1 DEF IInv, Kept, Crash, RowMeansReadable, RowHoldsOnTime
<1>7. QED
  BY <1>2, <1>3, <1>4, <1>5, <1>6 DEF Kept

LEMMA KeptNext == IInv /\ [Next]_vars => Kept'
<1> SUFFICES ASSUME IInv, [Next]_vars PROVE Kept'
  OBVIOUS
<1> USE DEF disk, writers, handlers, upload, history, read, LetGo
<1>1. CASE SealDay
  BY <1>1 DEF SealDay, IInv, Kept, FileShape, CountedIsLogged, LoggedIsSynced,
              FirstWhole, RunOrder, BodyIsFile, RowMeansReadable, RowHoldsOnTime
<1>2. CASE \E r \in Records : RecordStep(r)
  BY <1>2, KeptRecord
<1>3. CASE \E w \in Records : FlushStep(w) \/ ShortWrite(w) \/ FlushFail(w)
  BY <1>3, KeptFlush
<1>4. CASE RunStep \/ PutDamaged \/ ShipFail \/ RunFail
  BY <1>4, KeptRun
<1>5. CASE Crash
  BY <1>5, KeptCrash
<1>6. CASE UNCHANGED vars
  BY <1>6 DEF vars, IInv, Kept, FileShape, CountedIsLogged, LoggedIsSynced,
              FirstWhole, RunOrder, BodyIsFile, RowMeansReadable, RowHoldsOnTime
<1>7. QED
  BY <1>1, <1>2, <1>3, <1>4, <1>5, <1>6 DEF Next

LEMMA Inductive == Spec => []IInv
<1>1. Init => IInv
  BY TypeInit, KeptInit DEF IInv, Kept
<1>2. IInv /\ [Next]_vars => IInv'
  BY TypeNext, KeptNext DEF IInv, Kept
<1>3. QED
  BY <1>1, <1>2, PTL DEF Spec

-----------------------------------------------------------------------------
(* What follows from the invariant *)

\* Write-ahead: until the file is deleted, whatever is counted is in the part of
\* it that a power failure spares, for any number of records and writers and any
\* faults but a short write (file-writer.ts append, ingest-kernel.ts step 4).
THEOREM WriteAhead == Spec => []CountedIsDurable
<1>1. IInv => CountedIsDurable
  BY CountedInFile DEF CountedIsDurable, FirstWhole
<1>2. QED
  BY <1>1, Inductive, PTL

\* An upload row is written only for an object that was read back as it was sent
\* and decodes to its end, unless its bytes were read inside a write, and no later
\* run overwrites that object (nightly-shipment.service.ts steps 2 to 4).
THEOREM RowsAreReadable == Spec => []RowMeansReadable
<1>1. IInv => RowMeansReadable
  BY DEF IInv, Kept
<1>2. QED
  BY <1>1, Inductive, PTL

\* What was counted while the day was mutable stays in the local file until the
\* object has it (nightly-shipment.service.ts retentionPass).
THEOREM OnTimeIsKept == Spec => []OnTimeSurvives
<1>1. IInv => OnTimeSurvives
  <2> SUFFICES ASSUME IInv, faults["short"] = 0
               PROVE  onTime \subseteq Frames(file) \cup Frames(object)
    BY DEF OnTimeSurvives
  <2>1. onTime \subseteq counted
    BY DEF IInv, Kept, TypeOK
  <2>2. CASE recorded
    BY <2>2 DEF IInv, Kept, RowHoldsOnTime
  <2>3. CASE ~recorded /\ inode = 0
    BY <2>1, <2>3 DEF IInv, Kept, CountedIsLogged, LoggedIsSynced
  <2>4. CASE ~recorded /\ exists /\ inode = 1
    BY <2>1, <2>4, CountedInFile DEF FirstWhole
  <2>5. QED
    BY <2>2, <2>3, <2>4 DEF IInv, Kept, RunOrder
<1>2. QED
  BY <1>1, Inductive, PTL
=============================================================================
