--------------------------- MODULE ClientSdk_proofs ---------------------------
(***************************************************************************)
(* Theorems about the browser SDK.  ClientQueue hands events over as       *)
(* EventHandoff promises, and the server's dedup window absorbs what is    *)
(* sent twice, for every set of events, every storage and every bound on   *)
(* time, kills and failures.  The session tracker ends sessions once and   *)
(* leaves none without a record, but for the cases its properties name.    *)
(***************************************************************************)
EXTENDS ClientQueue, ClientSession, FiniteSetTheorems, WellFoundedInduction, TLAPS

-----------------------------------------------------------------------------
(* The operators on a queue *)

Distinct(q) == \A s, t \in DOMAIN q : q[s].id = q[t].id => s = t

\* Rows leave, and the ids of exactly those rows with them.
LEMMA Removal ==
    ASSUME NEW q, NEW ss, Distinct(q)
    PROVE  /\ DOMAIN Without(q, ss) = DOMAIN q \ ss
           /\ \A s \in DOMAIN q \ ss : Without(q, ss)[s] = q[s]
           /\ Ids(Without(q, ss)) = Ids(q) \ Ids(Restrict(q, ss \cap DOMAIN q))
           /\ Ids(Restrict(q, ss \cap DOMAIN q)) \subseteq Ids(q)
<1>1. /\ DOMAIN Without(q, ss) = DOMAIN q \ ss
      /\ \A s \in DOMAIN q \ ss : Without(q, ss)[s] = q[s]
  BY DEF Without, Restrict
<1>2. /\ DOMAIN Restrict(q, ss \cap DOMAIN q) = ss \cap DOMAIN q
      /\ \A s \in ss \cap DOMAIN q : Restrict(q, ss \cap DOMAIN q)[s] = q[s]
  BY DEF Restrict
<1>3. Ids(Without(q, ss)) = {q[s].id : s \in DOMAIN q \ ss}
  BY <1>1 DEF Ids
<1>4. Ids(Restrict(q, ss \cap DOMAIN q)) = {q[s].id : s \in ss \cap DOMAIN q}
  BY <1>2 DEF Ids
<1>5. \A s \in DOMAIN q \ ss, t \in ss \cap DOMAIN q : q[s].id # q[t].id
  BY DEF Distinct
<1>6. Ids(q) = {q[s].id : s \in DOMAIN q}
  BY DEF Ids
<1>7. {q[s].id : s \in DOMAIN q \ ss} = {q[s].id : s \in DOMAIN q} \ {q[s].id : s \in ss \cap DOMAIN q}
  BY <1>5
<1> QED
  BY <1>1, <1>3, <1>4, <1>6, <1>7

\* A row is added under a number of its own.
LEMMA IdAdded ==
    ASSUME NEW q, NEW n, NEW r, n \notin DOMAIN q
    PROVE  Ids(With(q, n, r)) = Ids(q) \cup {r.id}
  BY DEF With, Ids

\* A bounded set of numbers has a greatest one.
LEMMA Greatest ==
    ASSUME NEW n \in Nat, NEW S, S \subseteq 0 .. n, S # {}
    PROVE  Max(S) \in S /\ \A s \in S : Max(S) >= s
<1> DEFINE T == {n - s : s \in S}
           Below == {p \in Nat \X Nat : p[1] < p[2]}
<1>1. \A s \in S : s \in Nat /\ n - s \in Nat
  OBVIOUS
<1>2. T \subseteq Nat /\ T # {}
  BY <1>1
<1>3. IsWellFoundedOn(Below, Nat)
  BY NatLessThanWellFounded DEF OpToRel
<1> HIDE DEF Below
<1>4. \E x \in T : \A y \in T : ~(<<y, x>> \in Below)
  BY <1>2, <1>3, WFMin
<1>5. PICK x \in T : \A y \in T : ~(<<y, x>> \in Below)
  BY <1>4
<1>6. \A y \in T : ~(y < x)
  <2> TAKE y \in T
  <2>1. y \in Nat /\ x \in Nat
    BY <1>2
  <2>2. <<y, x>> \in Below <=> y < x
    BY <2>1 DEF Below
  <2> QED
    BY <1>5, <2>2
<1>7. PICK m \in S : x = n - m
  BY <1>5
<1>8. \A s \in S : n - s \in T
  OBVIOUS
<1>9. \A s \in S : m >= s
  BY <1>1, <1>6, <1>7, <1>8
<1> QED
  BY <1>9 DEF Max

\* The number an adapter starts from is above every row that survived.
LEMMA RecoveredIsAbove ==
    ASSUME NEW q, NEW n \in Nat, DOMAIN q \subseteq 1 .. n
    PROVE  RecoveredSeq(q) \in Nat \ {0} /\ DOMAIN q \subseteq 1 .. RecoveredSeq(q) - 1
<1> DEFINE S == DOMAIN q \cup {0}
<1>1. S \subseteq 0 .. n /\ S # {}
  OBVIOUS
<1>2. Max(S) \in S /\ \A s \in S : Max(S) >= s
  BY <1>1, Greatest
<1> QED
  BY <1>1, <1>2 DEF RecoveredSeq
-----------------------------------------------------------------------------
(* Type correctness *)

\* Part of a queue, and a queue with a row more, hold rows.
LEMMA PartOfQueue ==
    ASSUME NEW q, q \in [DOMAIN q -> Rows], NEW ss, ss \subseteq DOMAIN q
    PROVE  /\ Restrict(q, ss) \in [ss -> Rows] /\ DOMAIN Restrict(q, ss) = ss
           /\ Ids(q) \subseteq Events /\ Ids(Restrict(q, ss)) \subseteq Events
  BY DEF Restrict, Ids, Rows

LEMMA OldestRows ==
    ASSUME NEW q, NEW n
    PROVE  Oldest(q, n) \subseteq DOMAIN q
  BY DEF Oldest

LEMMA WithoutType ==
    ASSUME NEW q, NEW m, q \in [DOMAIN q -> Rows], DOMAIN q \subseteq 1 .. m, NEW ss
    PROVE  /\ Without(q, ss) \in [DOMAIN Without(q, ss) -> Rows]
           /\ DOMAIN Without(q, ss) = DOMAIN q \ ss
           /\ DOMAIN Without(q, ss) \subseteq 1 .. m
<1>1. Without(q, ss) = Restrict(q, DOMAIN q \ ss)
  BY DEF Without
<1> QED
  BY <1>1, PartOfQueue

LEMMA WithType ==
    ASSUME NEW q, NEW m \in Nat, q \in [DOMAIN q -> Rows], DOMAIN q \subseteq 1 .. m - 1,
           m >= 1, NEW r \in Rows
    PROVE  /\ With(q, m, r) \in [DOMAIN With(q, m, r) -> Rows]
           /\ DOMAIN With(q, m, r) \subseteq 1 .. m
  BY DEF With

LEMMA EmptyType == DOMAIN Empty = {} /\ Empty \in [DOMAIN Empty -> Rows] /\ Ids(Empty) = {}
  BY DEF Empty, Ids

LEMMA CountsType ==
    ASSUME TypeOK, NEW ids \in SUBSET Events, Counts(ids)
    PROVE  /\ first' \in [DOMAIN first' -> 0 .. MaxTime] /\ DOMAIN first' = DOMAIN first \cup ids
           /\ DOMAIN first' \subseteq Events /\ counted' \in [Events -> Nat]
  BY DEF Counts, TypeOK

\* A row that is being pushed is there.
RowAtHand == \A e \in Events : pc[e] \in {"peek", "evict", "put"} => row[e] \in Rows

Requests == [ids : SUBSET Events, answer : {"none", "ok", "retry", "auth", "bad"}]

\* A flush that waits has a request.
RequestAtHand == fpc = "wait" => req \in Requests

Typed == TypeOK /\ nextSeq >= 1 /\ RowAtHand /\ RequestAtHand

LEMMA TypeInit == Init => Typed
<1> SUFFICES ASSUME Init PROVE Typed
  OBVIOUS
<1>1. /\ queue \in [DOMAIN queue -> Rows] /\ DOMAIN queue \subseteq 1 .. nextSeq - 1
      /\ batch \in [DOMAIN batch -> Rows]
      /\ first \in [DOMAIN first -> 0 .. MaxTime] /\ DOMAIN first \subseteq Events
  BY EmptyType DEF Init, Empty
<1>2. /\ pc \in [Events -> {"idle", "peek", "evict", "put", "done"}]
      /\ row \in [Events -> Rows \cup {None}]
      /\ over \in [Events -> Nat] /\ victims \in [Events -> SUBSET Nat]
      /\ counted \in [Events -> Nat] /\ RowAtHand /\ RequestAtHand
  BY DEF Init, RowAtHand, RequestAtHand
<1>3. up \in BOOLEAN /\ paused \in BOOLEAN /\ backend \in Backends
  BY DEF Init
<1>4. nextSeq = 1 /\ fpc = "off" /\ req = None /\ stray = {}
  BY DEF Init
<1>5. now \in 0 .. MaxTime
  BY ConstantsAssumption DEF Init
<1> QED
  BY <1>1, <1>2, <1>3, <1>4, <1>5 DEF Typed, TypeOK

LEMMA TypePush ==
    ASSUME Typed, NEW e \in Events,
           \/ BeginPush(e) \/ PushPeek(e) \/ PushEvict(e) \/ PushPut(e)
           \/ PushFails(e) \/ PushAtOnce(e)
    PROVE  Typed'
<1> USE ConstantsAssumption DEF Typed, TypeOK, RowAtHand, RequestAtHand, Requests, storage, pushers, flusher, server, history
<1>0. IsFiniteSet(DOMAIN queue) /\ Cardinality(DOMAIN queue) \in Nat
  <2>0. 1 \in Int /\ nextSeq - 1 \in Int
    OBVIOUS
  <2>1. IsFiniteSet(1 .. nextSeq - 1)
    BY <2>0, FS_Interval
  <2> QED
    BY <2>1, FS_Subset, FS_CardinalityType
<1>1. CASE BeginPush(e)
  <2> DEFINE k == Cardinality(DOMAIN queue) + 1 - Cap
  <2>1. k \in Int
    BY <1>0
  <2>2. Max({0, k}) \in Nat
    BY <2>1, SMTT(30) DEF Max
  <2>3. [id |-> e, at |-> now] \in Rows
    BY DEF Rows
  <2> QED
    BY <1>1, <2>2, <2>3 DEF BeginPush
<1>2. CASE PushPeek(e)
  <2>1. Oldest(queue, over[e]) \in SUBSET Nat
    BY OldestRows
  <2> QED
    BY <1>2, <2>1 DEF PushPeek
<1>3. CASE PushEvict(e)
  <2>1. /\ queue' \in [DOMAIN queue' -> Rows]
        /\ DOMAIN queue' \subseteq 1 .. nextSeq - 1
    BY <1>3, WithoutType DEF PushEvict
  <2> QED
    BY <1>3, <2>1 DEF PushEvict
<1>4. CASE PushPut(e)
  <2>1. /\ queue' \in [DOMAIN queue' -> Rows]
        /\ DOMAIN queue' \subseteq 1 .. nextSeq
    BY <1>4, WithType DEF PushPut
  <2> QED
    BY <1>4, <2>1 DEF PushPut
<1>5. CASE PushFails(e)
  <2>1. /\ queue' \in [DOMAIN queue' -> Rows]
        /\ DOMAIN queue' \subseteq 1 .. nextSeq - 1
    BY <1>5, WithoutType DEF PushFails
  <2> QED
    BY <1>5, <2>1 DEF PushFails
<1>6. CASE PushAtOnce(e)
  <2>1. PICK full : queue' = LET room == Without(queue, Oldest(queue, Cardinality(DOMAIN queue) + 1 - Cap))
                                 all == With(room, nextSeq, [id |-> e, at |-> now])
                             IN  Without(all, Oldest(all, full))
    BY <1>6 DEF PushAtOnce
  <2> DEFINE room == Without(queue, Oldest(queue, Cardinality(DOMAIN queue) + 1 - Cap))
             all == With(room, nextSeq, [id |-> e, at |-> now])
  <2>2. /\ room \in [DOMAIN room -> Rows]
        /\ DOMAIN room \subseteq 1 .. nextSeq - 1
    BY WithoutType
  <2> HIDE DEF room
  <2>3. [id |-> e, at |-> now] \in Rows
    BY DEF Rows
  <2>4. all \in [DOMAIN all -> Rows] /\ DOMAIN all \subseteq 1 .. nextSeq
    BY <2>2, <2>3, WithType
  <2> HIDE DEF all
  <2>5. queue' = Without(all, Oldest(all, full))
    BY <2>1 DEF room, all
  <2>6. queue' \in [DOMAIN queue' -> Rows] /\ DOMAIN queue' \subseteq 1 .. nextSeq
    BY <2>4, <2>5, WithoutType
  <2>7. failures' \in {failures, failures + 1} /\ nextSeq' = nextSeq + 1
    BY <1>6 DEF PushAtOnce
  <2> QED
    BY <1>6, <2>6, <2>7 DEF PushAtOnce
<1> QED
  BY <1>1, <1>2, <1>3, <1>4, <1>5, <1>6

LEMMA TypeFlush ==
    ASSUME Typed, FlushPeek \/ FlushSend \/ FlushAnswer \/ FlushLost \/ Unload
    PROVE  Typed'
<1> USE DEF Typed, TypeOK, RowAtHand, RequestAtHand, Requests, storage, pushers, flusher, server, history
<1>1. CASE FlushPeek
  <2> DEFINE rows == Restrict(queue, Oldest(queue, 4 * BatchMax))
             old == {s \in DOMAIN rows : Expired(rows[s])}
  <2>1. rows \in [DOMAIN rows -> Rows] /\ DOMAIN rows \subseteq 1 .. nextSeq - 1
    BY PartOfQueue, OldestRows
  <2>2. queue' = Without(queue, old) /\ batch' = Without(rows, old) /\ fpc' \in {"off", "loop", "send"}
    BY <1>1 DEF FlushPeek
  <2> HIDE DEF rows, old
  <2>3. queue' \in [DOMAIN queue' -> Rows] /\ DOMAIN queue' \subseteq 1 .. nextSeq - 1
    BY <2>2, WithoutType
  <2>4. batch' \in [DOMAIN batch' -> Rows]
    BY <2>1, <2>2, WithoutType
  <2> QED
    BY <1>1, <2>2, <2>3, <2>4 DEF FlushPeek
<1>2. CASE FlushSend
  <2>1. PICK n : batch' = Restrict(batch, Oldest(batch, n))
    BY <1>2 DEF FlushSend
  <2>2. batch' \in [DOMAIN batch' -> Rows]
    BY <2>1, PartOfQueue, OldestRows
  <2>3. Ids(batch') \subseteq Events
    BY <2>2, PartOfQueue
  <2>4. req' \in Requests
    BY <1>2, <2>3 DEF FlushSend
  <2> QED
    BY <1>2, <2>2, <2>4 DEF FlushSend
<1>3. CASE FlushAnswer
  <2>1. \E ss : queue' = Without(queue, ss) \/ queue' = queue
    BY <1>3 DEF FlushAnswer
  <2>2. queue' \in [DOMAIN queue' -> Rows] /\ DOMAIN queue' \subseteq 1 .. nextSeq - 1
    <3>1. CASE queue' = queue
      BY <3>1
    <3>2. ASSUME NEW ss, queue' = Without(queue, ss)
          PROVE  queue' \in [DOMAIN queue' -> Rows] /\ DOMAIN queue' \subseteq 1 .. nextSeq - 1
      BY <3>2, WithoutType
    <3> QED
      BY <2>1, <3>1, <3>2
  <2>3. fpc' \in {"loop", "off"} /\ paused' \in BOOLEAN /\ batch' = Empty /\ req' = None
    BY <1>3 DEF FlushAnswer
  <2> QED
    BY <1>3, <2>2, <2>3, EmptyType DEF FlushAnswer
<1>4. CASE FlushLost
  <2>1. stray' \subseteq SUBSET Events
    BY <1>4 DEF FlushLost
  <2> QED
    BY <1>4, <2>1, EmptyType DEF FlushLost
<1>5. CASE Unload
  <2>1. PICK n : stray' = stray \cup
           {Ids([s \in Oldest(queue, 8 * BatchMax) \ Oldest(queue, n) |-> queue[s]])}
    BY <1>5 DEF Unload
  <2> DEFINE tail == [s \in Oldest(queue, 8 * BatchMax) \ Oldest(queue, n) |-> queue[s]]
  <2>2. Ids(tail) \subseteq Events
    BY OldestRows DEF Ids, Rows
  <2>3. stray' \subseteq SUBSET Events
    BY <2>1, <2>2, ZenonT(60)
  <2> QED
    BY <1>5, <2>3 DEF Unload
<1> QED
  BY <1>1, <1>2, <1>3, <1>4, <1>5

LEMMA TypeRest ==
    ASSUME Typed, Serve \/ Refuse \/ StrayArrives \/ Tick \/ Kill \/ Start
    PROVE  Typed'
<1> USE ConstantsAssumption DEF Typed, TypeOK, RowAtHand, RequestAtHand, Requests, storage, pushers, flusher, server, history
<1>1. CASE Serve
  <2>1. req.ids \subseteq Events
    BY <1>1 DEF Serve
  <2>2. /\ first' \in [DOMAIN first' -> 0 .. MaxTime] /\ DOMAIN first' \subseteq Events
        /\ counted' \in [Events -> Nat]
    BY <1>1, <2>1, CountsType DEF Serve
  <2>3. req' \in Requests
    BY <1>1 DEF Serve
  <2> QED
    BY <1>1, <2>2, <2>3 DEF Serve
<1>2. CASE Refuse
  <2>3. req' \in Requests
    BY <1>2 DEF Refuse
  <2> QED
    BY <1>2, <2>3 DEF Refuse
<1>3. CASE StrayArrives
  <2>1. PICK ids \in stray : stray' = stray \ {ids} /\ (Counts(ids) \/ UNCHANGED server)
    BY <1>3 DEF StrayArrives
  <2>2. /\ first' \in [DOMAIN first' -> 0 .. MaxTime] /\ DOMAIN first' \subseteq Events
        /\ counted' \in [Events -> Nat]
    BY <2>1, CountsType
  <2> QED
    BY <1>3, <2>1, <2>2 DEF StrayArrives
<1>4. CASE Tick
  BY <1>4 DEF Tick
<1>5. CASE Kill
  <2>1. queue' \in [DOMAIN queue' -> Rows] /\ DOMAIN queue' \subseteq 1 .. nextSeq - 1
    BY <1>5, EmptyType DEF Kill
  <2>2. stray' \subseteq SUBSET Events
    BY <1>5 DEF Kill
  <2>3. /\ pc' \in [Events -> {"idle", "done"}] /\ row' \in [Events -> {None}]
        /\ over' \in [Events -> Nat] /\ victims' \in [Events -> SUBSET Nat]
    BY <1>5 DEF Kill
  <2> QED
    BY <1>5, <2>1, <2>2, <2>3, EmptyType DEF Kill
<1>6. CASE Start
  <2>1. RecoveredSeq(queue) \in Nat \ {0} /\ DOMAIN queue \subseteq 1 .. RecoveredSeq(queue) - 1
    BY RecoveredIsAbove
  <2> QED
    BY <1>6, <2>1, EmptyType DEF Start
<1> QED
  BY <1>1, <1>2, <1>3, <1>4, <1>5, <1>6
LEMMA TypeNext == Typed /\ [Next]_vars => Typed'
<1> SUFFICES ASSUME Typed, [Next]_vars PROVE Typed'
  OBVIOUS
<1>1. CASE UNCHANGED vars
  BY <1>1 DEF vars, storage, pushers, flusher, server, history, Typed, TypeOK, RowAtHand, RequestAtHand
<1> QED
  BY <1>1, TypePush, TypeFlush, TypeRest DEF Next, FlushStep

\* Every variable of the SDK's queue, of its transport and of the server's dedup
\* window keeps its type.
THEOREM TypeCorrect == Spec => []TypeOK
<1>1. Typed => TypeOK
  BY DEF Typed
<1> QED
  BY <1>1, TypeInit, TypeNext, PTL DEF Spec
-----------------------------------------------------------------------------
(* The hand-off                                                            *)

Known == Ids(queue) \cup DOMAIN first \cup dropped

\* An event whose enqueue is not done is nowhere yet, and its row is its own.
Unborn ==
    \A e \in Events :
        /\ pc[e] # "done" => e \notin Known
        /\ pc[e] \in {"peek", "evict", "put"} => row[e].id = e

\* What the flush has in hand are rows of the queue as they are there, unless
\* they left it: no row that was put later has the number of one of them.
BatchIsQueue ==
    /\ fpc \notin {"send", "wait"} => DOMAIN batch = {}
    /\ DOMAIN batch \subseteq 1 .. nextSeq - 1
    /\ \A s \in DOMAIN batch \cap DOMAIN queue : batch[s] = queue[s]
    /\ Ids(batch) \subseteq Known

\* A request carries the batch, or what was once in the queue; a yes says that the
\* server took it.
RequestIsBatch ==
    /\ ~up => fpc = "off"
    /\ req # None => fpc = "wait"
    /\ fpc = "wait" => req.ids = Ids(batch) /\ (req.answer = "ok" => req.ids \subseteq DOMAIN first)
    /\ \A ids \in stray : ids \subseteq Known

HandInv ==
    Typed /\ dropped \subseteq Events /\ Distinct(queue) /\ Unborn /\ BatchIsQueue /\ RequestIsBatch

LEMMA HandInit == Init => HandInv /\ Handoff!Init
<1> SUFFICES ASSUME Init PROVE HandInv /\ Handoff!Init
  OBVIOUS
<1>1. Typed
  BY TypeInit
<1>2. DOMAIN queue = {} /\ DOMAIN batch = {} /\ DOMAIN first = {} /\ Ids(queue) = {} /\ Ids(batch) = {}
  BY EmptyType DEF Init
<1>3. /\ dropped = {} /\ stray = {} /\ fpc = "off" /\ up = TRUE /\ req = None
      /\ \A e \in Events : pc[e] = "idle"
  BY DEF Init
<1>4. Distinct(queue) /\ Unborn /\ BatchIsQueue /\ RequestIsBatch
  BY <1>2, <1>3 DEF Distinct, Unborn, Known, BatchIsQueue, RequestIsBatch
<1>5. Handoff!Init
  BY <1>2, <1>3 DEF Handoff!Init
<1> QED
  BY <1>1, <1>3, <1>4, <1>5 DEF HandInv

\* Rows leave the queue into what was given up, or because the server has them.
LEMMA RowsLeave ==
    ASSUME HandInv, NEW ss, queue' = Without(queue, ss), first' = first,
           dropped \subseteq dropped',
           Ids(Restrict(queue, ss \cap DOMAIN queue)) \subseteq dropped' \cup DOMAIN first
    PROVE  /\ Distinct(queue') /\ Known \subseteq Known'
           /\ Ids(queue') = Ids(queue) \ Ids(Restrict(queue, ss \cap DOMAIN queue))
           /\ Ids(Restrict(queue, ss \cap DOMAIN queue)) \subseteq Ids(queue)
           /\ DOMAIN queue' \subseteq DOMAIN queue
           /\ \A s \in DOMAIN queue' : queue'[s] = queue[s]
<1>1. /\ DOMAIN queue' = DOMAIN queue \ ss
      /\ \A s \in DOMAIN queue \ ss : queue'[s] = queue[s]
      /\ Ids(queue') = Ids(queue) \ Ids(Restrict(queue, ss \cap DOMAIN queue))
      /\ Ids(Restrict(queue, ss \cap DOMAIN queue)) \subseteq Ids(queue)
  BY Removal DEF HandInv
<1>2. Distinct(queue')
  BY <1>1 DEF HandInv, Distinct
<1>3. Known' = Ids(queue') \cup DOMAIN first' \cup dropped'
  BY DEF Known
<1>4. Known \subseteq Known'
  BY <1>1, <1>3 DEF Known
<1> QED
  BY <1>1, <1>2, <1>4

LEMMA EvictKeeps ==
    ASSUME HandInv, Typed', NEW e \in Events, PushEvict(e)
    PROVE  HandInv' /\ Handoff!Next
<1> DEFINE gone == Ids(Restrict(queue, victims[e] \cap DOMAIN queue))
<1>1. /\ queue' = Without(queue, victims[e]) /\ first' = first /\ dropped' = dropped \cup gone
      /\ UNCHANGED <<up, nextSeq, row, fpc, batch, req, stray>>
      /\ pc' = [pc EXCEPT ![e] = "put"] /\ pc[e] = "evict"
  BY DEF PushEvict, flusher, server
<1>2. /\ Distinct(queue') /\ Known \subseteq Known' /\ Ids(queue') = Ids(queue) \ gone
      /\ gone \subseteq Ids(queue) /\ DOMAIN queue' \subseteq DOMAIN queue
      /\ \A s \in DOMAIN queue' : queue'[s] = queue[s]
  BY <1>1, RowsLeave
<1> HIDE DEF gone
<1>3. gone \subseteq Events
  BY <1>2, PartOfQueue, ZenonT(60) DEF HandInv, Typed, TypeOK
<1>4. Known' = Known
  BY <1>1, <1>2 DEF Known
<1>5. Unborn'
  BY <1>1, <1>4 DEF HandInv, Unborn, Typed, TypeOK
<1>6. BatchIsQueue' /\ RequestIsBatch'
  BY <1>1, <1>2, <1>4 DEF HandInv, BatchIsQueue, RequestIsBatch, Ids
<1>7. Handoff!GiveUp(gone)
  BY <1>1, <1>2 DEF Handoff!GiveUp
<1> QED
  BY <1>1, <1>2, <1>3, <1>5, <1>6, <1>7 DEF HandInv, Handoff!Next
\* A step that leaves queue, server and what was given up alone is not seen.
LEMMA Unseen ==
    ASSUME queue' = queue, first' = first, dropped' = dropped
    PROVE  Ids(queue') = Ids(queue) /\ Known' = Known /\ UNCHANGED Handoff!vars
  BY DEF Known, Handoff!vars, Ids

LEMMA BeginKeeps ==
    ASSUME HandInv, Typed', NEW e \in Events, BeginPush(e) \/ PushPeek(e)
    PROVE  HandInv' /\ UNCHANGED Handoff!vars
<1>1. /\ queue' = queue /\ first' = first /\ dropped' = dropped
      /\ UNCHANGED <<up, nextSeq, fpc, batch, req, stray>>
  BY DEF BeginPush, PushPeek, storage, flusher, server, history
<1>2. Known' = Known /\ UNCHANGED Handoff!vars
  BY <1>1, Unseen
<1>3. Unborn'
  <2>1. CASE BeginPush(e)
    <3>1. /\ pc[e] = "idle" /\ row' = [row EXCEPT ![e] = [id |-> e, at |-> now]]
          /\ \E p : pc' = [pc EXCEPT ![e] = p]
      BY <2>1 DEF BeginPush
    <3> QED
      BY <1>2, <3>1 DEF HandInv, Unborn, Typed, TypeOK
  <2>2. CASE PushPeek(e)
    BY <1>2, <2>2 DEF PushPeek, HandInv, Unborn, Typed, TypeOK
  <2> QED
    BY <2>1, <2>2
<1>4. BatchIsQueue' /\ RequestIsBatch'
  BY <1>1, <1>2 DEF HandInv, BatchIsQueue, RequestIsBatch, Ids
<1> QED
  BY <1>1, <1>2, <1>3, <1>4 DEF HandInv, Distinct

LEMMA PutKeeps ==
    ASSUME HandInv, Typed', NEW e \in Events, PushPut(e)
    PROVE  HandInv' /\ Handoff!Next
<1>1. /\ queue' = With(queue, nextSeq, row[e]) /\ first' = first /\ dropped' = dropped
      /\ nextSeq' = nextSeq + 1
      /\ UNCHANGED <<up, fpc, batch, req, stray>>
      /\ pc' = [pc EXCEPT ![e] = "done"] /\ pc[e] = "put" /\ row' = [row EXCEPT ![e] = None]
  BY DEF PushPut, flusher, server, history
<1>2. nextSeq \notin DOMAIN queue /\ nextSeq \notin DOMAIN batch /\ nextSeq \in Nat
  BY DEF HandInv, Typed, TypeOK, BatchIsQueue
<1>3. row[e].id = e /\ e \notin Known
  BY <1>1 DEF HandInv, Unborn
<1>4. /\ DOMAIN queue' = DOMAIN queue \cup {nextSeq}
      /\ queue'[nextSeq].id = e
      /\ \A s \in DOMAIN queue : queue'[s] = queue[s]
      /\ Ids(queue') = Ids(queue) \cup {e}
  <2> DEFINE all == With(queue, nextSeq, row[e])
  <2>1. /\ DOMAIN all = DOMAIN queue \cup {nextSeq} /\ all[nextSeq] = row[e]
        /\ \A s \in DOMAIN queue : s # nextSeq => all[s] = queue[s]
    BY DEF With
  <2>2. Ids(all) = Ids(queue) \cup {row[e].id}
    BY <1>2, IdAdded
  <2>3. queue' = all
    BY <1>1
  <2> HIDE DEF all
  <2> QED
    BY <1>2, <1>3, <2>1, <2>2, <2>3
<1>5. Distinct(queue')
  BY <1>3, <1>4 DEF HandInv, Distinct, Known, Ids
<1>6. Known' = Known \cup {e}
  BY <1>1, <1>4 DEF Known
<1>7. Unborn'
  BY <1>1, <1>6 DEF HandInv, Unborn, Typed, TypeOK
<1>8. BatchIsQueue'
  <2>1. \A s \in DOMAIN batch \cap DOMAIN queue' : batch[s] = queue'[s]
    BY <1>2, <1>4 DEF HandInv, BatchIsQueue
  <2>2. DOMAIN batch \subseteq 1 .. nextSeq' - 1
    BY <1>1, <1>2 DEF HandInv, BatchIsQueue
  <2> QED
    BY <1>1, <1>6, <2>1, <2>2 DEF HandInv, BatchIsQueue, Ids
<1>9. RequestIsBatch'
  BY <1>1, <1>6 DEF HandInv, RequestIsBatch, Ids
<1>10. Handoff!Accept(e, {})
  BY <1>1, <1>3, <1>4 DEF Handoff!Accept, Known
<1> QED
  BY <1>1, <1>5, <1>7, <1>8, <1>9, <1>10 DEF HandInv, Handoff!Next

LEMMA FailKeeps ==
    ASSUME HandInv, Typed', NEW e \in Events, PushFails(e)
    PROVE  HandInv' /\ Handoff!Next
<1> DEFINE out == Oldest(queue, 1)
           gone == Ids(Restrict(queue, out \cap DOMAIN queue))
<1>0. out \cap DOMAIN queue = out
  BY OldestRows
<1>1. /\ queue' = Without(queue, out) /\ first' = first /\ dropped' = dropped \cup {e} \cup gone
      /\ nextSeq' = nextSeq + 1
      /\ UNCHANGED <<up, fpc, batch, req, stray>>
      /\ pc' = [pc EXCEPT ![e] = "done"] /\ pc[e] = "put" /\ row' = [row EXCEPT ![e] = None]
  BY <1>0 DEF PushFails, flusher, server
<1> HIDE DEF out
<1>2. /\ Distinct(queue') /\ Known \subseteq Known' /\ Ids(queue') = Ids(queue) \ gone
      /\ gone \subseteq Ids(queue) /\ DOMAIN queue' \subseteq DOMAIN queue
      /\ \A s \in DOMAIN queue' : queue'[s] = queue[s]
  BY <1>1, RowsLeave
<1> HIDE DEF gone
<1>3. gone \subseteq Events /\ nextSeq \in Nat
  BY <1>2, PartOfQueue, ZenonT(60) DEF HandInv, Typed, TypeOK
<1>4. Known' = Known \cup {e} /\ e \notin Known
  BY <1>1, <1>2 DEF HandInv, Known, Unborn
<1>5. Unborn'
  BY <1>1, <1>4 DEF HandInv, Unborn, Typed, TypeOK
<1>6. BatchIsQueue'
  <2>1. DOMAIN batch \subseteq 1 .. nextSeq' - 1
    BY <1>1, <1>3 DEF HandInv, BatchIsQueue
  <2> QED
    BY <1>1, <1>2, <1>4, <2>1 DEF HandInv, BatchIsQueue, Ids
<1>7. RequestIsBatch'
  BY <1>1, <1>4 DEF HandInv, RequestIsBatch, Ids
<1>8. Handoff!GiveUp({e} \cup gone)
  BY <1>1, <1>2, <1>4 DEF Handoff!GiveUp, Known
<1> QED
  BY <1>1, <1>2, <1>3, <1>5, <1>6, <1>7, <1>8 DEF HandInv, Handoff!Next

LEMMA AtOnceKeeps ==
    ASSUME HandInv, Typed', NEW e \in Events, PushAtOnce(e)
    PROVE  HandInv' /\ Handoff!Next
<1> DEFINE room == Without(queue, Oldest(queue, Cardinality(DOMAIN queue) + 1 - Cap))
           all == With(room, nextSeq, [id |-> e, at |-> now])
           gone == Ids(queue) \ Ids(queue')
<1>1. /\ \E ss : queue' = Without(all, ss)
      /\ first' = first /\ dropped' = dropped \cup ((Ids(queue) \cup {e}) \ Ids(queue'))
      /\ nextSeq' = nextSeq + 1
      /\ UNCHANGED <<up, fpc, batch, req, stray, row>>
      /\ pc' = [pc EXCEPT ![e] = "done"] /\ pc[e] = "idle"
  BY DEF PushAtOnce, flusher, server
<1>2. /\ nextSeq \notin DOMAIN queue /\ nextSeq \notin DOMAIN batch /\ nextSeq \in Nat
      /\ e \notin Known /\ Ids(queue) \subseteq Known
  BY <1>1 DEF HandInv, Typed, TypeOK, BatchIsQueue, Unborn, Known
<1>3. /\ DOMAIN room \subseteq DOMAIN queue /\ \A s \in DOMAIN room : room[s] = queue[s]
      /\ Ids(room) \subseteq Ids(queue)
  <2> DEFINE ss == Oldest(queue, Cardinality(DOMAIN queue) + 1 - Cap)
  <2>1. Distinct(queue)
    BY DEF HandInv
  <2>2. /\ DOMAIN Without(queue, ss) = DOMAIN queue \ ss
        /\ \A s \in DOMAIN queue \ ss : Without(queue, ss)[s] = queue[s]
        /\ Ids(Without(queue, ss)) = Ids(queue) \ Ids(Restrict(queue, ss \cap DOMAIN queue))
    BY <2>1, Removal
  <2> QED
    BY <2>2
<1> HIDE DEF room
<1>4. /\ DOMAIN all = DOMAIN room \cup {nextSeq} /\ all[nextSeq].id = e
      /\ \A s \in DOMAIN room : all[s] = room[s]
      /\ Ids(all) = Ids(room) \cup {e}
  <2> DEFINE r == [id |-> e, at |-> now]
  <2>1. nextSeq \notin DOMAIN room /\ r.id = e
    BY <1>2, <1>3
  <2> HIDE DEF r
  <2>2. /\ DOMAIN With(room, nextSeq, r) = DOMAIN room \cup {nextSeq}
        /\ With(room, nextSeq, r)[nextSeq] = r
        /\ \A s \in DOMAIN room : s # nextSeq => With(room, nextSeq, r)[s] = room[s]
    BY DEF With
  <2>3. Ids(With(room, nextSeq, r)) = Ids(room) \cup {r.id}
    BY <2>1, IdAdded
  <2>4. all = With(room, nextSeq, r)
    BY DEF r
  <2> HIDE DEF all
  <2> QED
    BY <2>1, <2>2, <2>3, <2>4
<1>5. Distinct(all)
  BY <1>2, <1>3, <1>4 DEF HandInv, Distinct, Known, Ids
<1> HIDE DEF all
<1>6. /\ DOMAIN queue' \subseteq DOMAIN all /\ \A s \in DOMAIN queue' : queue'[s] = all[s]
      /\ Ids(queue') \subseteq Ids(all)
  <2>1. PICK ss : queue' = Without(all, ss)
    BY <1>1
  <2>2. /\ DOMAIN Without(all, ss) = DOMAIN all \ ss
        /\ \A s \in DOMAIN all \ ss : Without(all, ss)[s] = all[s]
        /\ Ids(Without(all, ss)) = Ids(all) \ Ids(Restrict(all, ss \cap DOMAIN all))
    BY <1>5, Removal
  <2> QED
    BY <2>1, <2>2
<1>7. Distinct(queue')
  BY <1>5, <1>6 DEF Distinct
<1>8. Known' = Known \cup {e}
  BY <1>1, <1>3, <1>4, <1>6 DEF Known
<1>9. Unborn'
  BY <1>1, <1>8 DEF HandInv, Unborn, Typed, TypeOK
<1>10. BatchIsQueue'
  <2>1. \A s \in DOMAIN batch \cap DOMAIN queue' : batch[s] = queue'[s]
    BY <1>2, <1>3, <1>4, <1>6 DEF HandInv, BatchIsQueue
  <2>2. DOMAIN batch \subseteq 1 .. nextSeq' - 1
    BY <1>1, <1>2 DEF HandInv, BatchIsQueue
  <2> QED
    BY <1>1, <1>8, <2>1, <2>2 DEF HandInv, BatchIsQueue, Ids
<1>11. RequestIsBatch'
  BY <1>1, <1>8 DEF HandInv, RequestIsBatch, Ids
<1>12. gone \subseteq Events /\ dropped' \subseteq Events
  BY <1>1, PartOfQueue, ZenonT(60) DEF HandInv, Typed, TypeOK
<1>13. CASE e \in Ids(queue')
  <2>1. Handoff!Accept(e, gone)
    BY <1>1, <1>2, <1>3, <1>4, <1>6, <1>13 DEF Handoff!Accept, Known
  <2> QED
    BY <1>7, <1>9, <1>10, <1>11, <1>12, <2>1 DEF HandInv, Handoff!Next
<1>14. CASE e \notin Ids(queue')
  <2>1. Handoff!GiveUp({e} \cup gone)
    BY <1>1, <1>2, <1>3, <1>4, <1>6, <1>14 DEF Handoff!GiveUp, Known
  <2> QED
    BY <1>7, <1>9, <1>10, <1>11, <1>12, <2>1 DEF HandInv, Handoff!Next
<1> QED
  BY <1>13, <1>14
\* Rows past their age leave for good; the others are in hand as they are.
LEMMA PeekKeeps ==
    ASSUME HandInv, Typed', FlushPeek
    PROVE  HandInv' /\ Handoff!Next
<1> DEFINE rows == Restrict(queue, Oldest(queue, 4 * BatchMax))
           old == {s \in DOMAIN rows : Expired(rows[s])}
           gone == Ids(Restrict(queue, old \cap DOMAIN queue))
<1>1. /\ queue' = Without(queue, old) /\ first' = first /\ batch' = Without(rows, old)
      /\ dropped' = dropped \cup Ids(Restrict(rows, old))
      /\ fpc' \in {"off", "loop", "send"} /\ (fpc' # "send" => DOMAIN rows = {} \/ DOMAIN rows = old)
      /\ fpc \in {"off", "loop"} /\ up
      /\ UNCHANGED <<up, nextSeq, pc, row, req, stray>>
  BY DEF FlushPeek, pushers, server
<1>2. /\ DOMAIN rows \subseteq DOMAIN queue /\ \A s \in DOMAIN rows : rows[s] = queue[s]
      /\ old \subseteq DOMAIN rows
  BY OldestRows DEF Restrict
<1>3. Restrict(rows, old) = Restrict(queue, old \cap DOMAIN queue)
  <2> HIDE DEF rows, old
  <2> QED
    BY <1>2 DEF Restrict
<1>4. DOMAIN batch' = DOMAIN rows \ old /\ \A s \in DOMAIN batch' : batch'[s] = queue[s]
  <2> HIDE DEF rows, old
  <2> QED
    BY <1>1, <1>2 DEF Without, Restrict
<1> HIDE DEF old, rows
<1>5. /\ Distinct(queue') /\ Known \subseteq Known' /\ Ids(queue') = Ids(queue) \ gone
      /\ gone \subseteq Ids(queue) /\ DOMAIN queue' = DOMAIN queue \ old
      /\ \A s \in DOMAIN queue' : queue'[s] = queue[s]
  <2>1. DOMAIN queue' = DOMAIN queue \ old
    BY <1>1 DEF Without, Restrict
  <2> QED
    BY <1>1, <1>3, <2>1, RowsLeave
<1>6. dropped' = dropped \cup gone
  BY <1>1, <1>3
<1> HIDE DEF gone
<1>7. gone \subseteq Events
  BY <1>5, PartOfQueue, ZenonT(60) DEF HandInv, Typed, TypeOK
<1>8. Known' = Known
  BY <1>1, <1>5, <1>6 DEF Known
<1>9. Unborn'
  BY <1>1, <1>8 DEF HandInv, Unborn
<1>10. BatchIsQueue'
  <2>1. fpc' \notin {"send", "wait"} => DOMAIN batch' = {}
    BY <1>1, <1>4
  <2>2. DOMAIN batch' \subseteq 1 .. nextSeq' - 1
    BY <1>1, <1>2, <1>4 DEF HandInv, Typed, TypeOK
  <2>3. Ids(batch') \subseteq Ids(queue)
    BY <1>2, <1>4 DEF Ids
  <2> QED
    BY <1>4, <1>5, <1>8, <2>1, <2>2, <2>3 DEF BatchIsQueue, Known
<1>11. RequestIsBatch'
  BY <1>1, <1>8 DEF HandInv, RequestIsBatch
<1>12. Handoff!GiveUp(gone)
  BY <1>1, <1>5, <1>6 DEF Handoff!GiveUp
<1> QED
  BY <1>1, <1>5, <1>6, <1>7, <1>9, <1>10, <1>11, <1>12 DEF HandInv, Handoff!Next

LEMMA SendKeeps ==
    ASSUME HandInv, Typed', FlushSend
    PROVE  HandInv' /\ UNCHANGED Handoff!vars
<1>1. PICK n : batch' = Restrict(batch, Oldest(batch, n))
  BY DEF FlushSend
<1>2. /\ queue' = queue /\ first' = first /\ dropped' = dropped
      /\ UNCHANGED <<up, nextSeq, pc, row, stray>>
      /\ fpc = "send" /\ fpc' = "wait" /\ req' = [ids |-> Ids(batch'), answer |-> "none"]
  BY DEF FlushSend, storage, pushers, server, history
<1>3. Known' = Known /\ UNCHANGED Handoff!vars
  BY <1>2, Unseen
<1>4. /\ DOMAIN batch' \subseteq DOMAIN batch /\ \A s \in DOMAIN batch' : batch'[s] = batch[s]
      /\ Ids(batch') \subseteq Ids(batch)
  BY <1>1, OldestRows DEF Restrict, Ids
<1>5. Unborn'
  BY <1>2, <1>3 DEF HandInv, Unborn
<1>6. BatchIsQueue'
  BY <1>2, <1>3, <1>4 DEF HandInv, BatchIsQueue
<1>7. RequestIsBatch'
  BY <1>2, <1>3, <1>4 DEF HandInv, RequestIsBatch
<1> QED
  BY <1>2, <1>3, <1>5, <1>6, <1>7 DEF HandInv, Distinct

LEMMA AnswerKeeps ==
    ASSUME HandInv, Typed', FlushAnswer
    PROVE  HandInv' /\ [Handoff!Next]_(Handoff!vars)
<1> DEFINE sent == DOMAIN batch \cap DOMAIN queue
           gone == Ids(Restrict(queue, sent \cap DOMAIN queue))
<1>1. /\ fpc = "wait" /\ fpc' \in {"loop", "off"} /\ batch' = Empty /\ req' = None /\ first' = first
      /\ UNCHANGED <<up, nextSeq, pc, row, stray>>
  BY DEF FlushAnswer, pushers, server
<1>2. sent \cap DOMAIN queue = sent
  OBVIOUS
<1>3. \/ queue' = queue /\ dropped' = dropped
      \/ queue' = Without(queue, {}) /\ dropped' = dropped
      \/ queue' = Without(queue, sent) /\ req.answer = "ok" /\ dropped' = dropped
      \/ queue' = Without(queue, sent) /\ req.answer = "bad" /\ dropped' = dropped \cup gone
  BY <1>2 DEF FlushAnswer
<1>4. DOMAIN batch' = {} /\ Ids(batch') = {}
  BY <1>1, EmptyType
<1>5. req.answer = "ok" => gone \subseteq DOMAIN first
  <2>1. gone \subseteq Ids(batch)
    BY DEF HandInv, BatchIsQueue, Ids, Restrict
  <2> QED
    BY <1>1, <2>1 DEF HandInv, RequestIsBatch
<1>6. ASSUME Distinct(queue'), Known' = Known, dropped' \subseteq Events PROVE HandInv'
  BY <1>1, <1>4, <1>6 DEF HandInv, Unborn, BatchIsQueue, RequestIsBatch
<1>7. CASE queue' = queue /\ dropped' = dropped
  BY <1>1, <1>6, <1>7, Unseen DEF HandInv, Distinct
<1>8. CASE queue' = Without(queue, {}) /\ dropped' = dropped
  <2>1. queue' = queue
    BY <1>8 DEF Without, Restrict, HandInv, Typed, TypeOK
  <2> QED
    BY <1>7, <1>8, <2>1
<1>9. CASE queue' = Without(queue, sent) /\ req.answer = "ok" /\ dropped' = dropped
  <2>1. /\ Distinct(queue') /\ Known \subseteq Known' /\ Ids(queue') = Ids(queue) \ gone
        /\ gone \subseteq Ids(queue)
    BY <1>1, <1>5, <1>9, RowsLeave
  <2> HIDE DEF gone, sent
  <2>2. Known' = Known
    BY <1>1, <1>9, <2>1 DEF Known
  <2>3. Handoff!Release(gone)
    BY <1>1, <1>5, <1>9, <2>1 DEF Handoff!Release
  <2>4. gone \subseteq Events
    BY <2>1, PartOfQueue DEF HandInv, Typed, TypeOK
  <2> QED
    BY <1>6, <1>9, <2>1, <2>2, <2>3, <2>4 DEF HandInv, Handoff!Next
<1>10. CASE queue' = Without(queue, sent) /\ req.answer = "bad" /\ dropped' = dropped \cup gone
  <2>1. /\ Distinct(queue') /\ Known \subseteq Known' /\ Ids(queue') = Ids(queue) \ gone
        /\ gone \subseteq Ids(queue)
    BY <1>1, <1>10, RowsLeave
  <2> HIDE DEF gone, sent
  <2>2. Known' = Known
    BY <1>1, <1>10, <2>1 DEF Known
  <2>3. Handoff!GiveUp(gone)
    BY <1>1, <1>10, <2>1 DEF Handoff!GiveUp
  <2>4. gone \subseteq Events
    BY <2>1, PartOfQueue DEF HandInv, Typed, TypeOK
  <2> QED
    BY <1>6, <1>10, <2>1, <2>2, <2>3, <2>4 DEF HandInv, Handoff!Next
<1> QED
  BY <1>3, <1>7, <1>8, <1>9, <1>10

\* What goes on the wire without anyone waiting was in the queue.
LEMMA UnheardKeeps ==
    ASSUME HandInv, Typed', FlushLost \/ Unload \/ Refuse \/ Tick
    PROVE  HandInv' /\ UNCHANGED Handoff!vars
<1>1. queue' = queue /\ first' = first /\ dropped' = dropped /\ UNCHANGED <<up, nextSeq, pc, row>>
  BY DEF FlushLost, Unload, Refuse, Tick, storage, pushers, flusher, server, history
<1>2. Known' = Known /\ UNCHANGED Handoff!vars
  BY <1>1, Unseen
<1>3. Unborn' /\ Distinct(queue')
  BY <1>1, <1>2 DEF HandInv, Unborn, Distinct
<1>4. CASE FlushLost
  <2>1. /\ fpc = "wait" /\ fpc' = "off" /\ batch' = Empty /\ req' = None
        /\ stray' \subseteq stray \cup {req.ids}
    BY <1>4 DEF FlushLost
  <2>2. DOMAIN batch' = {} /\ Ids(batch') = {}
    BY <2>1, EmptyType
  <2>3. BatchIsQueue' /\ RequestIsBatch'
    BY <1>1, <1>2, <2>1, <2>2 DEF HandInv, BatchIsQueue, RequestIsBatch
  <2> QED
    BY <1>1, <1>2, <1>3, <2>3 DEF HandInv
<1>5. CASE Unload
  <2>1. PICK n : stray' = stray \cup
           {Ids([s \in Oldest(queue, 8 * BatchMax) \ Oldest(queue, n) |-> queue[s]])}
    BY <1>5 DEF Unload
  <2>2. Ids([s \in Oldest(queue, 8 * BatchMax) \ Oldest(queue, n) |-> queue[s]]) \subseteq Known
    BY OldestRows DEF Ids, Known
  <2>3. UNCHANGED <<fpc, batch, req>>
    BY <1>5 DEF Unload, flusher
  <2>4. BatchIsQueue' /\ RequestIsBatch'
    BY <1>1, <1>2, <2>1, <2>2, <2>3 DEF HandInv, BatchIsQueue, RequestIsBatch, Ids
  <2> QED
    BY <1>1, <1>2, <1>3, <2>4 DEF HandInv
<1>6. CASE Refuse
  <2>1. /\ UNCHANGED <<fpc, batch, stray>> /\ fpc = "wait"
        /\ \E a \in {"retry", "auth", "bad"} : req' = [req EXCEPT !.answer = a]
    BY <1>6 DEF Refuse
  <2>2. req'.ids = req.ids /\ req'.answer # "ok"
    BY <2>1 DEF HandInv, Typed, RequestAtHand, Requests
  <2>3. BatchIsQueue' /\ RequestIsBatch'
    BY <1>1, <1>2, <2>1, <2>2 DEF HandInv, BatchIsQueue, RequestIsBatch, Ids
  <2> QED
    BY <1>1, <1>2, <1>3, <2>3 DEF HandInv
<1>7. CASE Tick
  <2>1. UNCHANGED <<fpc, batch, req, stray>>
    BY <1>7 DEF Tick, flusher
  <2>2. BatchIsQueue' /\ RequestIsBatch'
    BY <1>1, <1>2, <2>1 DEF HandInv, BatchIsQueue, RequestIsBatch, Ids
  <2> QED
    BY <1>1, <1>2, <1>3, <2>2 DEF HandInv
<1> QED
  BY <1>4, <1>5, <1>6, <1>7
LEMMA TakeKeeps ==
    ASSUME HandInv, Typed', NEW ids, ids \subseteq Known, DOMAIN first' = DOMAIN first \cup ids,
           UNCHANGED <<queue, dropped, up, nextSeq, pc, row, fpc, batch>>,
           stray' \subseteq stray,
           \/ req' = req
           \/ fpc = "wait" /\ ids = req.ids /\ req' = [req EXCEPT !.answer = "ok"]
    PROVE  HandInv' /\ Handoff!Next
<1>1. Known' = Known
  BY DEF Known, Ids
<1>2. Unborn' /\ Distinct(queue') /\ BatchIsQueue'
  BY <1>1 DEF HandInv, Unborn, Distinct, BatchIsQueue, Ids
<1>3. RequestIsBatch'
  <2>1. CASE req' = req
    BY <1>1, <2>1 DEF HandInv, RequestIsBatch, Ids
  <2>2. CASE fpc = "wait" /\ ids = req.ids /\ req' = [req EXCEPT !.answer = "ok"]
    <3>1. req'.ids = req.ids
      BY <2>2 DEF HandInv, Typed, RequestAtHand, Requests
    <3> QED
      BY <1>1, <2>2, <3>1 DEF HandInv, RequestIsBatch, Ids
  <2> QED
    BY <2>1, <2>2
<1>4. Handoff!Take(ids)
  BY DEF Handoff!Take, Known, Ids
<1>5. ids \subseteq Events
  BY DEF HandInv, Typed, TypeOK
<1> QED
  BY <1>2, <1>3, <1>4, <1>5 DEF HandInv, Handoff!Next

LEMMA ServerKeeps ==
    ASSUME HandInv, Typed', Serve \/ StrayArrives
    PROVE  HandInv' /\ [Handoff!Next]_(Handoff!vars)
<1>1. CASE Serve
  <2>1. /\ DOMAIN first' = DOMAIN first \cup req.ids
        /\ UNCHANGED <<queue, dropped, up, nextSeq, pc, row, fpc, batch, stray>>
        /\ fpc = "wait" /\ req' = [req EXCEPT !.answer = "ok"]
    BY <1>1 DEF Serve, Counts, storage, pushers, history
  <2>2. req.ids \subseteq Known
    BY <2>1 DEF HandInv, RequestIsBatch, BatchIsQueue
  <2> QED
    BY <2>1, <2>2, TakeKeeps
<1>2. CASE StrayArrives
  <2>1. PICK ids \in stray : stray' = stray \ {ids} /\ (Counts(ids) \/ UNCHANGED server)
    BY <1>2 DEF StrayArrives
  <2>2. UNCHANGED <<queue, dropped, up, nextSeq, pc, row, fpc, batch, req>>
    BY <1>2 DEF StrayArrives, storage, pushers, flusher, history
  <2>3. ids \subseteq Known
    BY DEF HandInv, RequestIsBatch
  <2>4. CASE Counts(ids)
    <3>1. DOMAIN first' = DOMAIN first \cup ids
      BY <2>4 DEF Counts
    <3> QED
      BY <2>1, <2>2, <2>3, <3>1, TakeKeeps
  <2>5. CASE UNCHANGED server
    <3>1. first' = first
      BY <2>5 DEF server
    <3>2. Known' = Known /\ UNCHANGED Handoff!vars
      BY <2>2, <3>1, Unseen
    <3>3. Unborn' /\ Distinct(queue') /\ BatchIsQueue' /\ RequestIsBatch'
      BY <2>1, <2>2, <3>1, <3>2 DEF HandInv, Unborn, Distinct, BatchIsQueue, RequestIsBatch, Ids
    <3> QED
      BY <2>2, <3>2, <3>3 DEF HandInv
  <2> QED
    BY <2>1, <2>4, <2>5
<1> QED
  BY <1>1, <1>2

LEMMA KillKeeps ==
    ASSUME HandInv, Typed', Kill
    PROVE  HandInv' /\ [Handoff!Next]_(Handoff!vars)
<1>1. /\ first' = first /\ batch' = Empty /\ req' = None /\ fpc' = "off"
      /\ dropped' = dropped \cup (Ids(queue) \ Ids(queue')) /\ queue' \in {queue, Empty}
      /\ stray' \subseteq stray \cup (IF req # None THEN {req.ids} ELSE {})
      /\ pc' = [e \in Events |-> IF pc[e] = "idle" THEN "idle" ELSE "done"]
      /\ UNCHANGED nextSeq
  BY DEF Kill, server
<1>2. DOMAIN batch' = {} /\ Ids(batch') = {} /\ DOMAIN Empty = {} /\ Ids(Empty) = {}
  BY <1>1, EmptyType
<1>3. Ids(queue') \subseteq Ids(queue) /\ Distinct(queue') /\ Ids(queue) \subseteq Events
  BY <1>1, <1>2, PartOfQueue DEF HandInv, Distinct, Typed, TypeOK
<1>4. Known' = Known
  BY <1>1, <1>3 DEF Known
<1>5. Unborn'
  BY <1>1, <1>4 DEF HandInv, Unborn
<1>6. \A ids \in stray' : ids \subseteq Known
  BY <1>1 DEF HandInv, RequestIsBatch, BatchIsQueue
<1>7. BatchIsQueue' /\ RequestIsBatch'
  BY <1>1, <1>2, <1>4, <1>6 DEF BatchIsQueue, RequestIsBatch
<1>8. [Handoff!Next]_(Handoff!vars)
  <2>1. Handoff!GiveUp(Ids(queue) \ Ids(queue'))
    BY <1>1, <1>3 DEF Handoff!GiveUp
  <2> QED
    BY <1>3, <2>1 DEF Handoff!Next
<1> QED
  BY <1>1, <1>3, <1>5, <1>7, <1>8 DEF HandInv

LEMMA StartKeeps ==
    ASSUME HandInv, Typed', Start
    PROVE  HandInv' /\ UNCHANGED Handoff!vars
<1>1. /\ queue' = queue /\ first' = first /\ dropped' = dropped /\ fpc = "off"
      /\ UNCHANGED <<pc, row, fpc, batch, req, stray>>
  BY DEF Start, storage, pushers, flusher, server, history, HandInv, RequestIsBatch
<1>2. Known' = Known /\ UNCHANGED Handoff!vars
  BY <1>1, Unseen
<1>3. DOMAIN batch' = {}
  BY <1>1 DEF HandInv, BatchIsQueue
<1>4. Unborn' /\ Distinct(queue')
  BY <1>1, <1>2 DEF HandInv, Unborn, Distinct
<1>5. BatchIsQueue'
  BY <1>1, <1>2, <1>3 DEF HandInv, BatchIsQueue, Ids
<1>6. RequestIsBatch'
  BY <1>1, <1>2 DEF HandInv, RequestIsBatch, Ids
<1> QED
  BY <1>1, <1>2, <1>4, <1>5, <1>6 DEF HandInv

LEMMA HandNext == HandInv /\ [Next]_vars => HandInv' /\ [Handoff!Next]_(Handoff!vars)
<1> SUFFICES ASSUME HandInv, [Next]_vars PROVE HandInv' /\ [Handoff!Next]_(Handoff!vars)
  OBVIOUS
<1>1. Typed'
  BY TypeNext DEF HandInv
<1>2. CASE UNCHANGED vars
  <2>1. UNCHANGED <<queue, first, dropped, up, nextSeq, pc, row, fpc, batch, req, stray>>
    BY <1>2 DEF vars, storage, pushers, flusher, server, history
  <2>2. Known' = Known /\ UNCHANGED Handoff!vars
    BY <2>1, Unseen
  <2> QED
    BY <1>1, <2>1, <2>2 DEF HandInv, Unborn, Distinct, BatchIsQueue, RequestIsBatch, Ids
<1>3. ASSUME NEW e \in Events, PushPut(e) \/ PushFails(e) \/ PushAtOnce(e) \/ PushEvict(e)
      PROVE  HandInv' /\ Handoff!Next
  BY <1>1, <1>3, PutKeeps, FailKeeps, AtOnceKeeps, EvictKeeps
<1>4. ASSUME NEW e \in Events, BeginPush(e) \/ PushPeek(e)
      PROVE  HandInv' /\ UNCHANGED Handoff!vars
  BY <1>1, <1>4, BeginKeeps
<1>5. ASSUME FlushStep \/ FlushLost \/ Unload \/ Refuse \/ Tick
      PROVE  HandInv' /\ [Handoff!Next]_(Handoff!vars)
  BY <1>1, <1>5, PeekKeeps, SendKeeps, AnswerKeeps, UnheardKeeps DEF FlushStep
<1>6. ASSUME Serve \/ StrayArrives \/ Kill \/ Start
      PROVE  HandInv' /\ [Handoff!Next]_(Handoff!vars)
  BY <1>1, <1>6, ServerKeeps, KillKeeps, StartKeeps
<1> QED
  BY <1>2, <1>3, <1>4, <1>5, <1>6 DEF Next

\* The queue implements EventHandoff: whatever storage there is, and through kills,
\* restarts, failed writes, lost answers and beacons, an event that was accepted is
\* held, or the server has it, or the client gave it up, and it does not come back.
THEOREM QueueHandsOver == Spec => ImplementsHandoff
  BY HandInit, HandNext, PTL DEF Spec, ImplementsHandoff, Handoff!Spec
-----------------------------------------------------------------------------
(* The dedup window                                                        *)

\* The server took the event of a row after it was enqueued.
TakenAfter(r) == r.at <= now /\ (r.id \in DOMAIN first => r.at <= first[r.id])

\* Sent again now, the event meets the marker of its first delivery.
InWindow(e) == e \in Money \cup stale \/ (e \in DOMAIN first => now <= first[e] + Window)

RowsInTime ==
    /\ \A e \in Events : pc[e] \in {"peek", "evict", "put"} => row[e].at <= now
    /\ \A s \in DOMAIN queue : TakenAfter(queue[s])
    /\ \A s \in DOMAIN batch : TakenAfter(batch[s]) /\ ~Expired(batch[s])

WireInTime ==
    /\ fpc = "wait" => \A e \in req.ids : InWindow(e)
    /\ \A ids \in stray : \A e \in ids : InWindow(e)

ServerInTime ==
    /\ \A e \in DOMAIN first : first[e] <= now
    /\ \A e \in Events \ DOMAIN first : counted[e] = 0
    /\ DuplicatesAbsorbed

WindowInv == HandInv /\ RowsInTime /\ WireInTime /\ ServerInTime

LEMMA WindowInit == Init => WindowInv
<1> SUFFICES ASSUME Init PROVE WindowInv
  OBVIOUS
<1>1. HandInv
  BY HandInit
<1>2. DOMAIN queue = {} /\ DOMAIN batch = {} /\ DOMAIN first = {}
  BY EmptyType DEF Init
<1>3. /\ stray = {} /\ fpc = "off"
      /\ \A e \in Events : pc[e] = "idle" /\ counted[e] = 0
  BY DEF Init
<1> QED
  BY <1>1, <1>2, <1>3 DEF WindowInv, RowsInTime, WireInTime, ServerInTime, DuplicatesAbsorbed

\* A row young enough to be sent is one whose event is still in the window.
LEMMA YoungIsInWindow ==
    ASSUME WindowInv, NEW r \in Rows, TakenAfter(r), ~Expired(r)
    PROVE  InWindow(r.id)
<1>1. /\ r.at \in Nat /\ now \in Nat /\ Ttl \in Nat /\ Window \in Nat /\ Ttl <= Window
      /\ r.id \in DOMAIN first => first[r.id] \in Nat
  BY ConstantsAssumption DEF Rows, WindowInv, HandInv, Typed, TypeOK
<1> QED
  BY <1>1 DEF TakenAfter, Expired, InWindow

LEMMA SameServer ==
    ASSUME WindowInv, now' = now, first' = first, counted' = counted, stale \subseteq stale'
    PROVE  /\ ServerInTime'
           /\ \A e : InWindow(e) => InWindow(e)'
           /\ \A r : TakenAfter(r) => TakenAfter(r)'
           /\ \A r : Expired(r)' <=> Expired(r)
  BY DEF WindowInv, ServerInTime, DuplicatesAbsorbed, InWindow, TakenAfter, Expired

\* A row of the queue after a push was there before, or is the row of the event.
LEMMA PushedRows ==
    ASSUME WindowInv, NEW e \in Events,
           \/ BeginPush(e) \/ PushPeek(e) \/ PushEvict(e) \/ PushPut(e)
           \/ PushFails(e) \/ PushAtOnce(e)
    PROVE  \A s \in DOMAIN queue' : TakenAfter(queue'[s])
<1>1. \A s \in DOMAIN queue : TakenAfter(queue[s])
  BY DEF WindowInv, RowsInTime
<1>2. pc[e] # "done" => e \notin DOMAIN first
  BY DEF WindowInv, HandInv, Unborn, Known
<1>3. ASSUME NEW ss, queue' = Without(queue, ss)
      PROVE  \A s \in DOMAIN queue' : TakenAfter(queue'[s])
  <2>1. DOMAIN queue' \subseteq DOMAIN queue /\ \A s \in DOMAIN queue' : queue'[s] = queue[s]
    BY <1>3 DEF Without, Restrict
  <2> QED
    BY <1>1, <2>1
<1>4. CASE queue' = queue
  BY <1>1, <1>4
<1>5. CASE PushPut(e)
  <2>1. pc[e] = "put" /\ queue' = With(queue, nextSeq, row[e])
    BY <1>5 DEF PushPut
  <2>2. row[e].id = e /\ row[e].at <= now
    BY <2>1 DEF WindowInv, HandInv, Unborn, RowsInTime
  <2>3. TakenAfter(row[e])
    BY <1>2, <2>1, <2>2 DEF TakenAfter
  <2>4. \A s \in DOMAIN queue' : queue'[s] = row[e] \/ (s \in DOMAIN queue /\ queue'[s] = queue[s])
    BY <2>1 DEF With
  <2> QED
    BY <1>1, <2>3, <2>4
<1>6. CASE PushAtOnce(e)
  <2> DEFINE room == Without(queue, Oldest(queue, Cardinality(DOMAIN queue) + 1 - Cap))
             new == [id |-> e, at |-> now]
             all == With(room, nextSeq, new)
  <2>1. pc[e] = "idle" /\ \E ss : queue' = Without(all, ss)
    BY <1>6 DEF PushAtOnce
  <2>2. TakenAfter(new)
    <3>1. new.id = e /\ new.at = now /\ now \in Nat
      BY DEF WindowInv, HandInv, Typed, TypeOK
    <3> QED
      BY <1>2, <2>1, <3>1 DEF TakenAfter
  <2>3. DOMAIN room \subseteq DOMAIN queue /\ \A s \in DOMAIN room : room[s] = queue[s]
    BY DEF Without, Restrict
  <2> HIDE DEF new, room
  <2>4. /\ DOMAIN all = DOMAIN room \cup {nextSeq}
        /\ \A s \in DOMAIN all : all[s] = new \/ (s \in DOMAIN room /\ all[s] = room[s])
    BY DEF With
  <2> HIDE DEF all
  <2>5. DOMAIN queue' \subseteq DOMAIN all /\ \A s \in DOMAIN queue' : queue'[s] = all[s]
    BY <2>1 DEF Without, Restrict
  <2>6. \A s \in DOMAIN queue' : queue'[s] = new \/ (s \in DOMAIN queue /\ queue'[s] = queue[s])
    BY <2>3, <2>4, <2>5
  <2> QED
    BY <1>1, <2>2, <2>6
<1> QED
  BY <1>3, <1>4, <1>5, <1>6 DEF BeginPush, PushPeek, PushEvict, PushFails, storage

LEMMA PushInTime ==
    ASSUME WindowInv, HandInv', NEW e \in Events,
           \/ BeginPush(e) \/ PushPeek(e) \/ PushEvict(e) \/ PushPut(e)
           \/ PushFails(e) \/ PushAtOnce(e)
    PROVE  WindowInv'
<1>1. /\ now' = now /\ first' = first /\ counted' = counted /\ stale' = stale
      /\ UNCHANGED <<fpc, batch, req, stray>>
  BY DEF BeginPush, PushPeek, PushEvict, PushPut, PushFails, PushAtOnce, flusher, server, history
<1>2. ServerInTime'
  BY <1>1, SameServer
<1>3. WireInTime'
  BY <1>1 DEF WindowInv, WireInTime, InWindow
<1>4. \A s \in DOMAIN queue' : TakenAfter(queue'[s])
  BY PushedRows
<1>5. \A f \in Events : pc'[f] \in {"peek", "evict", "put"} => row'[f].at <= now
  <2>1. now <= now
    BY DEF WindowInv, HandInv, Typed, TypeOK
  <2> QED
    BY <2>1 DEF BeginPush, PushPeek, PushEvict, PushPut, PushFails, PushAtOnce,
                WindowInv, RowsInTime, HandInv, Typed, TypeOK
<1>6. RowsInTime'
  BY <1>1, <1>4, <1>5 DEF WindowInv, RowsInTime, TakenAfter, Expired
<1> QED
  BY <1>2, <1>3, <1>6 DEF WindowInv

\* A flush takes young rows into its hand and sends those; a beacon that carries an
\* old row is written down.
LEMMA FlushInTime ==
    ASSUME WindowInv, HandInv', FlushPeek \/ FlushSend \/ FlushAnswer \/ FlushLost \/ Unload
    PROVE  WindowInv'
<1>1. now' = now /\ first' = first /\ counted' = counted /\ stale \subseteq stale' /\ UNCHANGED <<pc, row>>
  BY DEF FlushPeek, FlushSend, FlushAnswer, FlushLost, Unload, pushers, server, history
<1>2. ServerInTime'
  BY <1>1, SameServer
<1>3. /\ \A s \in DOMAIN queue : TakenAfter(queue[s])
      /\ \A s \in DOMAIN batch : TakenAfter(batch[s]) /\ ~Expired(batch[s])
      /\ fpc = "wait" => \A e \in req.ids : InWindow(e)
      /\ \A ids \in stray : \A e \in ids : InWindow(e)
  BY DEF WindowInv, RowsInTime, WireInTime
<1>4. ASSUME \A s \in DOMAIN queue' : TakenAfter(queue'[s]),
             \A s \in DOMAIN batch' : TakenAfter(batch'[s]) /\ ~Expired(batch'[s])
      PROVE  RowsInTime'
  BY <1>1, <1>4 DEF WindowInv, RowsInTime, TakenAfter, Expired
<1>5. ASSUME fpc' = "wait" => \A e \in req'.ids : InWindow(e) \/ e \in stale',
             \A ids \in stray' : \A e \in ids : InWindow(e) \/ e \in stale'
      PROVE  WireInTime'
  BY <1>1, <1>5 DEF WireInTime, InWindow
<1>6. ASSUME NEW ss, queue' = Without(queue, ss)
      PROVE  \A s \in DOMAIN queue' : TakenAfter(queue'[s])
  <2>1. DOMAIN queue' \subseteq DOMAIN queue /\ \A s \in DOMAIN queue' : queue'[s] = queue[s]
    BY <1>6 DEF Without, Restrict
  <2> QED
    BY <1>3, <2>1
<1>7. CASE FlushPeek
  <2> DEFINE rows == Restrict(queue, Oldest(queue, 4 * BatchMax))
             old == {s \in DOMAIN rows : Expired(rows[s])}
  <2>1. /\ queue' = Without(queue, old) /\ batch' = Without(rows, old)
        /\ fpc' \in {"off", "loop", "send"} /\ UNCHANGED <<req, stray>>
    BY <1>7 DEF FlushPeek
  <2>2. \A s \in DOMAIN rows : s \in DOMAIN queue /\ rows[s] = queue[s]
    BY OldestRows DEF Restrict
  <2>3. \A s \in DOMAIN rows \ old : ~Expired(rows[s])
    OBVIOUS
  <2> HIDE DEF rows, old
  <2>4. DOMAIN batch' = DOMAIN rows \ old /\ \A s \in DOMAIN rows \ old : batch'[s] = rows[s]
    BY <2>1 DEF Without, Restrict
  <2>5. \A s \in DOMAIN batch' : TakenAfter(batch'[s]) /\ ~Expired(batch'[s])
    BY <1>3, <2>2, <2>3, <2>4
  <2>6. \A s \in DOMAIN queue' : TakenAfter(queue'[s])
    BY <1>6, <2>1
  <2>7. RowsInTime'
    BY <1>4, <2>5, <2>6
  <2>8. WireInTime'
    BY <1>3, <1>5, <2>1
  <2> QED
    BY <1>2, <2>7, <2>8 DEF WindowInv
<1>8. CASE FlushSend
  <2>1. PICK n : batch' = Restrict(batch, Oldest(batch, n))
    BY <1>8 DEF FlushSend
  <2>2. /\ queue' = queue /\ stray' = stray
        /\ req' = [ids |-> Ids(batch'), answer |-> "none"]
    BY <1>8 DEF FlushSend, storage
  <2>3. DOMAIN batch' \subseteq DOMAIN batch /\ \A s \in DOMAIN batch' : batch'[s] = batch[s]
    BY <2>1, OldestRows DEF Restrict
  <2>4. \A s \in DOMAIN batch' : TakenAfter(batch'[s]) /\ ~Expired(batch'[s])
    BY <1>3, <2>3
  <2>5. \A s \in DOMAIN batch : batch[s] \in Rows
    BY DEF WindowInv, HandInv, Typed, TypeOK
  <2>6. \A e \in req'.ids : InWindow(e)
    <3>1. \A s \in DOMAIN batch' : InWindow(batch'[s].id)
      BY <2>3, <2>4, <2>5, YoungIsInWindow
    <3> QED
      BY <2>2, <3>1 DEF Ids
  <2>7. RowsInTime' /\ WireInTime'
    BY <1>3, <1>4, <1>5, <2>2, <2>4, <2>6
  <2> QED
    BY <1>2, <2>7 DEF WindowInv
<1>9. CASE FlushAnswer
  <2>1. /\ DOMAIN batch' = {} /\ fpc' # "wait" /\ stray' = stray
        /\ \E ss : queue' = queue \/ queue' = Without(queue, ss)
    BY <1>9, EmptyType DEF FlushAnswer
  <2>2. \A s \in DOMAIN queue' : TakenAfter(queue'[s])
    BY <1>3, <1>6, <2>1
  <2>3. RowsInTime' /\ WireInTime'
    BY <1>3, <1>4, <1>5, <2>1, <2>2
  <2> QED
    BY <1>2, <2>3 DEF WindowInv
<1>10. CASE FlushLost
  <2>1. /\ DOMAIN batch' = {} /\ queue' = queue /\ fpc = "wait" /\ fpc' = "off"
        /\ stray' \subseteq stray \cup {req.ids}
    BY <1>10, EmptyType DEF FlushLost, storage
  <2>2. RowsInTime' /\ WireInTime'
    BY <1>3, <1>4, <1>5, <2>1
  <2> QED
    BY <1>2, <2>2 DEF WindowInv
<1>11. CASE Unload
  <2>1. PICK n : LET tail == [s \in Oldest(queue, 8 * BatchMax) \ Oldest(queue, n) |-> queue[s]]
                 IN  /\ stray' = stray \cup {Ids(tail)}
                     /\ stale' = stale \cup {tail[s].id : s \in {u \in DOMAIN tail : Expired(tail[u])}}
    BY <1>11 DEF Unload
  <2> DEFINE tail == [s \in Oldest(queue, 8 * BatchMax) \ Oldest(queue, n) |-> queue[s]]
  <2>2. /\ stray' = stray \cup {Ids(tail)}
        /\ stale' = stale \cup {tail[s].id : s \in {u \in DOMAIN tail : Expired(tail[u])}}
    BY <2>1
  <2>3. \A s \in DOMAIN tail : s \in DOMAIN queue /\ tail[s] = queue[s]
    BY OldestRows
  <2> HIDE DEF tail
  <2>4. \A s \in DOMAIN queue : queue[s] \in Rows
    BY DEF WindowInv, HandInv, Typed, TypeOK
  <2>5. \A s \in DOMAIN tail : InWindow(tail[s].id) \/ tail[s].id \in stale'
    BY <1>3, <2>2, <2>3, <2>4, YoungIsInWindow
  <2>6. \A e \in Ids(tail) : InWindow(e) \/ e \in stale'
    BY <2>5 DEF Ids
  <2>7. UNCHANGED <<queue, fpc, batch, req>>
    BY <1>11 DEF Unload, storage, flusher
  <2>8. RowsInTime' /\ WireInTime'
    BY <1>3, <1>4, <1>5, <2>2, <2>6, <2>7
  <2> QED
    BY <1>2, <2>8 DEF WindowInv
<1> QED
  BY <1>7, <1>8, <1>9, <1>10, <1>11

\* What arrives from the window is counted once, unless a beacon sent it too late.
LEMMA CountsInTime ==
    ASSUME WindowInv, NEW ids, ids \subseteq Events, Counts(ids), \A e \in ids : InWindow(e),
           now' = now, stale' = stale
    PROVE  /\ ServerInTime'
           /\ \A e : InWindow(e) => InWindow(e)'
           /\ \A r \in Rows : TakenAfter(r) => TakenAfter(r)'
<1> DEFINE new == {e \in ids : e \notin DOMAIN first \/ now > first[e] + Window}
<1>1. /\ counted' = [e \in Events |-> IF e \in new THEN counted[e] + 1 ELSE counted[e]]
      /\ first' = [e \in DOMAIN first \cup ids |-> IF e \in new THEN now ELSE first[e]]
  BY DEF Counts
<1>2. /\ now \in Nat /\ Window \in Nat /\ counted \in [Events -> Nat]
      /\ \A e \in DOMAIN first : first[e] \in Nat /\ first[e] <= now
      /\ \A e \in Events \ DOMAIN first : counted[e] = 0
      /\ \A e \in Events \ Money : counted[e] > 1 => e \in stale
      /\ DOMAIN first \subseteq Events
  BY ConstantsAssumption DEF WindowInv, HandInv, Typed, TypeOK, ServerInTime, DuplicatesAbsorbed
<1>3. \A e \in new : e \in Money \cup stale \/ e \notin DOMAIN first
  BY <1>2 DEF InWindow
<1>4. \A e \in ids : e \notin DOMAIN first => e \in new
  OBVIOUS
<1> HIDE DEF new
<1>5. DOMAIN first' = DOMAIN first \cup ids
  BY <1>1
<1>6. \A e \in DOMAIN first' : first'[e] = now \/ (e \in DOMAIN first /\ first'[e] = first[e])
  BY <1>1, <1>4
<1>7. \A e \in DOMAIN first' : first'[e] <= now'
  BY <1>2, <1>6
<1>8. new \subseteq ids
  BY DEF new
<1>9. \A e \in Events \ DOMAIN first' : counted'[e] = 0
  BY <1>1, <1>2, <1>5, <1>8
<1>10. \A e \in Events \ Money : counted'[e] > 1 => e \in stale'
  <2> SUFFICES ASSUME NEW e \in Events \ Money, counted'[e] > 1 PROVE e \in stale
    OBVIOUS
  <2>1. CASE e \in new
    BY <1>1, <1>2, <1>3, <2>1
  <2>2. CASE e \notin new
    BY <1>1, <1>2, <2>2
  <2> QED
    BY <2>1, <2>2
<1>11. ServerInTime'
  BY <1>7, <1>9, <1>10 DEF ServerInTime, DuplicatesAbsorbed
<1>12. ASSUME NEW e, InWindow(e) PROVE InWindow(e)'
  <2>1. CASE e \in Money \cup stale
    BY <2>1 DEF InWindow
  <2>2. CASE e \in DOMAIN first' /\ first'[e] = now
    BY <1>2, <2>2 DEF InWindow
  <2>3. CASE e \in DOMAIN first' /\ e \in DOMAIN first /\ first'[e] = first[e]
    BY <1>12, <2>3 DEF InWindow
  <2>4. CASE e \notin DOMAIN first'
    BY <2>4 DEF InWindow
  <2> QED
    BY <1>6, <2>1, <2>2, <2>3, <2>4
<1>13. ASSUME NEW r \in Rows, TakenAfter(r) PROVE TakenAfter(r)'
  <2>1. r.id \in DOMAIN first' => r.at <= first'[r.id]
    BY <1>6, <1>13 DEF TakenAfter
  <2> QED
    BY <1>13, <2>1 DEF TakenAfter
<1> QED
  BY <1>11, <1>12, <1>13

LEMMA ServerStepInTime ==
    ASSUME WindowInv, HandInv', Serve \/ StrayArrives \/ Refuse
    PROVE  WindowInv'
<1>1. now' = now /\ stale' = stale /\ UNCHANGED <<queue, pc, row, batch, fpc>>
  BY DEF Serve, StrayArrives, Refuse, storage, pushers, flusher, history
<1>2. /\ \A s \in DOMAIN queue : queue[s] \in Rows /\ TakenAfter(queue[s])
      /\ \A s \in DOMAIN batch : batch[s] \in Rows /\ TakenAfter(batch[s]) /\ ~Expired(batch[s])
      /\ \A e \in Events : pc[e] \in {"peek", "evict", "put"} => row[e].at <= now
      /\ \A ids \in stray : ids \subseteq Events /\ \A e \in ids : InWindow(e)
  BY DEF WindowInv, RowsInTime, WireInTime, HandInv, Typed, TypeOK
<1>3. ASSUME \A r \in Rows : TakenAfter(r) => TakenAfter(r)' PROVE RowsInTime'
  <2>1. \A s \in DOMAIN queue : TakenAfter(queue[s])'
    BY <1>1, <1>2, <1>3
  <2>2. \A s \in DOMAIN batch : TakenAfter(batch[s])'
    BY <1>1, <1>2, <1>3
  <2>3. \A s \in DOMAIN batch : ~Expired(batch[s])'
    BY <1>1, <1>2 DEF Expired
  <2> QED
    BY <1>1, <1>2, <2>1, <2>2, <2>3 DEF RowsInTime
<1>4. fpc = "wait" => req \in Requests /\ req.ids \subseteq Events /\ \A e \in req.ids : InWindow(e)
  BY DEF WindowInv, WireInTime, HandInv, Typed, RequestAtHand, Requests
<1>5. ASSUME fpc = "wait" => req'.ids = req.ids, stray' \subseteq stray,
             \A e : InWindow(e) => InWindow(e)'
      PROVE  WireInTime'
  BY <1>1, <1>2, <1>4, <1>5 DEF WireInTime
<1>6. CASE Serve
  <2>1. fpc = "wait" /\ Counts(req.ids) /\ req' = [req EXCEPT !.answer = "ok"] /\ stray' = stray
    BY <1>6 DEF Serve
  <2>2. req'.ids = req.ids
    BY <1>4, <2>1 DEF Requests
  <2>3. /\ ServerInTime' /\ \A e : InWindow(e) => InWindow(e)'
        /\ \A r \in Rows : TakenAfter(r) => TakenAfter(r)'
    BY <1>1, <1>4, <2>1, CountsInTime
  <2> QED
    BY <1>3, <1>5, <2>1, <2>2, <2>3 DEF WindowInv
<1>7. ASSUME first' = first, counted' = counted
      PROVE  /\ ServerInTime' /\ \A e : InWindow(e) => InWindow(e)'
             /\ \A r \in Rows : TakenAfter(r) => TakenAfter(r)'
  BY <1>1, <1>7, SameServer
<1>8. CASE Refuse
  <2>1. /\ fpc = "wait" /\ stray' = stray /\ UNCHANGED <<first, counted>>
        /\ \E a \in {"retry", "auth", "bad"} : req' = [req EXCEPT !.answer = a]
    BY <1>8 DEF Refuse, server
  <2>2. req'.ids = req.ids
    BY <1>4, <2>1 DEF Requests
  <2> QED
    BY <1>3, <1>5, <1>7, <2>1, <2>2 DEF WindowInv
<1>9. CASE StrayArrives
  <2>1. PICK ids \in stray : stray' = stray \ {ids} /\ (Counts(ids) \/ UNCHANGED server)
    BY <1>9 DEF StrayArrives
  <2>2. req' = req
    BY <1>9 DEF StrayArrives, flusher
  <2>3. /\ ServerInTime' /\ \A e : InWindow(e) => InWindow(e)'
        /\ \A r \in Rows : TakenAfter(r) => TakenAfter(r)'
    <3>1. CASE Counts(ids)
      BY <1>1, <1>2, <3>1, CountsInTime
    <3>2. CASE UNCHANGED server
      BY <1>7, <3>2 DEF server
    <3> QED
      BY <2>1, <3>1, <3>2
  <2> QED
    BY <1>3, <1>5, <2>1, <2>2, <2>3 DEF WindowInv
<1> QED
  BY <1>6, <1>8, <1>9

\* Time passes only while nothing is under way.
LEMMA LifeInTime ==
    ASSUME WindowInv, HandInv', Tick \/ Kill \/ Start
    PROVE  WindowInv'
<1>1. CASE Tick
  <2>1. /\ now' = now + 1 /\ stray = {} /\ fpc = "off" /\ Pushing = {}
        /\ UNCHANGED <<queue, pc, row, fpc, batch, req, stray, first, counted, stale>>
    BY <1>1 DEF Tick, Quiet, storage, pushers, flusher, server, history
  <2>2. DOMAIN batch = {} /\ \A e \in Events : pc[e] \notin {"peek", "evict", "put"}
    BY <2>1 DEF WindowInv, HandInv, BatchIsQueue, Pushing
  <2>3. /\ now \in Nat /\ \A s \in DOMAIN queue : queue[s].at \in Nat
        /\ \A e \in DOMAIN first : first[e] \in Nat
    BY DEF WindowInv, HandInv, Typed, TypeOK, Rows
  <2>4. RowsInTime'
    BY <2>1, <2>2, <2>3 DEF WindowInv, RowsInTime, TakenAfter
  <2>5. ServerInTime'
    BY <2>1, <2>3 DEF WindowInv, ServerInTime, DuplicatesAbsorbed
  <2> QED
    BY <2>1, <2>4, <2>5 DEF WindowInv, WireInTime
<1>2. CASE Kill \/ Start
  <2>1. now' = now /\ first' = first /\ counted' = counted /\ stale' = stale
    BY <1>2 DEF Kill, Start, server, history
  <2>2. ServerInTime'
    BY <2>1, SameServer
  <2>3. queue' \in {queue, Empty} /\ batch' \in {batch, Empty}
    BY <1>2 DEF Kill, Start, storage, flusher
  <2>4. DOMAIN Empty = {}
    BY EmptyType
  <2>5. \A e \in Events : pc'[e] \in {"peek", "evict", "put"} => pc'[e] = pc[e] /\ row'[e] = row[e]
    BY <1>2 DEF Kill, Start, pushers
  <2>6. RowsInTime'
    BY <2>1, <2>3, <2>4, <2>5 DEF WindowInv, RowsInTime, TakenAfter, Expired
  <2>7. /\ fpc' = "wait" => fpc = "wait" /\ req' = req
        /\ stray' \subseteq stray \cup (IF req # None THEN {req.ids} ELSE {})
    BY <1>2 DEF Kill, Start, flusher
  <2>8. req # None => fpc = "wait"
    BY DEF WindowInv, HandInv, RequestIsBatch
  <2>9. WireInTime'
    BY <2>1, <2>7, <2>8 DEF WindowInv, WireInTime, InWindow
  <2> QED
    BY <2>2, <2>6, <2>9 DEF WindowInv
<1> QED
  BY <1>1, <1>2

LEMMA WindowNext == WindowInv /\ [Next]_vars => WindowInv'
<1> SUFFICES ASSUME WindowInv, [Next]_vars PROVE WindowInv'
  OBVIOUS
<1>1. HandInv'
  BY HandNext DEF WindowInv
<1>2. CASE UNCHANGED vars
  <2>1. UNCHANGED <<queue, pc, row, fpc, batch, req, stray, now, first, counted, stale>>
    BY <1>2 DEF vars, storage, pushers, flusher, server, history
  <2>2. ServerInTime'
    BY <2>1, SameServer
  <2> QED
    BY <1>1, <2>1, <2>2 DEF WindowInv, RowsInTime, WireInTime, TakenAfter, Expired, InWindow
<1> QED
  BY <1>1, <1>2, PushInTime, FlushInTime, ServerStepInTime, LifeInTime DEF Next, FlushStep

\* The server's windowed dedup absorbs what the SDK sends twice: an event that is not
\* money is counted once, through lost answers, failed removals, kills and beacons,
\* unless a beacon carried it past its TTL.
THEOREM WindowAbsorbs == Spec => []DuplicatesAbsorbed
<1>1. WindowInv => DuplicatesAbsorbed
  BY DEF WindowInv, ServerInTime
<1> QED
  BY <1>1, WindowInit, WindowNext, PTL DEF Spec

-----------------------------------------------------------------------------
(* The session tracker *)

Ending == {"emitting", "emitted"}
CallSteps == Ending \cup {"idle", "cleared", "minted", "written", "enqueue", "done"}

\* Where a task is: nothing runs while the page is down, only init before it
\* is up, and a session in a task's hands is what the task ends.
TasksInPhase ==
    /\ \A t \in Tasks : ending[t] # NoSession <=> callPc[t] \in Ending
    /\ \A t \in Closers : callPc[t] \in Ending \cup {"idle", "cleared"}
    /\ phase = "up" => callPc["init"] = "idle"
    /\ phase # "up" => sid = NoSession /\ \A t \in Tasks \ {"init"} : callPc[t] \in {"idle",
           "done"}
    /\ phase = "down" => callPc["init"] = "idle"

\* Sessions are numbered as they are minted, and in one pair of hands.
SessionsApart ==
    /\ \A s \in Sessions : (s \in Live \/ open = s \/ s \in lost) => s <= minted
    /\ \A s \in Sessions : s > minted => ended[s] = 0
    /\ \A t \in Tasks : sid # NoSession => ending[t] # sid
    /\ \A t, u \in Tasks : t # u /\ ending[t] # NoSession => ending[t] # ending[u]
    /\ sid \notin lost

\* A session that is not over, or whose second end a record that stayed explains.
EndsInv ==
    /\ EndsOnce
    /\ sid # NoSession => ended[sid] = 0
    /\ \A t \in Tasks : callPc[t] = "emitting" => ended[ending[t]] = 0 \/ ending[t] \in cut
    /\ \A s \in Sessions : open = s /\ ended[s] > 0 =>
         s \in cut \/ \E t \in Tasks : callPc[t] = "emitted" /\ ending[t] = s

\* A session in memory has a record, had one that another call took away, or no
\* write of one succeeded yet; a record of another session is about to be removed,
\* unless a removal or a read failed.
RecordInv ==
    /\ LostOnlyByOverlap
    /\ open \notin fresh
    /\ \A s \in Sessions : s \in Live /\ ended[s] = 0 => open = s \/ s \in wiped \cup fresh
    /\ sid # NoSession /\ sid \in fresh =>
         sid \in unwritten \/ \E c \in Calls : callPc[c] = "minted"
    /\ phase # "down" /\ open \notin {NoSession, sid} =>
         open \in left \/ \E t \in Tasks : callPc[t] \in Ending /\ ending[t] = open

SessionInv == TrackerTypeOK /\ TasksInPhase /\ SessionsApart /\ EndsInv /\ RecordInv

LEMMA SessionInit == TrackerInit => SessionInv
<1> SUFFICES ASSUME TrackerInit PROVE SessionInv
  OBVIOUS
<1>1. TrackerTypeOK
  <2>1. 0 \in 0 .. MaxSessions /\ ended \in [Sessions -> Nat]
    BY TrackerAssumption DEF TrackerInit
  <2>2. /\ callPc \in [Tasks -> CallSteps]
        /\ ending \in [Tasks -> Sessions \cup {NoSession}]
    BY DEF TrackerInit, CallSteps, Ending
  <2> QED
    BY <2>1, <2>2 DEF TrackerInit, CallSteps, Ending, TrackerTypeOK
<1>2. TasksInPhase
  BY DEF TrackerInit, TasksInPhase, Ending, Tasks, Closers
<1>4. SessionsApart
  <2>1. Live \subseteq {NoSession}
    BY DEF TrackerInit, Live
  <2>2. \A s \in Sessions : s # NoSession
    BY TrackerAssumption
  <2> QED
    BY <2>1, <2>2 DEF TrackerInit, SessionsApart
<1>3. EndsInv /\ RecordInv
  BY DEF TrackerInit, EndsInv, EndsOnce, RecordInv, LostOnlyByOverlap, Live, Ending
<1> QED
  BY <1>1, <1>2, <1>3, <1>4 DEF SessionInv

LEMMA SessionLeaves ==
    ASSUME SessionInv, NEW t \in Tasks, NEW reason, EndSession(t, reason),
           t # "init", callPc[t] = "idle", phase = "up", sid # NoSession,
           UNCHANGED <<open, phase, idle, ended, minted, fresh, wiped, cut, unwritten, left,
                       lost, faults>>
    PROVE  SessionInv'
<1> USE DEF SessionInv, Ending, CallSteps
<1>1. /\ sid \in Sessions /\ sid' = NoSession /\ armed' = FALSE
      /\ ending' = [ending EXCEPT ![t] = sid] /\ callPc' = [callPc EXCEPT ![t] = "emitting"]
      /\ rash' \subseteq rash \cup fresh
      /\ UNCHANGED <<open, phase, idle, ended, minted, fresh, wiped, cut, unwritten, left,
                     lost, faults>>
  BY DEF EndSession, TrackerTypeOK
<1>2. /\ DOMAIN callPc = Tasks /\ DOMAIN ending = Tasks
      /\ callPc'[t] = "emitting" /\ ending'[t] = sid /\ ending[t] = NoSession
      /\ \A u \in Tasks \ {t} : callPc'[u] = callPc[u] /\ ending'[u] = ending[u]
  BY <1>1 DEF TrackerTypeOK, TasksInPhase
<1>3. TrackerTypeOK'
  <2>1. ending' \in [Tasks -> Sessions \cup {NoSession}] /\ callPc' \in [Tasks -> CallSteps]
    BY <1>1 DEF TrackerTypeOK
  <2> QED
    BY <1>1, <2>1 DEF TrackerTypeOK, faults
<1>4. TasksInPhase'
  BY <1>1, <1>2, TrackerAssumption DEF TasksInPhase, Sessions, Tasks, Closers
<1>5. Live' = Live \cup {NoSession}
  BY <1>1, <1>2 DEF Live
<1>6. SessionsApart'
  <2>1. \A u, v \in Tasks : u # v /\ ending'[u] # NoSession => ending'[u] # ending'[v]
    BY <1>1, <1>2 DEF SessionsApart
  <2>2. sid' \notin lost' /\ \A u \in Tasks : sid' = NoSession
    BY <1>1, TrackerAssumption DEF TrackerTypeOK, Sessions
  <2>3. \A s \in Sessions : s # NoSession
    BY TrackerAssumption
  <2> QED
    BY <1>1, <1>5, <2>1, <2>2, <2>3 DEF SessionsApart
<1>7. EndsInv'
  <2>1. \A u \in Tasks : callPc'[u] = "emitting" => ended'[ending'[u]] = 0 \/ ending'[u] \in cut'
    BY <1>1, <1>2 DEF EndsInv
  <2> QED
    BY <1>1, <1>2, <2>1 DEF EndsInv, EndsOnce
<1>8. RecordInv'
  <2>1. \A s \in Sessions : s # NoSession
    BY TrackerAssumption
  <2> QED
    BY <1>1, <1>2, <1>5, <2>1 DEF RecordInv, LostOnlyByOverlap
<1> QED
  BY <1>3, <1>4, <1>6, <1>7, <1>8

LEMMA SessionMinted ==
    ASSUME SessionInv, NEW c \in Calls, Mint(c), callPc[c] \in {"idle", "cleared"},
        phase = "up", sid = NoSession,
           UNCHANGED <<phase, armed, ending, ended, rash, cut, left, lost, pageKills>>
    PROVE  SessionInv'
<1> USE DEF SessionInv, Ending, CallSteps
<1> DEFINE n == minted + 1
<1>1. /\ n \in Sessions /\ minted \in Nat /\ n > minted /\ n # NoSession
      /\ \A s \in Sessions : s <= minted => s # n
  BY TrackerAssumption DEF Mint, TrackerTypeOK, Sessions
<1>2. /\ minted' = n /\ sid' = n /\ fresh' = fresh \cup {n}
      /\ callPc' = [callPc EXCEPT ![c] = "minted"]
      /\ UNCHANGED <<open, idle, wiped, phase, armed, ending, ended, rash, cut, unwritten,
                     left, lost, faults>>
  BY DEF Mint, faults
<1> HIDE DEF n
<1>3. /\ c \in Tasks \ Closers /\ DOMAIN callPc = Tasks /\ callPc'[c] = "minted"
             /\ ending[c] = NoSession
      /\ \A u \in Tasks \ {c} : callPc'[u] = callPc[u]
  BY <1>2, TrackerAssumption DEF TrackerTypeOK, TasksInPhase, Tasks
<1>4. TrackerTypeOK'
  <2>1. callPc' \in [Tasks -> CallSteps]
    BY <1>2, <1>3 DEF TrackerTypeOK
  <2>2. minted' \in 0 .. MaxSessions
    BY <1>1, <1>2 DEF TrackerTypeOK, Sessions
  <2> QED
    BY <1>1, <1>2, <2>1, <2>2 DEF TrackerTypeOK, faults
<1>5. TasksInPhase'
  BY <1>2, <1>3 DEF TasksInPhase, Closers
<1>6. Live' = Live \cup {n} \/ Live' = (Live \cup {n}) \ {NoSession}
  BY <1>2 DEF Live
<1>7. \A u \in Tasks : ending[u] # n
  BY <1>1, TrackerAssumption DEF SessionsApart, Live, TrackerTypeOK
<1>8. SessionsApart'
  <2>1. n \notin lost /\ n > minted /\ ended[n] = 0
    BY <1>1 DEF SessionsApart
  <2>2. \A s \in Sessions : (s \in Live' \/ open' = s \/ s \in lost') => s <= n
    BY <1>1, <1>2, <1>6 DEF SessionsApart, Sessions
  <2>3. \A s \in Sessions : s > n => s > minted
    BY <1>1 DEF Sessions
  <2> QED
    BY <1>2, <1>7, <2>1, <2>2, <2>3 DEF SessionsApart
<1>9. EndsInv'
  <2>1. ended[n] = 0
    BY <1>1 DEF SessionsApart
  <2>2. \A u \in Tasks : callPc'[u] \in Ending <=> callPc[u] \in Ending
    BY <1>3
  <2>3. \A u \in Tasks : callPc'[u] \in {"emitting", "emitted"} => callPc'[u] = callPc[u]
    BY <1>3
  <2>4. \A u \in Tasks : callPc[u] = "emitted" => callPc'[u] = "emitted"
    BY <1>3
  <2> QED
    BY <1>2, <2>1, <2>3, <2>4 DEF EndsInv, EndsOnce
<1>10. RecordInv'
  <2>1. \A s \in Sessions : s \in Live' /\ ended'[s] = 0 => open' = s \/ s \in wiped' \cup fresh'
    BY <1>2, <1>6 DEF RecordInv
  <2>2. \E t \in Calls : callPc'[t] = "minted"
    BY <1>3
  <2>3. open' \notin {NoSession, sid'} =>
          open \in left \/ \E t \in Tasks : callPc'[t] \in Ending /\ ending[t] = open
    <3>1. SUFFICES ASSUME open \notin {NoSession, sid'}, open \notin left
              PROVE \E t \in Tasks : callPc'[t] \in Ending /\ ending[t] = open
      BY <1>2
    <3>2. PICK t \in Tasks : callPc[t] \in Ending /\ ending[t] = open
      BY <3>1 DEF RecordInv
    <3> QED
      BY <1>3, <3>2
  <2>4. LostOnlyByOverlap'
    BY <1>2 DEF RecordInv, LostOnlyByOverlap
  <2>5. open' \notin fresh'
    BY <1>1, <1>2 DEF RecordInv, SessionsApart, TrackerTypeOK
  <2> QED
    BY <1>2, <2>1, <2>2, <2>3, <2>4, <2>5 DEF RecordInv
<1> QED
  BY <1>4, <1>5, <1>8, <1>9, <1>10

LEMMA RecordWritten ==
    ASSUME SessionInv, NEW c \in Calls, WriteOpen(c), callPc[c] \in {"idle", "cleared",
        "minted"}, phase = "up",
           UNCHANGED <<phase, armed, ending, ended, rash, cut, left, lost, pageKills>>
    PROVE  SessionInv'
<1> USE DEF SessionInv, Ending, CallSteps
<1>1. /\ open' = sid /\ idle' = FALSE /\ fresh' = fresh \ {sid}
             /\ wiped' = (wiped \cup {open}) \ {NoSession, sid}
      /\ unwritten' = unwritten \ {sid}
      /\ callPc' = [callPc EXCEPT ![c] = "written"]
      /\ UNCHANGED <<sid, minted, phase, armed, ending, ended, rash, cut, left, lost, faults>>
  BY DEF WriteOpen, faults
<1>2. /\ c \in Tasks \ Closers /\ DOMAIN callPc = Tasks /\ callPc'[c] = "written"
             /\ ending[c] = NoSession
      /\ \A u \in Tasks \ {c} : callPc'[u] = callPc[u]
  BY <1>1, TrackerAssumption DEF TrackerTypeOK, TasksInPhase, Tasks
<1>3. TrackerTypeOK'
  <2>1. callPc' \in [Tasks -> CallSteps]
    BY <1>1, <1>2 DEF TrackerTypeOK
  <2>2. wiped' \subseteq Sessions /\ fresh' \subseteq Sessions
    BY <1>1 DEF TrackerTypeOK
  <2> QED
    BY <1>1, <2>1, <2>2 DEF TrackerTypeOK, faults
<1>4. TasksInPhase'
  BY <1>1, <1>2 DEF TasksInPhase, Closers
<1>5. Live' = Live /\ sid \in Live
  BY <1>1 DEF Live
<1>6. SessionsApart'
  BY <1>1, <1>5 DEF SessionsApart
<1>7. EndsInv'
  <2>1. \A u \in Tasks : callPc'[u] \in {"emitting", "emitted"} => callPc'[u] = callPc[u]
    BY <1>2
  <2>2. \A u \in Tasks : callPc[u] = "emitted" => callPc'[u] = "emitted"
    BY <1>2
  <2>3. \A s \in Sessions : s # NoSession
    BY TrackerAssumption
  <2> QED
    BY <1>1, <2>1, <2>2, <2>3 DEF EndsInv, EndsOnce
<1>8. RecordInv'
  <2>1. \A s \in Sessions : s \in Live' /\ ended'[s] = 0 => open' = s \/ s \in wiped' \cup fresh'
    <3> SUFFICES ASSUME NEW s \in Sessions, s \in Live, ended[s] = 0, s # sid
            PROVE s \in wiped' \cup fresh'
      BY <1>1, <1>5
    <3>1. s # NoSession
      BY TrackerAssumption
    <3> QED
      BY <1>1, <3>1 DEF RecordInv
  <2>2. sid' \notin fresh'
    BY <1>1
  <2>3. LostOnlyByOverlap'
    BY <1>1, TrackerAssumption DEF RecordInv, LostOnlyByOverlap, SessionsApart, TrackerTypeOK
  <2> QED
    BY <1>1, <2>1, <2>2, <2>3 DEF RecordInv
<1> QED
  BY <1>3, <1>4, <1>6, <1>7, <1>8

LEMMA RecordUnwritten ==
    ASSUME SessionInv, NEW c \in Calls, WriteFails(c), callPc[c] \in {"idle", "cleared",
        "minted"}, phase = "up",
           UNCHANGED <<phase, armed, ending, ended, rash, cut, left, lost, pageKills>>
    PROVE  SessionInv'
<1> USE DEF SessionInv, Ending, CallSteps
<1>1. /\ idle' = FALSE /\ storageFailures' = storageFailures + 1
      /\ unwritten' = unwritten \cup ({sid} \ {NoSession, open})
      /\ callPc' = [callPc EXCEPT ![c] = "written"]
      /\ UNCHANGED <<open, sid, minted, fresh, wiped, phase, armed, ending, ended, rash, cut,
                     left, lost, pageKills>>
  BY DEF WriteFails
<1>2. /\ c \in Tasks \ Closers /\ DOMAIN callPc = Tasks /\ callPc'[c] = "written"
             /\ ending[c] = NoSession
      /\ \A u \in Tasks \ {c} : callPc'[u] = callPc[u]
  BY <1>1, TrackerAssumption DEF TrackerTypeOK, TasksInPhase, Tasks
<1>3. TrackerTypeOK'
  <2>1. callPc' \in [Tasks -> CallSteps]
    BY <1>1, <1>2 DEF TrackerTypeOK
  <2>2. unwritten' \subseteq Sessions /\ storageFailures' \in Nat
    BY <1>1 DEF TrackerTypeOK
  <2> QED
    BY <1>1, <2>1, <2>2 DEF TrackerTypeOK
<1>4. TasksInPhase'
  BY <1>1, <1>2 DEF TasksInPhase, Closers
<1>5. Live' = Live
  BY <1>1 DEF Live
<1>6. SessionsApart'
  BY <1>1, <1>5 DEF SessionsApart
<1>7. EndsInv'
  <2>1. \A u \in Tasks : callPc'[u] \in {"emitting", "emitted"} => callPc'[u] = callPc[u]
    BY <1>2
  <2>2. \A u \in Tasks : callPc[u] = "emitted" => callPc'[u] = "emitted"
    BY <1>2
  <2> QED
    BY <1>1, <2>1, <2>2 DEF EndsInv, EndsOnce
<1>8. RecordInv'
  <2>1. sid' # NoSession /\ sid' \in fresh' => sid' \in unwritten'
    BY <1>1 DEF RecordInv
  <2>2. \A u \in Tasks : callPc[u] \in Ending => callPc'[u] = callPc[u]
    BY <1>2
  <2> QED
    BY <1>1, <1>5, <2>1, <2>2 DEF RecordInv, LostOnlyByOverlap
<1> QED
  BY <1>3, <1>4, <1>6, <1>7, <1>8

LEMMA CallInv ==
    ASSUME SessionInv, NEW c \in Calls, Capture(c) \/ CallStep(c)
    PROVE  SessionInv'
<1>1. c \in Tasks /\ c \notin Closers /\ c # "init"
  BY TrackerAssumption DEF Tasks, Closers
<1>2. callPc[c] \notin {"idle", "done"} => phase = "up"
  BY <1>1 DEF SessionInv, TasksInPhase, TrackerTypeOK
<1>3. CASE Capture(c)
  <2>1. CASE sid # NoSession /\ idle
    <3>1. /\ EndSession(c, "timeout") /\ phase = "up" /\ callPc[c] = "idle"
          /\ UNCHANGED <<open, phase, idle, ended, minted, fresh, wiped, cut, unwritten, left,
                         lost, faults>>
      BY <1>3, <2>1 DEF Capture, faults
    <3> QED
      BY <1>1, <2>1, <3>1, SessionLeaves
  <2>2. CASE ~(sid # NoSession /\ idle)
    <3>1. /\ StartOrContinue(c) /\ phase = "up" /\ callPc[c] = "idle"
          /\ UNCHANGED <<phase, armed, ending, ended, rash, cut, left, lost, pageKills>>
      BY <1>3, <2>2 DEF Capture
    <3> QED
      BY <3>1, SessionMinted, RecordWritten, RecordUnwritten DEF StartOrContinue, Record
  <2> QED
    BY <2>1, <2>2
<1>4. CASE Resume(c)
  <2>1. UNCHANGED <<phase, armed, ending, ended, rash, cut, left, lost, pageKills>>
    BY <1>4 DEF Resume
  <2>2. CASE callPc[c] = "cleared" /\ StartOrContinue(c)
    BY <1>2, <2>1, <2>2, SessionMinted, RecordWritten, RecordUnwritten DEF StartOrContinue, Record
  <2>3. CASE callPc[c] = "minted" /\ Record(c)
    BY <1>2, <2>1, <2>3, RecordWritten, RecordUnwritten DEF Record
  <2> QED
    BY <1>4, <2>2, <2>3 DEF Resume
<1>5. CASE BuildEnvelope(c) \/ Captured(c)
  <2> USE DEF SessionInv, Ending, CallSteps
  <2>1. /\ callPc[c] \in {"written", "enqueue"}
        /\ \E x \in {"enqueue", "done"} : callPc' = [callPc EXCEPT ![c] = x]
        /\ UNCHANGED <<open, phase, sid, idle, ending, ended, minted, fresh, rash, wiped, cut,
                       unwritten, left, lost, faults>>
        /\ armed' \in BOOLEAN
    BY <1>5 DEF BuildEnvelope, Captured, tracker, trackerHistory, TrackerTypeOK
  <2>2. /\ \A u \in Tasks \ {c} : callPc'[u] = callPc[u]
        /\ callPc'[c] \in {"enqueue", "done"} /\ DOMAIN callPc = Tasks
    BY <1>1, <2>1 DEF TrackerTypeOK
  <2>3. TrackerTypeOK'
    <3>1. callPc' \in [Tasks -> CallSteps]
      BY <2>1, <2>2 DEF TrackerTypeOK
    <3> QED
      BY <2>1, <3>1 DEF TrackerTypeOK, faults
  <2>4. TasksInPhase'
    BY <1>1, <1>2, <2>1, <2>2 DEF TasksInPhase
  <2>5. SessionsApart'
    BY <2>1 DEF SessionsApart, Live
  <2>6. EndsInv'
    <3>1. \A u \in Tasks : callPc'[u] \in {"emitting", "emitted"} => callPc'[u] = callPc[u]
      BY <2>2
    <3>2. \A u \in Tasks : callPc[u] = "emitted" => callPc'[u] = "emitted"
      BY <2>1, <2>2
    <3> QED
      BY <2>1, <3>1, <3>2 DEF EndsInv, EndsOnce
  <2>7. RecordInv'
    <3>1. \A u \in Tasks : callPc[u] \in Ending \cup {"minted"} => callPc'[u] = callPc[u]
      BY <2>1, <2>2
    <3>2. Live' = Live
      BY <2>1 DEF Live
    <3>3. Calls \subseteq Tasks
      BY DEF Tasks
    <3> QED
      BY <2>1, <3>1, <3>2, <3>3 DEF RecordInv, LostOnlyByOverlap
  <2> QED
    BY <2>3, <2>4, <2>5, <2>6, <2>7
<1> QED
  BY <1>3, <1>4, <1>5 DEF CallStep

LEMMA TerminalInv ==
    ASSUME SessionInv, NEW t \in Tasks, TerminalEnqueued(t)
    PROVE  SessionInv'
<1> USE DEF SessionInv, Ending, CallSteps
<1> DEFINE e == ending[t]
<1>1. /\ callPc[t] = "emitting" /\ ended' = [ended EXCEPT ![e] = @ + 1]
             /\ callPc' = [callPc EXCEPT ![t] = "emitted"]
      /\ UNCHANGED <<open, phase, sid, idle, armed, ending, minted, fresh, rash, wiped, cut,
                     unwritten, left, lost, faults>>
  BY DEF TerminalEnqueued, tracker
<1>2. /\ e # NoSession /\ e \in Sessions /\ ended \in [Sessions -> Nat] /\ DOMAIN callPc = Tasks
      /\ callPc'[t] = "emitted" /\ \A u \in Tasks \ {t} : callPc'[u] = callPc[u]
  BY <1>1 DEF TrackerTypeOK, TasksInPhase
<1>3. /\ ended'[e] = ended[e] + 1 /\ \A s \in Sessions \ {e} : ended'[s] = ended[s]
      /\ ended' \in [Sessions -> Nat]
  BY <1>1, <1>2
<1>4. sid # e /\ \A u \in Tasks \ {t} : ending[u] # e
  BY <1>2 DEF SessionsApart
<1> HIDE DEF e
<1>5. TrackerTypeOK'
  <2>1. callPc' \in [Tasks -> CallSteps]
    BY <1>1 DEF TrackerTypeOK
  <2> QED
    BY <1>1, <1>3, <2>1 DEF TrackerTypeOK, faults
<1>6. TasksInPhase'
  BY <1>1, <1>2, <1>3 DEF TasksInPhase
<1>7. SessionsApart'
  <2>1. e \in Live
    BY DEF Live, e
  <2>2. e <= minted /\ e \in Nat /\ minted \in Nat
    BY <1>2, <2>1 DEF SessionsApart, TrackerTypeOK, Sessions
  <2>3. \A s \in Sessions : s > minted => ended'[s] = 0
    BY <1>3, <2>2 DEF SessionsApart
  <2> QED
    BY <1>1, <2>3 DEF SessionsApart, Live
<1>8. EndsInv'
  <2>1. ended[e] = 0 \/ e \in cut
    BY <1>1 DEF EndsInv, e
  <2>2. EndsOnce'
    BY <1>1, <1>3, <2>1 DEF EndsInv, EndsOnce
  <2>3. sid' # NoSession => ended'[sid'] = 0
    BY <1>1, <1>3, <1>4 DEF EndsInv, TrackerTypeOK
  <2>4. \A u \in Tasks : callPc'[u] = "emitting" => ended'[ending'[u]] = 0 \/ ending'[u] \in cut'
    <3> SUFFICES ASSUME NEW u \in Tasks, callPc'[u] = "emitting" PROVE ended'[ending[u]] = 0
            \/ ending[u] \in cut
      BY <1>1
    <3>1. u # t /\ callPc[u] = "emitting"
      BY <1>2
    <3>2. ending[u] \in Sessions \ {e}
      BY <1>4, <3>1 DEF TasksInPhase, TrackerTypeOK
    <3> QED
      BY <1>3, <3>1, <3>2 DEF EndsInv
  <2>5. \A s \in Sessions : open' = s /\ ended'[s] > 0 =>
          s \in cut' \/ \E u \in Tasks : callPc'[u] = "emitted" /\ ending'[u] = s
    <3> SUFFICES ASSUME NEW s \in Sessions, open = s, ended'[s] > 0, s \notin cut
                 PROVE  \E u \in Tasks : callPc'[u] = "emitted" /\ ending[u] = s
      BY <1>1
    <3>1. CASE s = e
      BY <1>2, <3>1 DEF e
    <3>2. CASE s # e
      BY <1>1, <1>2, <1>3, <3>2 DEF EndsInv
    <3> QED
      BY <3>1, <3>2
  <2> QED
    BY <2>2, <2>3, <2>4, <2>5 DEF EndsInv
<1>9. RecordInv'
  <2>1. \A s \in Sessions : ended'[s] = 0 => ended[s] = 0
    <3>1. ended[e] \in Nat
      BY <1>2
    <3> QED
      BY <1>3, <3>1
  <2>2. Live' = Live
    BY <1>1 DEF Live
  <2>3. \A u \in Tasks : callPc'[u] \in Ending <=> callPc[u] \in Ending
    BY <1>1, <1>2
  <2>4. \A c \in Calls : callPc[c] = "minted" => callPc'[c] = "minted"
    BY <1>1, <1>2 DEF Tasks
  <2> QED
    BY <1>1, <2>1, <2>2, <2>3, <2>4 DEF RecordInv, LostOnlyByOverlap
<1> QED
  BY <1>5, <1>6, <1>7, <1>8, <1>9

LEMMA ClearInv ==
    ASSUME SessionInv, NEW t \in Tasks, ClearOpen(t)
    PROVE  SessionInv'
<1> USE DEF SessionInv, Ending, CallSteps
<1>1. /\ callPc[t] = "emitted" /\ open' = NoSession /\ wiped' = wiped \cup ({open} \ {NoSession,
             ending[t]})
      /\ ending' = [ending EXCEPT ![t] = NoSession] /\ callPc' = [callPc EXCEPT ![t] = "cleared"]
      /\ UNCHANGED <<phase, sid, idle, armed, ended, minted, fresh, rash, cut, unwritten,
                     left, lost, faults>>
  BY DEF ClearOpen, tracker
<1>2. /\ DOMAIN callPc = Tasks /\ DOMAIN ending = Tasks
      /\ callPc'[t] = "cleared" /\ \A u \in Tasks \ {t} : callPc'[u] = callPc[u]
             /\ ending'[u] = ending[u]
      /\ ending'[t] = NoSession
  BY <1>1 DEF TrackerTypeOK
<1>3. \A s \in Sessions : s # NoSession
  BY TrackerAssumption
<1>4. TrackerTypeOK'
  <2>1. ending' \in [Tasks -> Sessions \cup {NoSession}] /\ callPc' \in [Tasks -> CallSteps]
    BY <1>1 DEF TrackerTypeOK
  <2> QED
    BY <1>1, <2>1 DEF TrackerTypeOK, faults
<1>5. TasksInPhase'
  BY <1>1, <1>2 DEF TasksInPhase
<1>6. \A s \in Sessions : s \in Live' => s \in Live /\ s # ending[t]
  <2> SUFFICES ASSUME NEW s \in Sessions, s \in Live' PROVE s \in Live /\ s # ending[t]
    OBVIOUS
  <2>1. s = sid \/ \E u \in Tasks : s = ending'[u]
    BY <1>1 DEF Live
  <2>2. s = sid \/ \E u \in Tasks \ {t} : s = ending[u]
    BY <1>2, <1>3, <2>1
  <2> QED
    BY <1>3, <2>2 DEF SessionsApart, Live
<1>7. SessionsApart'
  BY <1>1, <1>2, <1>3, <1>6 DEF SessionsApart
<1>8. EndsInv'
  <2>1. \A u \in Tasks : callPc'[u] = "emitting" => callPc[u] = "emitting"
            /\ ending'[u] = ending[u]
    BY <1>2
  <2> QED
    BY <1>1, <1>3, <2>1 DEF EndsInv, EndsOnce
<1>9. RecordInv'
  <2>1. \A s \in Sessions : s \in Live' /\ ended'[s] = 0 => s \in wiped' \cup fresh'
    BY <1>1, <1>3, <1>6 DEF RecordInv
  <2>2. \A c \in Calls : callPc[c] = "minted" => callPc'[c] = "minted"
    BY <1>1, <1>2 DEF Tasks
  <2>3. LostOnlyByOverlap'
    BY <1>1 DEF RecordInv, LostOnlyByOverlap
  <2>4. open' \notin fresh'
    BY <1>1, <1>3 DEF TrackerTypeOK
  <2> QED
    BY <1>1, <2>1, <2>2, <2>3, <2>4 DEF RecordInv
<1> QED
  BY <1>4, <1>5, <1>7, <1>8, <1>9

LEMMA ClearFailsInv ==
    ASSUME SessionInv, NEW t \in Tasks, ClearFails(t)
    PROVE  SessionInv'
<1> USE DEF SessionInv, Ending, CallSteps
<1>1. /\ callPc[t] = "emitted" /\ storageFailures' = storageFailures + 1
      /\ cut' = cut \cup ({open} \cap {ending[t]})
      /\ left' = left \cup ({open} \cap {ending[t]})
      /\ ending' = [ending EXCEPT ![t] = NoSession] /\ callPc' = [callPc EXCEPT ![t] = "cleared"]
      /\ UNCHANGED <<open, phase, sid, idle, armed, ended, minted, fresh, rash, wiped, unwritten,
                     lost, pageKills>>
  BY DEF ClearFails, tracker
<1>2. /\ DOMAIN callPc = Tasks /\ DOMAIN ending = Tasks
      /\ callPc'[t] = "cleared" /\ \A u \in Tasks \ {t} : callPc'[u] = callPc[u]
             /\ ending'[u] = ending[u]
      /\ ending'[t] = NoSession
  BY <1>1 DEF TrackerTypeOK
<1>3. (\A s \in Sessions : s # NoSession) /\ ending[t] \in Sessions
  BY <1>1, TrackerAssumption DEF TasksInPhase, TrackerTypeOK
<1>4. TrackerTypeOK'
  <2>1. ending' \in [Tasks -> Sessions \cup {NoSession}] /\ callPc' \in [Tasks -> CallSteps]
    BY <1>1 DEF TrackerTypeOK
  <2>2. cut' \subseteq Sessions /\ left' \subseteq Sessions /\ storageFailures' \in Nat
    BY <1>1, <1>3 DEF TrackerTypeOK
  <2> QED
    BY <1>1, <2>1, <2>2 DEF TrackerTypeOK
<1>5. TasksInPhase'
  BY <1>1, <1>2 DEF TasksInPhase
<1>6. \A s \in Sessions : s \in Live' => s \in Live
  <2> SUFFICES ASSUME NEW s \in Sessions, s \in Live' PROVE s \in Live
    OBVIOUS
  <2>1. s = sid \/ \E u \in Tasks : s = ending'[u]
    BY <1>1 DEF Live
  <2> QED
    BY <1>2, <1>3, <2>1 DEF Live
<1>7. SessionsApart'
  BY <1>1, <1>2, <1>3, <1>6 DEF SessionsApart
<1>8. EndsInv'
  <2>1. \A u \in Tasks : callPc'[u] = "emitting" => callPc[u] = "emitting"
            /\ ending'[u] = ending[u]
    BY <1>2
  <2>2. \A s \in Sessions : open' = s /\ ended'[s] > 0 =>
          s \in cut' \/ \E u \in Tasks : callPc'[u] = "emitted" /\ ending'[u] = s
    <3> SUFFICES ASSUME NEW s \in Sessions, open = s, ended[s] > 0, s \notin cut'
                 PROVE  \E u \in Tasks : callPc'[u] = "emitted" /\ ending'[u] = s
      BY <1>1
    <3>1. PICK u \in Tasks : callPc[u] = "emitted" /\ ending[u] = s
      BY <1>1 DEF EndsInv
    <3>2. u # t
      BY <1>1, <3>1
    <3> QED
      BY <1>2, <3>1, <3>2
  <2> QED
    BY <1>1, <2>1, <2>2 DEF EndsInv, EndsOnce
<1>9. RecordInv'
  <2>1. \A c \in Calls : callPc[c] = "minted" => callPc'[c] = "minted"
    BY <1>1, <1>2 DEF Tasks
  <2>2. phase # "down" /\ open \notin {NoSession, sid} =>
          open \in left' \/ \E u \in Tasks : callPc'[u] \in Ending /\ ending'[u] = open
    <3> SUFFICES ASSUME phase # "down", open \notin {NoSession, sid}, open \notin left'
                 PROVE  \E u \in Tasks : callPc'[u] \in Ending /\ ending'[u] = open
      OBVIOUS
    <3>1. PICK u \in Tasks : callPc[u] \in Ending /\ ending[u] = open
      BY <1>1 DEF RecordInv
    <3>2. u # t
      BY <1>1, <3>1
    <3> QED
      BY <1>2, <3>1, <3>2
  <2>3. LostOnlyByOverlap'
    BY <1>1 DEF RecordInv, LostOnlyByOverlap
  <2> QED
    BY <1>1, <1>6, <2>1, <2>2, <2>3 DEF RecordInv
<1> QED
  BY <1>4, <1>5, <1>7, <1>8, <1>9

\* Steps that leave the sessions where they are.
LEMMA QuietInv ==
    ASSUME SessionInv, NEW t \in Closers, CloserDone(t) \/ Idle \/ UNCHANGED trackerVars
        \/ (TimerFire /\ sid = NoSession)
    PROVE  SessionInv'
<1> USE DEF SessionInv, Ending, CallSteps
<1>1. /\ UNCHANGED <<open, sid, ending, ended, minted, fresh, rash, wiped, cut, unwritten,
                     left, lost, faults>>
      /\ idle' \in BOOLEAN /\ armed' \in BOOLEAN
      /\ \/ UNCHANGED <<phase, callPc>>
         \/ callPc[t] = "cleared" /\ phase' = "up" /\ callPc' = [callPc EXCEPT ![t] = "idle"]
  BY DEF CloserDone, Idle, TimerFire, trackerVars, tracker, trackerHistory,
      TrackerTypeOK
<1>2. t \in Tasks /\ DOMAIN callPc = Tasks
  BY DEF Tasks, TrackerTypeOK
<1>3. /\ phase # "down" => phase' # "down"
      /\ phase' = phase \/ phase' = "up"
      /\ phase' # phase => phase = "starting" /\ t = "init"
  BY <1>1, <1>2 DEF TasksInPhase, TrackerTypeOK
<1>4. /\ \A u \in Tasks : callPc[u] # "cleared" \/ u # t => callPc'[u] = callPc[u]
      /\ \A u \in Tasks : callPc'[u] = callPc[u] \/ (callPc[u] = "cleared"
             /\ callPc'[u] = "idle" /\ u = t)
      /\ phase' # phase => callPc'["init"] = "idle"
  BY <1>1, <1>2, <1>3
<1>5. TrackerTypeOK'
  <2>1. callPc' \in [Tasks -> CallSteps]
    BY <1>1 DEF TrackerTypeOK
  <2> QED
    BY <1>1, <1>3, <2>1 DEF TrackerTypeOK, faults
<1>6. TasksInPhase'
  <2>1. phase' = "up" => callPc'["init"] = "idle"
    <3>1. "init" \in Tasks
      BY DEF Tasks, Closers
    <3> QED
      BY <1>3, <1>4, <3>1 DEF TasksInPhase
  <2>2. phase' # "up" => phase' = phase
    BY <1>3
  <2>3. Closers \subseteq Tasks
    BY DEF Tasks
  <2>4. \A u \in Tasks : (callPc'[u] \in Ending <=> callPc[u] \in Ending)
            /\ (callPc[u] \in {"idle", "done"} => callPc'[u] = callPc[u])
    BY <1>4
  <2>5. "init" \in Tasks
    BY DEF Tasks, Closers
  <2> QED
    BY <1>1, <1>4, <2>1, <2>2, <2>3, <2>4, <2>5 DEF TasksInPhase
<1>7. Live' = Live
  BY <1>1 DEF Live
<1>8. SessionsApart'
  BY <1>1, <1>7 DEF SessionsApart
<1>9. EndsInv'
  BY <1>1, <1>4 DEF EndsInv, EndsOnce
<1>10. RecordInv'
  <2>1. \A u \in Tasks : callPc[u] \in Ending \cup {"minted"} => callPc'[u] = callPc[u]
    BY <1>4
  <2>2. Calls \subseteq Tasks
    BY DEF Tasks
  <2>3. phase' # "down" => phase # "down"
    BY <1>3
  <2> QED
    BY <1>1, <1>7, <2>1, <2>2, <2>3 DEF RecordInv, LostOnlyByOverlap
<1> QED
  BY <1>5, <1>6, <1>8, <1>9, <1>10

LEMMA StartInv == ASSUME SessionInv, PageStart PROVE SessionInv'
<1> USE DEF SessionInv, Ending, CallSteps
<1>1. /\ phase = "down" /\ idle' \in BOOLEAN
      /\ UNCHANGED <<open, sid, armed, ended, minted, fresh, rash, wiped, cut, unwritten, lost,
                     pageKills>>
      /\ \/ /\ open = NoSession /\ phase' = "up"
            /\ UNCHANGED <<callPc, ending, left, storageFailures>>
         \/ /\ open # NoSession /\ phase' = "starting"
            /\ ending' = [ending EXCEPT !["init"] = open]
            /\ callPc' = [callPc EXCEPT !["init"] = "emitting"]
            /\ UNCHANGED <<left, storageFailures>>
         \/ /\ open # NoSession /\ phase' = "up" /\ storageFailures' = storageFailures + 1
            /\ left' = left \cup {open} /\ UNCHANGED <<callPc, ending>>
  BY DEF PageStart
<1>2. /\ DOMAIN callPc = Tasks /\ DOMAIN ending = Tasks /\ "init" \in Tasks
      /\ sid = NoSession /\ callPc["init"] = "idle"
      /\ \A u \in Tasks : callPc[u] \in {"idle", "done"} /\ ending[u] = NoSession
  BY <1>1 DEF TrackerTypeOK, TasksInPhase, Tasks, Closers
<1>3. /\ \A u \in Tasks \ {"init"} : callPc'[u] = callPc[u] /\ ending'[u] = NoSession
      /\ phase' = "starting" => callPc'["init"] = "emitting" /\ ending'["init"] = open
      /\ phase' = "up" => UNCHANGED <<callPc, ending>>
      /\ phase' \in {"starting", "up"} /\ (phase' = "starting" => open # NoSession)
  BY <1>1, <1>2
<1>4. \A s \in Sessions : s # NoSession
  BY TrackerAssumption
<1>5. TrackerTypeOK'
  <2>1. callPc' \in [Tasks -> CallSteps]
    BY <1>1 DEF TrackerTypeOK
  <2>2. ending' \in [Tasks -> Sessions \cup {NoSession}]
    BY <1>1 DEF TrackerTypeOK
  <2>3. left' \subseteq Sessions /\ storageFailures' \in Nat
    BY <1>1 DEF TrackerTypeOK, faults
  <2> QED
    BY <1>1, <1>3, <2>1, <2>2, <2>3 DEF TrackerTypeOK, faults
<1>6. TasksInPhase'
  <2>1. CASE phase' = "up"
    BY <1>1, <1>2, <1>3, <2>1 DEF TasksInPhase
  <2>2. CASE phase' = "starting"
    <3>1. \A u \in Tasks : ending'[u] # NoSession <=> callPc'[u] \in Ending
      BY <1>2, <1>3, <2>2
    <3>2. \A u \in Closers : callPc'[u] \in Ending \cup {"idle", "cleared"}
      BY <1>2, <1>3, <2>2 DEF TasksInPhase, Tasks
    <3> QED
      BY <1>1, <1>2, <1>3, <2>2, <3>1, <3>2 DEF TasksInPhase
  <2> QED
    BY <1>3, <2>1, <2>2
<1>7. \A s \in Sessions : s \in Live' => s = open
  BY <1>1, <1>2, <1>3, <1>4 DEF Live
<1>8. SessionsApart'
  <2>1. \A u \in Tasks : ending'[u] # NoSession => u = "init"
    BY <1>2, <1>3
  <2>2. \A u, v \in Tasks : u # v /\ ending'[u] # NoSession => ending'[u] # ending'[v]
    BY <1>3, <2>1
  <2> QED
    BY <1>1, <1>2, <1>7, <2>2 DEF SessionsApart
<1>9. EndsInv'
  <2>1. \A s \in Sessions : open = s /\ ended[s] > 0 => s \in cut
    BY <1>2 DEF EndsInv
  <2>2. open # NoSession => open \in Sessions /\ (ended[open] = 0 \/ open \in cut)
    BY <2>1 DEF TrackerTypeOK
  <2>3. \A u \in Tasks : callPc'[u] = "emitting" => open # NoSession /\ ending'[u] = open
    BY <1>1, <1>2, <1>3
  <2> QED
    BY <1>1, <1>2, <2>1, <2>2, <2>3 DEF EndsInv, EndsOnce
<1>10. RecordInv'
  <2>1. open' \notin {NoSession, sid'} =>
          open \in left' \/ \E u \in Tasks : callPc'[u] \in Ending /\ ending'[u] = open
    BY <1>1, <1>2, <1>3
  <2>2. \A s \in Sessions : s \in Live' => open' = s
    BY <1>1, <1>7
  <2> QED
    BY <1>1, <1>2, <2>1, <2>2 DEF RecordInv, LostOnlyByOverlap
<1> QED
  BY <1>5, <1>6, <1>8, <1>9, <1>10

LEMMA KillInv == ASSUME SessionInv, PageKill PROVE SessionInv'
<1> USE DEF SessionInv, Ending, CallSteps
<1>1. /\ pageKills' = pageKills + 1 /\ phase' = "down" /\ sid' = NoSession /\ armed' = FALSE
      /\ cut' = cut \cup {s \in Sessions : open = s /\ ended[s] > 0}
      /\ lost' = lost \cup {s \in Live \ {NoSession} : open # s /\ ended[s] = 0}
      /\ callPc' = [t \in Tasks |-> IF t \in Calls /\ callPc[t] # "idle" THEN "done" ELSE "idle"]
      /\ ending' = [t \in Tasks |-> NoSession]
      /\ UNCHANGED <<open, idle, ended, minted, fresh, rash, wiped, unwritten, left,
                     storageFailures>>
  BY DEF PageKill
<1>2. /\ \A u \in Tasks : callPc'[u] \in {"idle", "done"} /\ ending'[u] = NoSession
      /\ \A u \in Closers : callPc'[u] = "idle"
      /\ "init" \in Closers
  BY <1>1, TrackerAssumption DEF Tasks, Closers
<1>3. \A s \in Sessions : s # NoSession
  BY TrackerAssumption
<1>4. Live \ {NoSession} \subseteq Sessions
  BY DEF Live, TrackerTypeOK
<1>5. TrackerTypeOK'
  <2>1. cut' \subseteq Sessions /\ lost' \subseteq Sessions /\ pageKills' \in Nat
    BY <1>1, <1>4 DEF TrackerTypeOK
  <2>2. callPc' \in [Tasks -> CallSteps]
    BY <1>1 DEF TrackerTypeOK
  <2> QED
    BY <1>1, <2>1, <2>2 DEF TrackerTypeOK
<1>6. TasksInPhase'
  BY <1>1, <1>2 DEF TasksInPhase
<1>7. Live' \subseteq {NoSession}
  BY <1>1, <1>2 DEF Live
<1>8. SessionsApart'
  <2>1. \A s \in Sessions : s \in lost' => s <= minted
    BY <1>1, <1>4 DEF SessionsApart
  <2>2. sid' \notin lost'
    BY <1>1, <1>3, <1>4 DEF TrackerTypeOK
  <2> QED
    BY <1>1, <1>2, <1>3, <1>7, <2>1, <2>2 DEF SessionsApart
<1>9. EndsInv'
  BY <1>1, <1>2 DEF EndsInv, EndsOnce
<1>10. RecordInv'
  <2>1. LostOnlyByOverlap'
    BY <1>1, <1>4 DEF RecordInv, LostOnlyByOverlap
  <2> QED
    BY <1>1, <1>2, <1>3, <1>7, <2>1 DEF RecordInv
<1> QED
  BY <1>5, <1>6, <1>8, <1>9, <1>10

LEMMA SessionNext == SessionInv /\ [TrackerNext]_trackerVars => SessionInv'
<1> SUFFICES ASSUME SessionInv, [TrackerNext]_trackerVars PROVE SessionInv'
  OBVIOUS
<1>1. ASSUME NEW t \in {"timer", "hide"}, NEW reason, EndSession(t, reason), sid # NoSession,
          TimerFire \/ Hide,
             callPc[t] = "idle"
      PROVE  SessionInv'
  <2>1. t \in Tasks /\ t # "init" /\ phase = "up"
    BY <1>1 DEF Tasks, Closers, TimerFire, Hide
  <2>2. UNCHANGED <<open, phase, idle, ended, minted, fresh, wiped, cut, unwritten, left,
                    lost, faults>>
    BY <1>1 DEF TimerFire, Hide
  <2> QED
    BY <1>1, <2>1, <2>2, SessionLeaves
<1>2. CASE TimerFire
  BY <1>1, <1>2, QuietInv DEF TimerFire, Closers
<1>3. CASE Hide
  BY <1>1, <1>3 DEF Hide
<1>4. CASE Idle \/ UNCHANGED trackerVars
  BY <1>4, QuietInv DEF Closers
<1> QED
  BY <1>2, <1>3, <1>4, CallInv, TerminalInv, ClearInv, ClearFailsInv, QuietInv, StartInv, KillInv
      DEF TrackerNext, CloseStep

LEMMA SessionInvariant == TrackerSpec => []SessionInv
BY SessionInit, SessionNext, PTL DEF TrackerSpec

\* Every session has one terminal event, unless its record outlived it: a kill came
\* between it and the removal, or the removal failed (session.ts, endSession).
THEOREM EndsOnceCorrect == TrackerSpec => []EndsOnce
<1>1. SessionInv => EndsOnce
  BY DEF SessionInv, EndsInv
<1> QED
  BY <1>1, SessionInvariant, PTL

\* When no call is under way the record names the session in memory, unless another
\* call took it away, or its write, the removal of an older one or the read of one
\* at init failed (session.ts, writeOpen, clearOpen, readOpen).
THEOREM RecordCorrect == TrackerSpec => []RecordCoversSession
<1>1. SessionInv => RecordCoversSession
  <2> SUFFICES ASSUME SessionInv, phase = "up", Running = {}
               PROVE  /\ open # NoSession => open = sid \/ open \in left
                      /\ sid # NoSession => open = sid \/ sid \in wiped \cup unwritten
    BY DEF RecordCoversSession
  <2>1. \A t \in Tasks : callPc[t] \in {"idle", "done"}
    BY DEF Running
  <2>2. open # NoSession => open = sid \/ open \in left
    BY <2>1 DEF SessionInv, RecordInv, Ending
  <2>3. sid # NoSession => /\ sid \in Sessions /\ sid \in Live /\ ended[sid] = 0
                           /\ sid \in fresh => sid \in unwritten
    BY <2>1 DEF SessionInv, RecordInv, EndsInv, TrackerTypeOK, Live, Tasks
  <2> QED
    BY <2>2, <2>3 DEF SessionInv, RecordInv
<1> QED
  BY <1>1, SessionInvariant, PTL

\* A kill leaves a session without record and terminal event only if no write of a
\* record succeeded or another call took it away (session.ts, reconcile).
THEOREM LostCorrect == TrackerSpec => []LostOnlyByOverlap
<1>1. SessionInv => LostOnlyByOverlap
  BY DEF SessionInv, RecordInv
<1> QED
  BY <1>1, SessionInvariant, PTL
=============================================================================
