--------------------------- MODULE ServerSdk_proofs ---------------------------
(***************************************************************************)
(* Proofs about the front door and the server SDK before it: types and the *)
(* bound of the queue, revocation, and what becomes of a row.              *)
(***************************************************************************)
EXTENDS ServerSdk, FiniteSetTheorems, TLAPS

(* The smaller of two integers, and the oldest of some rows. *)
LEMMA MinOfPair ==
    ASSUME NEW a \in Int, NEW b \in Int
    PROVE  Min({a, b}) = IF a <= b THEN a ELSE b
<1> DEFINE m == IF a <= b THEN a ELSE b
<1>1. m \in {a, b} /\ \A y \in {a, b} : m =< y
  OBVIOUS
<1>2. \A x \in {a, b} : (\A y \in {a, b} : x =< y) => x = m
  OBVIOUS
<1>3. Min({a, b}) \in {a, b} /\ \A y \in {a, b} : Min({a, b}) =< y
  BY <1>1 DEF Min
<1> QED
  BY <1>2, <1>3

LEMMA LeastOf ==
    ASSUME NEW S \in SUBSET Nat, S # {}
    PROVE  \E n \in S : \A m \in S : n =< m
<1> DEFINE Down == {0 .. n : n \in S}
<1>1. \A n \in S : 0 .. n \in SUBSET Nat /\ IsFiniteSet(0 .. n)
  BY FS_Interval
<1>2. Down \subseteq FiniteSubsetsOf(Nat) /\ Down # {}
  BY <1>1 DEF FiniteSubsetsOf
<1>3. PICK x \in Down : \A y \in Down : <<y, x>> \notin StrictSubsetOrdering(Nat)
  BY <1>2, WFMin, FS_StrictSubsetOrderingWellFounded, Zenon
<1>4. PICK n \in S : x = 0 .. n
  OBVIOUS
<1>5. ASSUME NEW m \in S, m < n
      PROVE  FALSE
  <2>1. 0 .. m \in Down /\ 0 .. m \subseteq 0 .. n /\ n \notin 0 .. m /\ n \in 0 .. n
    BY <1>5
  <2>2. <<0 .. m, 0 .. n>> \in StrictSubsetOrdering(Nat)
    BY <1>1, <2>1 DEF StrictSubsetOrdering
  <2> QED
    BY <1>3, <1>4, <2>1, <2>2
<1>6. \A m \in S : n =< m
  BY <1>5
<1> QED
  BY <1>6

LEMMA MinIsIn ==
    ASSUME NEW S \in SUBSET Nat, S # {}
    PROVE  Min(S) \in S
  BY LeastOf DEF Min

LEMMA Products == ASSUME NEW a \in Nat, NEW b \in Nat PROVE a * b \in Nat
  OBVIOUS

-----------------------------------------------------------------------------
(* The door *)

USE DoorAssumption

LEMMA LevelType ==
    ASSUME tokens \in 0 .. Burst, idle \in 0 .. Burst
    PROVE  Level \in 0 .. Burst
<1>1. idle * Rate \in Nat
  BY Products
<1>2. Level = IF Burst <= tokens + idle * Rate THEN Burst ELSE tokens + idle * Rate
  BY <1>1, MinOfPair DEF Level
<1> QED
  BY <1>1, <1>2

LEMMA CostType == ASSUME NEW n \in Nat PROVE Cost(n) \in Nat /\ Cost(n) <= n
  BY MinOfPair DEF Cost

LEMMA OlderType ==
    ASSUME NEW age \in 0 .. CacheTtl \cup {None}
    PROVE  /\ Older(age, CacheTtl) \in 0 .. CacheTtl \cup {None}
           /\ Older(age, CacheTtl) = None <=> age = None
           /\ age # None => Older(age, CacheTtl) = IF age < CacheTtl THEN age + 1 ELSE CacheTtl
<1>1. CASE age = None
  BY <1>1 DEF Older
<1>2. CASE age # None
  BY <1>2, MinOfPair DEF Older
<1> QED
  BY <1>1, <1>2

LEMMA DoorTypeNext ==
    ASSUME DoorTypeOK, DoorNext
    PROVE  DoorTypeOK'
<1> USE DEF DoorTypeOK
<1>1. ASSUME NEW s \in Slots, CacheHit(s) \/ Lookup(s) \/ Remember(s) \/ Shed(s)
      PROVE  DoorTypeOK'
  <2>1. /\ door' \in {[door EXCEPT ![s].pc = step] : step \in {"found", "shed", "rate"}}
                   \cup {[door EXCEPT ![s].pc = "answered", ![s].status = status] :
                          status \in {401, 503}}
    <3>1. CASE CacheHit(s) \/ Remember(s)
      BY <3>1 DEF CacheHit, Remember, Goto
    <3>2. CASE Lookup(s)
      BY <3>2 DEF Lookup, Goto, Answer
    <3>3. CASE Shed(s)
      BY <3>3 DEF Shed, Goto, Answer
    <3> QED
      BY <1>1, <3>1, <3>2, <3>3
  <2>2. DoorTypeOK!1'
    BY <2>1
  <2>3. servedLate' \in BOOLEAN
    BY <1>1, Zenon DEF CacheHit, Lookup, Remember, Shed, Serve
  <2>4. cached' \in {cached, 0} /\ UNCHANGED <<revoked, bucket, queued, trouble>>
    BY <1>1 DEF CacheHit, Lookup, Remember, Shed
  <2> QED
    BY <2>2, <2>3, <2>4 DEF bucket
<1>2. ASSUME NEW s \in Slots, Admit(s)
      PROVE  DoorTypeOK'
  <2> DEFINE cost == Cost(Cardinality(door[s].ids))
  <2>1. tokens' \in 0 .. Burst /\ idle' \in 0 .. Burst
    <3>1. IsFiniteSet(door[s].ids)
      BY SdkAssumption, FS_Subset
    <3>2. cost \in Nat
      BY <3>1, FS_CardinalityType, CostType
    <3>3. CASE Rate = 0
      BY <1>2, <3>3 DEF Admit, bucket
    <3>4. CASE Rate # 0 /\ Level >= cost
      <4>1. tokens' = Level - cost /\ idle' = 0
        BY <1>2, <3>4 DEF Admit
      <4> QED
        BY <4>1, <3>2, <3>4, LevelType
    <3>5. CASE Rate # 0 /\ ~(Level >= cost)
      BY <1>2, <3>5, LevelType DEF Admit
    <3> QED
      BY <3>3, <3>4, <3>5
  <2>2. door' \in {[door EXCEPT ![s].pc = "add"],
                   [door EXCEPT ![s].pc = "answered", ![s].status = 429]}
    BY <1>2 DEF Admit, Goto, Answer
  <2>3. DoorTypeOK!1'
    BY <2>2
  <2> QED
    BY <1>2, <2>1, <2>3 DEF Admit
<1>3. ASSUME NEW s \in Slots, Add(s) \/ AddFails(s)
      PROVE  DoorTypeOK'
  BY <1>3 DEF Add, AddFails, Answer, bucket
<1>4. CASE Revoke
  BY <1>4 DEF Revoke, bucket
<1> QED
  BY <1>1, <1>2, <1>3, <1>4 DEF DoorNext

LEMMA DoorTypeTick == DoorTypeOK /\ DoorTick => DoorTypeOK'
<1> SUFFICES ASSUME DoorTypeOK, DoorTick PROVE DoorTypeOK'
  OBVIOUS
<1>1. cached' \in 0 .. CacheTtl \cup {None} /\ revoked' \in 0 .. CacheTtl \cup {None}
  BY OlderType DEF DoorTick, DoorTypeOK
<1>2. idle' \in 0 .. Burst
  <2>1. idle \in 0 .. Burst /\ idle' = Min({idle + 1, Burst})
    BY DEF DoorTick, DoorTypeOK
  <2> QED
    BY <2>1, MinOfPair
<1> QED
  BY <1>1, <1>2 DEF DoorTick, DoorTypeOK

LEMMA DoorTypeOthers == DoorTypeOK /\ OthersDraw => DoorTypeOK'
<1> SUFFICES ASSUME DoorTypeOK, OthersDraw PROVE DoorTypeOK'
  OBVIOUS
<1>1. Level \in 0 .. Burst
  BY LevelType DEF DoorTypeOK
<1> QED
  BY <1>1 DEF OthersDraw, DoorTypeOK

-----------------------------------------------------------------------------
(* The queue and the flush *)

USE SdkAssumption

\* The part of TypeOK that the queue needs.
QueueOK ==
    /\ emitted \in Rows \cup {0}
    /\ queue \subseteq 1 .. emitted /\ Cardinality(queue) <= Cap
    /\ money \subseteq 1 .. emitted /\ dropped \subseteq Rows /\ refused \subseteq money

LEMMA QueueFinite ==
    ASSUME QueueOK, NEW q \in SUBSET queue
    PROVE  /\ IsFiniteSet(q) /\ q \subseteq Rows
           /\ Cardinality(q) \in Nat /\ Cardinality(q) <= Cap
<1>1. emitted \in Nat /\ queue \subseteq Rows
  BY FS_CardinalityType DEF QueueOK
<1>2. IsFiniteSet(queue)
  BY <1>1, FS_Subset
<1>3. IsFiniteSet(q) /\ Cardinality(q) <= Cardinality(queue)
  BY <1>2, FS_Subset
<1> QED
  BY <1>1, <1>2, <1>3, FS_CardinalityType DEF QueueOK

(* Eviction makes room for one, and never takes a verified purchase. *)
LEMMA EnqueueKeeps ==
    ASSUME QueueOK, NEW isMoney \in BOOLEAN, NEW e \in Rows, e = emitted + 1,
           Enqueue(e, isMoney),
           emitted' = e, money' = IF isMoney THEN money \cup {e} ELSE money
    PROVE  /\ QueueOK'
           /\ money' \cap queue \subseteq queue' /\ refused \subseteq refused'
           /\ isMoney => e \in queue' \cup refused'
<1>1. emitted \in Nat /\ queue \in SUBSET Rows /\ queue \in SUBSET Nat
  BY QueueFinite, FS_CardinalityType DEF QueueOK
<1>2. IsFiniteSet(queue) /\ Cardinality(queue) \in Nat /\ Cardinality(queue) <= Cap
  BY QueueFinite
<1>3. e \notin queue /\ e \notin money /\ 1 .. emitted \subseteq 1 .. e /\ e \in 1 .. e
  BY <1>1 DEF QueueOK
<1>4. emitted' \in Rows \cup {0} /\ money' \subseteq 1 .. emitted'
  BY <1>3 DEF QueueOK
<1>5. CASE Cardinality(queue) < Cap
  <2>1. queue' = queue \cup {e} /\ UNCHANGED <<dropped, refused>>
    BY <1>5 DEF Enqueue
  <2>2. Cardinality(queue \cup {e}) = Cardinality(queue) + 1
    BY <1>2, <1>3, FS_AddElement, Zenon
  <2>3. Cardinality(queue') <= Cap
    BY <1>2, <1>5, <2>1, <2>2
  <2> QED
    BY <1>3, <1>4, <2>1, <2>3 DEF QueueOK
<1>6. CASE ~(Cardinality(queue) < Cap) /\ ~isMoney
  BY <1>3, <1>4, <1>6 DEF Enqueue, QueueOK
<1>7. CASE ~(Cardinality(queue) < Cap) /\ isMoney /\ Evictable = {}
  BY <1>3, <1>4, <1>7 DEF Enqueue, QueueOK
<1>8. CASE ~(Cardinality(queue) < Cap) /\ isMoney /\ Evictable # {}
  <2> DEFINE out == Min(Evictable)
  <2>1. /\ queue' = (queue \ {out}) \cup {e}
        /\ dropped' = dropped \cup {out} /\ UNCHANGED refused
    BY <1>8 DEF Enqueue
  <2>2. out \in queue /\ out \notin money /\ out \in Rows
    BY <1>1, <1>8, MinIsIn, ZenonT(60) DEF Evictable
  <2>3. IsFiniteSet(queue \ {out}) /\ Cardinality(queue \ {out}) = Cardinality(queue) - 1
    BY <1>2, <2>2, FS_RemoveElement
  <2>4. Cardinality(queue') = Cardinality(queue \ {out}) + 1
    BY <1>3, <2>1, <2>3, FS_AddElement, Zenon
  <2>5. queue' \subseteq 1 .. emitted' /\ dropped' \subseteq Rows /\ refused' \subseteq money'
    BY <1>3, <1>8, <2>1, <2>2 DEF QueueOK
  <2> QED
    BY <1>2, <1>3, <1>4, <1>8, <2>1, <2>2, <2>3, <2>4, <2>5 DEF QueueOK
<1> QED
  BY <1>5, <1>6, <1>7, <1>8

LEMMA QueueShrinks ==
    ASSUME QueueOK, queue' \in SUBSET queue, UNCHANGED <<emitted, money, dropped, refused>>
    PROVE  QueueOK'
<1>1. Cardinality(queue') <= Cap
  BY QueueFinite
<1> QED
  BY <1>1 DEF QueueOK

FlushOK ==
    /\ flush \in [pc : {"off", "send", "wait", "sleep"}, batch : SUBSET Rows,
                  elapsed : 0 .. Budget]
    /\ life \in {"up", "closing", "closed", "gone"}

LEMMA PeekType == ASSUME NEW q \in SUBSET Rows PROVE Peek(q) \in SUBSET Rows
  BY Zenon DEF Peek

LEMMA BatchStarts ==
    ASSUME FlushOK, NEW q \in SUBSET Rows, StartBatch(q)
    PROVE  FlushOK'
  BY PeekType DEF StartBatch, Off, FlushOK

HistoryOK ==
    /\ mine \in Slots \cup {None} /\ acked \subseteq Rows /\ reported \subseteq Rows
    /\ excuse \in [joined : BOOLEAN, failed : BOOLEAN]

LEMMA TypeParts == TypeOK <=> DoorTypeOK /\ QueueOK /\ FlushOK /\ HistoryOK
  BY Zenon DEF TypeOK, QueueOK, FlushOK, HistoryOK

LEMMA TypeInit == Init => TypeOK
<1> SUFFICES ASSUME Init PROVE TypeOK
  OBVIOUS
<1>1. DoorTypeOK
  <2>1. DoorTypeOK!1
    BY DEF Init, DoorInit, Closed
  <2>2. servedLate \in BOOLEAN /\ queued \subseteq Rows
    BY DEF Init, DoorInit
  <2> QED
    BY <2>1, <2>2 DEF Init, DoorInit, DoorTypeOK
<1>2. QueueOK
  BY FS_EmptySet DEF Init, QueueOK
<1>3. FlushOK /\ HistoryOK
  BY DEF Init, FlushOK, HistoryOK, Off, NoExcuse
<1> QED
  BY <1>1, <1>2, <1>3, TypeParts

LEMMA TypeNext == TypeOK /\ [Next]_vars => TypeOK'
<1> SUFFICES ASSUME DoorTypeOK, QueueOK, FlushOK, HistoryOK, [Next]_vars
             PROVE  DoorTypeOK' /\ QueueOK' /\ FlushOK' /\ HistoryOK'
  <2>1. TypeOK' <=> DoorTypeOK' /\ QueueOK' /\ FlushOK' /\ HistoryOK'
    BY Zenon DEF TypeOK, QueueOK, FlushOK, HistoryOK
  <2> QED
    BY <2>1, TypeParts
<1> DEFINE Typed == DoorTypeOK /\ QueueOK /\ FlushOK /\ HistoryOK
<1>a. queue \in SUBSET Rows
  BY QueueFinite
<1>1. CASE UNCHANGED vars
  BY <1>1 DEF vars, doorVars, sdkVars, DoorTypeOK, QueueOK, FlushOK, HistoryOK
<1>2. CASE DoorNext /\ UNCHANGED sdkVars
  BY <1>2, DoorTypeNext DEF sdkVars, QueueOK, FlushOK, HistoryOK
<1>3. ASSUME NEW isMoney \in BOOLEAN, Emit(isMoney)
      PROVE  Typed'
  <2>1. QueueOK'
    BY <1>3, EnqueueKeeps DEF Emit
  <2>2. queue' \in SUBSET Rows
    BY <2>1, QueueFinite, FS_CardinalityType DEF QueueOK
  <2>3. FlushOK'
    <3>1. CASE StartBatch(queue')
      BY <2>2, <3>1, BatchStarts
    <3>2. CASE UNCHANGED <<flush, life>>
      BY <3>2 DEF FlushOK
    <3> QED
      BY <1>3, <3>1, <3>2 DEF Emit
  <2>4. DoorTypeOK' /\ HistoryOK'
    BY <1>3 DEF Emit, doorVars, DoorTypeOK, HistoryOK
  <2> QED
    BY <2>1, <2>3, <2>4
<1>4. CASE FlushDue
  BY <1>4, <1>a, BatchStarts DEF FlushDue, doorVars, DoorTypeOK, QueueOK, HistoryOK
<1>5. CASE Wake
  BY <1>5 DEF Wake, doorVars, DoorTypeOK, QueueOK, FlushOK, HistoryOK
<1>6. ASSUME NEW s \in Slots, Send(s)
      PROVE  Typed'
  BY <1>6 DEF Send, bucket, DoorTypeOK, QueueOK, FlushOK, HistoryOK
<1>7. ASSUME NEW s \in Slots, door' \in {door, [door EXCEPT ![s] = Closed]},
             UNCHANGED <<cached, revoked, bucket, queued, servedLate>>,
             trouble' \in 0 .. MaxTrouble
      PROVE  DoorTypeOK'
  BY <1>7 DEF bucket, DoorTypeOK, Closed
<1>8. ASSUME Retry, mine' = None,
             UNCHANGED <<emitted, money, dropped, refused, acked>>
      PROVE  QueueOK' /\ FlushOK' /\ HistoryOK'
  <2>1. QueueOK'
    BY <1>8, QueueShrinks DEF Retry
  <2>2. FlushOK'
    BY <1>8 DEF Retry, Off, FlushOK
  <2>3. HistoryOK'
    BY <1>8 DEF Retry, HistoryOK, FlushOK
  <2> QED
    BY <2>1, <2>2, <2>3
<1>9. ASSUME NEW s \in Slots, Answered(s)
      PROVE  Typed'
  <2>1. DoorTypeOK'
    BY <1>7, <1>9 DEF Answered, DoorTypeOK
  <2>2. CASE Delivered(s)
    <3>1. QueueOK'
      BY <1>9, <2>2, QueueShrinks DEF Answered, Delivered
    <3>2. FlushOK'
      BY <1>a, <2>2, BatchStarts DEF Delivered
    <3>3. HistoryOK'
      BY <1>9, <2>2 DEF Answered, Delivered, HistoryOK, FlushOK
    <3> QED
      BY <2>1, <3>1, <3>2, <3>3
  <2>3. CASE Rejected(s)
    <3>1. QueueOK'
      BY <1>9, <2>3, QueueShrinks DEF Answered, Rejected
    <3>2. FlushOK'
      BY <2>3 DEF Rejected, Off, FlushOK
    <3>3. HistoryOK'
      BY <1>9, <2>3, ZenonT(60) DEF Answered, Rejected, HistoryOK, FlushOK
    <3> QED
      BY <2>1, <3>1, <3>2, <3>3
  <2>4. CASE Retry /\ UNCHANGED acked
    BY <1>8, <1>9, <2>1, <2>4 DEF Answered
  <2> QED
    BY <1>9, <2>2, <2>3, <2>4 DEF Answered
<1>10. ASSUME NEW s \in Slots, Broken(s)
       PROVE  Typed'
  <2>1. DoorTypeOK'
    BY <1>7, <1>10 DEF Broken, DoorTypeOK
  <2> QED
    BY <1>8, <1>10, <2>1 DEF Broken
<1>11. ASSUME NEW s \in Slots, Unheard(s)
       PROVE  Typed'
  <2>1. DoorTypeOK'
    BY <1>7, <1>11 DEF Unheard, DoorTypeOK
  <2> QED
    BY <1>11, <2>1 DEF Unheard, sdkVars, QueueOK, FlushOK, HistoryOK
<1>12. CASE Shutdown
  <2>1. FlushOK'
    BY <1>12, <1>a, PeekType DEF Shutdown, FlushOK
  <2>2. HistoryOK'
    BY <1>12 DEF Shutdown, HistoryOK
  <2> QED
    BY <1>12, <2>1, <2>2 DEF Shutdown, doorVars, DoorTypeOK, QueueOK
<1>13. CASE Exit
  BY <1>13 DEF Exit, Off, doorVars, DoorTypeOK, QueueOK, FlushOK, HistoryOK
<1>14. CASE Others
  BY <1>14, DoorTypeOthers DEF Others, sdkVars, QueueOK, FlushOK, HistoryOK
<1>15. CASE Tick
  <2>1. FlushOK'
    BY <1>15 DEF Tick, FlushOK
  <2> QED
    BY <1>15, <2>1, DoorTypeTick DEF Tick, QueueOK, HistoryOK
<1> QED
  BY <1>1, <1>2, <1>3, <1>4, <1>5, <1>6, <1>9, <1>10, <1>11, <1>12, <1>13, <1>14, <1>15
     DEF Next

\* The queue never holds more than its cap, and the rest has the types of the code.
THEOREM TypeCorrect == Spec => []TypeOK
  BY TypeInit, TypeNext, PTL DEF Spec

-----------------------------------------------------------------------------
(* Revocation.  An entry of the cache that is there when a credential is       *)
(* revoked, or put there by a request that read the credential before, is at   *)
(* least as old as the revocation, for no request spans a unit of time.        *)
RevocationInv ==
    /\ RevocationTakesEffect
    /\ revoked # None =>
        /\ cached = None \/ cached >= revoked
        /\ \A s \in Slots : door[s].pc = "found" => revoked = 0

LEMMA RevocationInit == Init => RevocationInv
  BY DEF Init, DoorInit, RevocationInv, RevocationTakesEffect

LEMMA RevocationNext == TypeOK /\ RevocationInv /\ [Next]_vars => RevocationInv'
<1> SUFFICES ASSUME DoorTypeOK, RevocationInv, [Next]_vars
             PROVE  RevocationInv'
  BY TypeParts
<1> USE DEF RevocationInv, RevocationTakesEffect
<1>0. /\ door \in [Slots -> [pc : {"free", "auth", "found", "shed", "rate", "add", "answered"},
                           ids : SUBSET Rows, status : {0, 200, 401, 429, 500, 503}]]
      /\ cached \in 0 .. CacheTtl \cup {None} /\ revoked \in 0 .. CacheTtl \cup {None}
  BY DEF DoorTypeOK
<1>1. ASSUME UNCHANGED <<cached, revoked, servedLate>>,
             \A s \in Slots : door'[s].pc = "found" => door[s].pc = "found"
      PROVE  RevocationInv'
  BY <1>1
<1>2. CASE UNCHANGED vars
  BY <1>1, <1>2 DEF vars, doorVars
<1>3. ASSUME NEW s \in Slots, CacheHit(s)
      PROVE  RevocationInv'
  <2>1. revoked # CacheTtl
    BY <1>0, <1>3 DEF CacheHit, Fresh
  <2>2. UNCHANGED <<cached, revoked>> /\ servedLate' = FALSE
    BY <1>3, <2>1 DEF CacheHit, Serve
  <2>3. \A t \in Slots : door'[t].pc = "found" => door[t].pc = "found"
    BY <1>0, <1>3 DEF CacheHit, Goto
  <2> QED
    BY <2>2, <2>3
<1>4. ASSUME NEW s \in Slots, Lookup(s)
      PROVE  RevocationInv'
  <2>1. CASE revoked = None
    BY <1>0, <1>4, <2>1 DEF Lookup
  <2>2. CASE revoked # None
    BY <1>0, <1>1, <1>4, <2>2 DEF Lookup, Answer
  <2> QED
    BY <2>1, <2>2
<1>5. ASSUME NEW s \in Slots, Remember(s)
      PROVE  RevocationInv'
  <2>1. revoked = None \/ revoked = 0
    BY <1>5 DEF Remember
  <2>2. cached' = 0 /\ UNCHANGED revoked /\ servedLate' = FALSE
    BY <1>5, <2>1 DEF Remember, Serve
  <2> QED
    BY <2>1, <2>2
<1>6. ASSUME NEW s \in Slots, Shed(s) \/ Admit(s) \/ Add(s) \/ AddFails(s)
      PROVE  RevocationInv'
  <2>1. UNCHANGED <<cached, revoked, servedLate>>
    BY <1>6 DEF Shed, Admit, Add, AddFails
  <2>2. \/ \E step \in {"rate", "add"} : door' = [door EXCEPT ![s].pc = step]
        \/ \E status \in {200, 429, 500, 503} :
              door' = [door EXCEPT ![s].pc = "answered", ![s].status = status]
    <3>1. CASE Admit(s)
      BY <3>1 DEF Admit, Goto, Answer
    <3>2. CASE Shed(s) \/ Add(s) \/ AddFails(s)
      BY <3>2 DEF Shed, Add, AddFails, Goto, Answer
    <3> QED
      BY <1>6, <3>1, <3>2
  <2>3. \A t \in Slots : door'[t].pc = "found" => door[t].pc = "found"
    BY <1>0, <2>2
  <2> QED
    BY <1>1, <2>1, <2>3
<1>7. CASE Revoke
  BY <1>0, <1>7 DEF Revoke
<1>8. CASE DoorTick
  <2>1. \A s \in Slots : door'[s].pc # "found"
    BY <1>8 DEF DoorTick, Busy
  <2>2. cached' = Older(cached, CacheTtl) /\ revoked' = Older(revoked, CacheTtl)
        /\ UNCHANGED servedLate
    BY <1>8 DEF DoorTick
  <2>3. CASE revoked = None
    BY <1>0, <2>2, <2>3, OlderType
  <2>4. CASE revoked # None /\ cached = None
    BY <1>0, <2>1, <2>2, <2>4, OlderType
  <2>5. CASE revoked # None /\ cached # None
    <3>1. cached' = IF cached < CacheTtl THEN cached + 1 ELSE CacheTtl
      BY <1>0, <2>2, <2>5, OlderType
    <3>2. revoked' = IF revoked < CacheTtl THEN revoked + 1 ELSE CacheTtl
      BY <1>0, <2>2, <2>5, OlderType
    <3>3. cached' >= revoked'
      BY <1>0, <2>5, <3>1, <3>2
    <3> QED
      BY <2>1, <2>2, <3>3
  <2> QED
    BY <2>3, <2>4, <2>5
<1>9. CASE OthersDraw
  BY <1>1, <1>9 DEF OthersDraw
<1>10. ASSUME NEW s \in Slots,
              \/ door' \in {door, [door EXCEPT ![s] = Closed]}
              \/ door' = [door EXCEPT ![s] =
                            [pc |-> "auth", ids |-> flush.batch, status |-> 0]],
              UNCHANGED <<cached, revoked, servedLate>>
       PROVE  RevocationInv'
  BY <1>0, <1>1, <1>10 DEF Closed
<1>11. ASSUME NEW s \in Slots, Send(s) \/ Answered(s) \/ Broken(s) \/ Unheard(s)
       PROVE  RevocationInv'
  BY <1>10, <1>11 DEF Send, Answered, Broken, Unheard
<1>12. ASSUME UNCHANGED doorVars
       PROVE  RevocationInv'
  BY <1>1, <1>12 DEF doorVars
<1>13. CASE DoorNext
  BY <1>3, <1>4, <1>5, <1>6, <1>7, <1>13 DEF DoorNext
<1> QED
  BY <1>2, <1>8, <1>9, <1>11, <1>12, <1>13
     DEF Next, Emit, FlushDue, Wake, Shutdown, Exit, Others, Tick

\* A credential stops working within one lifetime of the cache after it was revoked,
\* whatever requests were between the cache and Postgres at that moment.
THEOREM RevocationCorrect == Spec => []RevocationTakesEffect
<1>1. Spec => []RevocationInv
  BY TypeCorrect, TypeInit, TypeNext, RevocationInit, RevocationNext, PTL DEF Spec
<1> QED
  BY <1>1, PTL DEF RevocationInv

-----------------------------------------------------------------------------
(* Acknowledgements.  The answer the flush waits for is that of a request with *)
(* its own batch, also after answers were lost and retried, and a 200 is given *)
(* to a request whose events are in a job.                                     *)
RequestInv ==
    /\ AckedIsQueued
    /\ mine # None => flush.pc = "wait" /\ door[mine].ids = flush.batch
    /\ life = "gone" => mine = None /\ flush.pc = "off"
    /\ \A s \in Slots : door[s].pc = "answered" /\ door[s].status = 200 => door[s].ids \subseteq queued

LEMMA RequestInit == Init => RequestInv
  BY DEF Init, DoorInit, RequestInv, AckedIsQueued, Off, Closed

LEMMA RequestNext == TypeOK /\ RequestInv /\ [Next]_vars => RequestInv'
<1> SUFFICES ASSUME DoorTypeOK, FlushOK, HistoryOK, RequestInv, [Next]_vars
             PROVE  RequestInv'
  BY TypeParts
<1> USE DEF RequestInv, AckedIsQueued
<1>0. /\ door \in [Slots -> [pc : {"free", "auth", "found", "shed", "rate", "add", "answered"},
                           ids : SUBSET Rows, status : {0, 200, 401, 429, 500, 503}]]
      /\ flush \in [pc : {"off", "send", "wait", "sleep"}, batch : SUBSET Rows,
                    elapsed : 0 .. Budget]
      /\ mine \in Slots \cup {None}
  BY DEF DoorTypeOK, FlushOK, HistoryOK
<1>1. CASE UNCHANGED vars
  BY <1>1 DEF vars, doorVars, sdkVars
<1>2. ASSUME NEW s \in Slots, UNCHANGED sdkVars, queued \subseteq queued',
             \A t \in Slots : door'[t].ids = door[t].ids,
             \A t \in Slots \ {s} : door'[t] = door[t],
             door'[s].pc = "answered" /\ door'[s].status = 200 => door[s].ids \subseteq queued'
      PROVE  RequestInv'
  <2>1. UNCHANGED <<mine, flush, life, acked>>
    BY <1>2 DEF sdkVars
  <2> QED
    BY <1>0, <1>2, <2>1
<1>3. ASSUME NEW s \in Slots, UNCHANGED sdkVars,
             CacheHit(s) \/ Lookup(s) \/ Remember(s) \/ Shed(s) \/ Admit(s) \/ Add(s) \/ AddFails(s)
      PROVE  RequestInv'
  <2>1. CASE CacheHit(s) \/ Lookup(s) \/ Remember(s)
    BY <1>0, <1>2, <1>3, <2>1 DEF CacheHit, Lookup, Remember, Goto, Answer
  <2>2. CASE Shed(s)
    BY <1>0, <1>2, <1>3, <2>2 DEF Shed, Goto, Answer
  <2>3. CASE Admit(s)
    BY <1>0, <1>2, <1>3, <2>3 DEF Admit, Goto, Answer
  <2>4. CASE Add(s)
    <3>1. queued \subseteq queued' /\ door[s].ids \subseteq queued'
      BY <2>4 DEF Add
    <3>2. /\ \A t \in Slots : door'[t].ids = door[t].ids
          /\ \A t \in Slots \ {s} : door'[t] = door[t]
      BY <1>0, <2>4 DEF Add, Answer
    <3> QED
      BY <1>2, <1>3, <3>1, <3>2
  <2>5. CASE AddFails(s)
    <3>1. queued \subseteq queued' /\ door' = [door EXCEPT ![s].pc = "answered", ![s].status = 500]
      BY <2>5 DEF AddFails, Answer
    <3>2. /\ \A t \in Slots : door'[t].ids = door[t].ids
          /\ \A t \in Slots \ {s} : door'[t] = door[t]
          /\ door'[s].status # 200
      BY <1>0, <3>1
    <3> QED
      BY <1>2, <1>3, <3>1, <3>2
  <2> QED
    BY <1>3, <2>1, <2>2, <2>3, <2>4, <2>5
<1>4. CASE Revoke /\ UNCHANGED sdkVars
  BY <1>4 DEF Revoke, sdkVars
<1>5. CASE Others
  BY <1>5 DEF Others, OthersDraw, sdkVars
<1>6. CASE Tick
  BY <1>0, <1>6 DEF Tick, DoorTick
<1>7. ASSUME NEW q, StartBatch(q), life # "gone", flush.pc = "off" \/ mine' = None,
             UNCHANGED <<queued, door, acked, mine>>
      PROVE  RequestInv'
  BY <1>7 DEF StartBatch, Off
<1>8. ASSUME NEW isMoney \in BOOLEAN, Emit(isMoney)
      PROVE  RequestInv'
  BY <1>7, <1>8 DEF Emit, doorVars
<1>9. CASE FlushDue
  BY <1>7, <1>9 DEF FlushDue, doorVars
<1>10. CASE Wake \/ Shutdown \/ Exit
  BY <1>10 DEF Wake, Shutdown, Exit, Off, doorVars
<1>11. ASSUME NEW s \in Slots, Send(s)
       PROVE  RequestInv'
  <2>1. /\ mine = None /\ mine' = s /\ life' # "gone"
        /\ flush'.pc = "wait" /\ flush'.batch = flush.batch
    BY <1>0, <1>11 DEF Send
  <2>2. /\ door'[s].ids = flush.batch /\ door'[s].pc = "auth"
        /\ \A t \in Slots \ {s} : door'[t] = door[t]
    BY <1>0, <1>11 DEF Send
  <2>3. UNCHANGED <<queued, acked>>
    BY <1>11 DEF Send
  <2> QED
    BY <2>1, <2>2, <2>3
<1>12. ASSUME NEW s \in Slots, door' \in {door, [door EXCEPT ![s] = Closed]}, UNCHANGED queued,
              acked' \subseteq queued,
              life' = "gone" => life = "gone" /\ UNCHANGED flush,
              \/ mine' = None
              \/ mine' = mine /\ mine # s /\ UNCHANGED flush
       PROVE  RequestInv'
  <2>1. \A t \in Slots : door'[t] = door[t] \/ (t = s /\ door'[t].pc = "free")
    BY <1>0, <1>12 DEF Closed
  <2>2. mine' # None => door'[mine'] = door[mine]
    BY <1>0, <1>12
  <2> QED
    BY <1>0, <1>12, <2>1, <2>2
<1>13. ASSUME NEW s \in Slots, Answered(s)
       PROVE  RequestInv'
  <2>1. flush.batch = door[s].ids
    BY <1>13 DEF Answered, DoorAssumption
  <2>2. acked' \subseteq queued
    BY <1>13, <2>1 DEF Answered, Delivered, Rejected
  <2>3. life' # "gone"
    BY <1>13 DEF Answered, Delivered, StartBatch, Rejected, Retry
  <2> QED
    BY <1>12, <1>13, <2>2, <2>3 DEF Answered
<1>14. ASSUME NEW s \in Slots, Broken(s)
       PROVE  RequestInv'
  <2>1. life' # "gone"
    BY <1>14 DEF Broken, Retry
  <2> QED
    BY <1>12, <1>14, <2>1 DEF Broken
<1>15. ASSUME NEW s \in Slots, Unheard(s)
       PROVE  RequestInv'
  <2>1. mine = None \/ mine # s
    BY <1>15 DEF Unheard
  <2> QED
    BY <1>12, <1>15, <2>1 DEF Unheard, sdkVars
<1> QED
  BY <1>1, <1>3, <1>4, <1>5, <1>6, <1>8, <1>9, <1>10, <1>11, <1>13, <1>14, <1>15
     DEF Next, DoorNext

\* A row leaves the backend as delivered only if a job of the ingest queue carries it.
THEOREM AckedCorrect == Spec => []AckedIsQueued
<1>1. Spec => []RequestInv
  BY TypeCorrect, RequestInit, RequestNext, PTL DEF Spec
<1> QED
  BY <1>1, PTL DEF RequestInv

-----------------------------------------------------------------------------
(* Verified purchases, and shutdown *)

LEMMA MoneyNext == TypeOK /\ MoneyAnswered /\ [Next]_vars => MoneyAnswered'
<1> SUFFICES ASSUME QueueOK, MoneyAnswered, [Next]_vars PROVE MoneyAnswered'
  BY TypeParts
<1> USE DEF MoneyAnswered
<1>1. CASE UNCHANGED vars
  BY <1>1 DEF vars, sdkVars
<1>2. ASSUME UNCHANGED <<queue, acked, reported, refused, money>>
      PROVE  MoneyAnswered'
  BY <1>2
<1>3. ASSUME NEW isMoney \in BOOLEAN, Emit(isMoney)
      PROVE  MoneyAnswered'
  <2> DEFINE e == emitted + 1
  <2>1. /\ e \in Rows /\ Enqueue(e, isMoney) /\ emitted' = e
        /\ money' = (IF isMoney THEN money \cup {e} ELSE money)
        /\ UNCHANGED <<acked, reported>>
    BY <1>3 DEF Emit
  <2>2. /\ money' \cap queue \subseteq queue' /\ refused \subseteq refused'
        /\ isMoney => e \in queue' \cup refused'
    BY <2>1, EnqueueKeeps
  <2> QED
    BY <2>1, <2>2
<1>4. ASSUME Retry, UNCHANGED <<money, refused, acked>>
      PROVE  MoneyAnswered'
  BY <1>4 DEF Retry
<1>5. ASSUME NEW s \in Slots, Answered(s)
      PROVE  MoneyAnswered'
  BY <1>4, <1>5 DEF Answered, Delivered, Rejected
<1>6. ASSUME NEW s \in Slots, Broken(s)
      PROVE  MoneyAnswered'
  BY <1>4, <1>6 DEF Broken
<1> QED
  BY <1>1, <1>2, <1>3, <1>5, <1>6
     DEF Next, FlushDue, Wake, Send, Unheard, Shutdown, Exit, Others, Tick, sdkVars

\* Eviction, a retry budget that runs out, a rejected key: a verified purchase ends
\* delivered, reported or refused to the caller's face, or it still waits.
THEOREM MoneyCorrect == Spec => []MoneyAnswered
<1>1. Init => MoneyAnswered
  BY DEF Init, MoneyAnswered
<1> QED
  BY <1>1, TypeCorrect, MoneyNext, PTL DEF Spec

LEMMA NothingToPeek ==
    ASSUME NEW q \in SUBSET Rows, Peek(q) = {}
    PROVE  q = {}
<1> SUFFICES ASSUME q # {} PROVE FALSE
  OBVIOUS
<1>1. q \in SUBSET Nat
  BY FS_CardinalityType
<1>2. PICK n \in q : \A m \in q : n =< m
  BY <1>1, LeastOf
<1>3. \A f \in q : ~(f < n)
  BY <1>1, <1>2
<1>4. {f \in q : f < n} = {}
  BY <1>3, Zenon
<1>5. Cardinality({f \in q : f < n}) = 0
  BY <1>4, FS_EmptySet, Zenon
<1>6. Cardinality({f \in q : f < n}) < BatchMax
  BY <1>5
<1>7. n \in Peek(q)
  BY <1>6, Zenon DEF Peek
<1> QED
  BY <1>7

LEMMA DrainNext == TypeOK /\ ShutdownDrains /\ [Next]_vars => ShutdownDrains'
<1> SUFFICES ASSUME QueueOK, HistoryOK, ShutdownDrains, [Next]_vars, life' = "closed"
             PROVE  queue' = {} \/ excuse'.joined \/ excuse'.failed
  BY TypeParts DEF ShutdownDrains
<1> USE DEF ShutdownDrains
<1>0. excuse \in [joined : BOOLEAN, failed : BOOLEAN]
  BY DEF HistoryOK
<1>1. CASE UNCHANGED <<life, queue, excuse>>
  BY <1>1
<1>2. ASSUME NEW q \in SUBSET Rows, StartBatch(q), life # "closed"
      PROVE  q = {}
  BY <1>2, NothingToPeek DEF StartBatch
<1>a. queue \in SUBSET Rows
  BY QueueFinite
<1>3. ASSUME NEW isMoney \in BOOLEAN, Emit(isMoney)
      PROVE  queue' = {}
  <2>1. life \in {"up", "closing"} /\ StartBatch(queue')
    BY <1>3 DEF Emit
  <2>2. QueueOK'
    BY <1>3, EnqueueKeeps DEF Emit
  <2>3. queue' \in SUBSET Rows
    BY <2>2, FS_CardinalityType DEF QueueOK
  <2> QED
    BY <1>2, <2>1, <2>3
<1>4. CASE FlushDue
  BY <1>2, <1>4, <1>a DEF FlushDue
<1>5. ASSUME Retry
      PROVE  queue' = {} \/ excuse'.joined \/ excuse'.failed
  BY <1>0, <1>5 DEF Retry
<1>6. ASSUME NEW s \in Slots, Answered(s)
      PROVE  queue' = {} \/ excuse'.joined \/ excuse'.failed
  <2>1. CASE Delivered(s)
    <3>1. queue' \in SUBSET queue /\ StartBatch(queue') /\ UNCHANGED excuse
      BY <2>1 DEF Delivered
    <3> QED
      BY <1>2, <1>a, <1>6, <3>1 DEF Answered
  <2>2. CASE Rejected(s)
    BY <1>0, <2>2 DEF Rejected
  <2> QED
    BY <1>5, <1>6, <2>1, <2>2 DEF Answered
<1>7. ASSUME NEW s \in Slots, Broken(s)
      PROVE  queue' = {} \/ excuse'.joined \/ excuse'.failed
  BY <1>5, <1>7 DEF Broken
<1>8. CASE Shutdown
  BY <1>0, <1>8 DEF Shutdown
<1>9. CASE Exit
  BY <1>9 DEF Exit
<1> QED
  BY <1>1, <1>3, <1>4, <1>6, <1>7, <1>8, <1>9
     DEF Next, Wake, Send, Unheard, Others, Tick, sdkVars, vars

\* Rows are left at the exit only by a shutdown that met a running flush, or one whose
\* own flush gave up a batch.
THEOREM ShutdownCorrect == Spec => []ShutdownDrains
<1>1. Init => ShutdownDrains
  BY DEF Init, ShutdownDrains
<1> QED
  BY <1>1, TypeCorrect, DrainNext, PTL DEF Spec
=============================================================================
