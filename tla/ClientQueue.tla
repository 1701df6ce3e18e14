---------------------------- MODULE ClientQueue -----------------------------
(***************************************************************************)
(* The persistent queue and the transport of the browser SDK, through      *)
(* kills and restarts of the page, in front of the server's windowed       *)
(* dedup.                                                                  *)
(*                                                                         *)
(* The code runs on one thread and is cut only at an await: an action is   *)
(* the code from one await to the next.  A storage write takes effect      *)
(* where it is issued, because IndexedDB runs the transactions on a store  *)
(* in the order they were created.  A push into IndexedDB counts, evicts   *)
(* and puts in awaits of their own; localStorage and memory do it at once. *)
(*                                                                         *)
(* The clock is coarse: no storage call and no request lasts as long as a  *)
(* unit of it.  The byte limits of a batch appear as a free choice of its  *)
(* length, backoff as the free choice of when a flush starts.              *)
(***************************************************************************)
EXTENDS Integers, FiniteSetsExt, Functions

CONSTANTS
    Events,        \* envelopes the game and the session tracker enqueue
    Money,         \* those with money = TRUE, exempt from the TTL
    None,          \* nothing being pushed, no request
    Cap,           \* offline_queue_max_events
    BatchMax,      \* batch_max_events
    Ttl,           \* event_ttl_ms, in units
    Window,        \* how long the server remembers an event id, in units
    Backends,      \* storages the platform may offer
    MaxTime,       \* bound: the clock
    MaxKills,      \* bound: kills of the page
    MaxFailures    \* bound: lost answers, refusals and failed writes

ASSUME ConstantsAssumption ==
    /\ Money \subseteq Events
    /\ Cap \in Nat \ {0} /\ BatchMax \in Nat \ {0}
    /\ Ttl \in Nat /\ Window \in Nat /\ Ttl <= Window
    /\ Backends \subseteq {"indexeddb", "localstorage", "memory"}
    /\ MaxTime \in Nat /\ MaxKills \in Nat /\ MaxFailures \in Nat

Rows == [id : Events, at : 0 .. MaxTime]
Empty == [s \in {} |-> None]

VARIABLES
    backend,    \* the storage createStorage settled on
    queue,      \* storage: rows by sequence number
    up,         \* the page runs
    nextSeq,    \* memory: the adapter's next sequence number
    pc, row, over, victims,   \* memory: where each enqueue is, and its locals
    paused,     \* memory: transport stopped by a 401 or 403
    fpc, batch, req,          \* memory: where flush is, its rows, its request
    stray,      \* requests on the wire that nobody waits for
    now,        \* clock
    first,      \* server: when it took an id, while the marker lives
    counted,    \* history: how often an id was counted as new
    dropped,    \* history: ids the client gave up
    stale,      \* history: ids a beacon carried past their TTL
    kills, failures

storage == <<backend, queue>>
pushers == <<pc, row, over, victims>>
flusher == <<paused, fpc, batch, req>>
server  == <<first, counted>>
history == <<dropped, stale, kills, failures>>
vars == <<storage, up, nextSeq, pushers, flusher, stray, now, server, history>>

Ids(q) == {q[s].id : s \in DOMAIN q}
Oldest(q, n) == {s \in DOMAIN q : Cardinality({t \in DOMAIN q : t < s}) < n}
Without(q, ss) == Restrict(q, DOMAIN q \ ss)
With(q, s, r) == [t \in DOMAIN q \cup {s} |-> IF t = s THEN r ELSE q[t]]

\* Mutated form of RecoveredSeq: the rows that survived are not looked at.
FirstSeq(q) == 1

\* The sequence number an adapter starts from: above every surviving row.
RecoveredSeq(q) == Max(DOMAIN q \cup {0}) + 1

Init ==
    /\ backend \in Backends
    /\ queue = Empty /\ up = TRUE /\ nextSeq = 1
    /\ pc = [e \in Events |-> "idle"] /\ row = [e \in Events |-> None]
    /\ over = [e \in Events |-> 0] /\ victims = [e \in Events |-> {}]
    /\ paused = FALSE /\ fpc = "off" /\ batch = Empty /\ req = None
    /\ stray = {} /\ now = 0 /\ first = Empty
    /\ counted = [e \in Events |-> 0]
    /\ dropped = {} /\ stale = {} /\ kills = 0 /\ failures = 0

-----------------------------------------------------------------------------
(* enqueue *)

Pushing == {e \in Events : pc[e] \in {"peek", "evict", "put"}}

\* IndexedDB: the call to its first await reads the size.
BeginPush(e) ==
    /\ backend = "indexeddb" /\ up /\ pc[e] = "idle"
    /\ row' = [row EXCEPT ![e] = [id |-> e, at |-> now]]
    /\ over' = [over EXCEPT ![e] = Max({0, Cardinality(DOMAIN queue) + 1 - Cap})]
    /\ pc' = [pc EXCEPT ![e] = IF over'[e] > 0 THEN "peek" ELSE "put"]
    /\ UNCHANGED <<storage, up, nextSeq, victims, flusher, stray, now, server, dropped, stale,
                   kills, failures>>

PushPeek(e) ==
    /\ pc[e] = "peek"
    /\ victims' = [victims EXCEPT ![e] = Oldest(queue, over[e])]
    /\ pc' = [pc EXCEPT ![e] = "evict"]
    /\ UNCHANGED <<storage, up, nextSeq, row, over, flusher, stray, now, server, history>>

\* What it means to evict is long gone may be: a flush can have removed it.
PushEvict(e) ==
    /\ pc[e] = "evict"
    /\ queue' = Without(queue, victims[e])
    /\ dropped' = dropped \cup Ids(Restrict(queue, victims[e] \cap DOMAIN queue))
    /\ victims' = [victims EXCEPT ![e] = {}]
    /\ over' = [over EXCEPT ![e] = 0]
    /\ pc' = [pc EXCEPT ![e] = "put"]
    /\ UNCHANGED <<backend, up, nextSeq, row, flusher, stray, now, server, stale, kills,
                   failures>>

PushPut(e) ==
    /\ pc[e] = "put"
    /\ queue' = With(queue, nextSeq, row[e])
    /\ nextSeq' = nextSeq + 1
    /\ row' = [row EXCEPT ![e] = None]
    /\ pc' = [pc EXCEPT ![e] = "done"]
    /\ UNCHANGED <<backend, up, over, victims, flusher, stray, now, server, history>>

\* The transaction fails: the row is lost and the oldest one goes with it.
PushFails(e) ==
    /\ pc[e] = "put" /\ failures < MaxFailures
    /\ queue' = Without(queue, Oldest(queue, 1))
    /\ nextSeq' = nextSeq + 1
    /\ dropped' = dropped \cup {e} \cup Ids(Restrict(queue, Oldest(queue, 1)))
    /\ failures' = failures + 1
    /\ row' = [row EXCEPT ![e] = None]
    /\ pc' = [pc EXCEPT ![e] = "done"]
    /\ UNCHANGED <<backend, up, over, victims, flusher, stray, now, server, stale, kills>>

\* localStorage and memory push at once.  A full localStorage gives up the oldest
\* rows until the write fits, the new one last.
PushAtOnce(e) ==
    /\ backend # "indexeddb" /\ up /\ pc[e] = "idle"
    /\ \E full \in 0 .. IF backend = "localstorage" /\ failures < MaxFailures
                          THEN Cardinality(DOMAIN queue) + 1 ELSE 0 :
         LET room == Without(queue, Oldest(queue, Cardinality(DOMAIN queue) + 1 - Cap))
             all == With(room, nextSeq, [id |-> e, at |-> now])
         IN  /\ queue' = Without(all, Oldest(all, full))
             /\ dropped' = dropped \cup ((Ids(queue) \cup {e}) \ Ids(queue'))
             /\ failures' = IF full > 0 THEN failures + 1 ELSE failures
    /\ nextSeq' = nextSeq + 1
    /\ pc' = [pc EXCEPT ![e] = "done"]
    /\ UNCHANGED <<backend, up, row, over, victims, flusher, stray, now, server, stale, kills>>

-----------------------------------------------------------------------------
(* Transport *)

\* Mutated form of Expired: the age is compared with a unit too many.
ExpiredLate(r) == r.id \notin Money /\ r.at < now - Ttl - 1

Expired(r) == r.id \notin Money /\ r.at < now - Ttl

\* One turn of flush's loop: read the oldest rows, drop those past their TTL.
FlushPeek ==
    /\ up /\ ~paused /\ fpc \in {"off", "loop"}
    /\ LET rows == Restrict(queue, Oldest(queue, 4 * BatchMax))
           old == {s \in DOMAIN rows : Expired(rows[s])}
       IN  /\ fpc = "loop" \/ DOMAIN rows # {}
           /\ queue' = Without(queue, old)
           /\ dropped' = dropped \cup Ids(Restrict(rows, old))
           /\ batch' = Without(rows, old)
           /\ fpc' = IF DOMAIN rows = {} THEN "off"
                     ELSE IF DOMAIN rows = old THEN "loop" ELSE "send"
    /\ UNCHANGED <<backend, up, nextSeq, pushers, paused, req, stray, now, server, stale,
                   kills, failures>>

\* takeByteBounded keeps a prefix of at least one row.
FlushSend ==
    /\ fpc = "send"
    /\ \E n \in 1 .. Min({BatchMax, Cardinality(DOMAIN batch)}) :
         batch' = Restrict(batch, Oldest(batch, n))
    /\ req' = [ids |-> Ids(batch'), answer |-> "none"]
    /\ fpc' = "wait"
    /\ UNCHANGED <<storage, up, nextSeq, pushers, paused, stray, now, server, history>>

\* Mutated form of FlushAnswer: a refused batch stays in flight.
FlushAnswerStuck ==
    /\ fpc = "wait" /\ req.answer = "ok"
    /\ queue' = Without(queue, DOMAIN batch)
    /\ fpc' = "loop" /\ batch' = Empty /\ req' = None
    /\ UNCHANGED <<backend, up, nextSeq, pushers, paused, stray, now, server, history>>

\* 2xx and other 4xx remove the rows; 429, 5xx, 401 and 403 keep them.  The
\* removal is best effort: one that fails leaves the rows to be sent again.
FlushAnswer ==
    /\ fpc = "wait" /\ req.answer # "none"
    /\ LET sent == DOMAIN batch \cap DOMAIN queue
           final == req.answer \in {"ok", "bad"}
           gone == IF final THEN sent ELSE {}
       IN  \/ /\ queue' = Without(queue, gone)
              /\ dropped' = IF req.answer = "bad" THEN dropped \cup Ids(Restrict(queue, sent))
                                                  ELSE dropped
              /\ UNCHANGED failures
           \/ /\ final /\ backend # "memory" /\ failures < MaxFailures
              /\ failures' = failures + 1
              /\ UNCHANGED <<queue, dropped>>
    /\ paused' = (req.answer = "auth")
    /\ fpc' = IF req.answer = "ok" THEN "loop" ELSE "off"
    /\ batch' = Empty /\ req' = None
    /\ UNCHANGED <<backend, up, nextSeq, pushers, stray, now, server, stale, kills>>

\* fetch rejects; the request may still be on its way.
FlushLost ==
    /\ fpc = "wait" /\ failures < MaxFailures
    /\ failures' = failures + 1
    /\ stray' = IF req.answer = "none" THEN stray \cup {req.ids} ELSE stray
    /\ fpc' = "off" /\ batch' = Empty /\ req' = None
    /\ UNCHANGED <<storage, up, nextSeq, pushers, paused, now, server, dropped, stale, kills>>

\* unloadFlush, at a close of the page or while it is hidden: a tail of the
\* oldest rows as they stand, with nobody waiting for the answer and nothing
\* removed.
Unload ==
    /\ up /\ DOMAIN queue # {}
    /\ \E n \in 0 .. Cardinality(Oldest(queue, 8 * BatchMax)) - 1 :
         LET tail == [s \in Oldest(queue, 8 * BatchMax) \ Oldest(queue, n) |-> queue[s]]
         IN  /\ stray' = stray \cup {Ids(tail)}
             /\ stale' = stale \cup {tail[s].id : s \in {t \in DOMAIN tail : Expired(tail[t])}}
    /\ stray' # stray
    /\ UNCHANGED <<storage, up, nextSeq, pushers, flusher, now, server, dropped,
                   kills, failures>>

-----------------------------------------------------------------------------
(* The server, the clock and the page's life *)

\* The endpoint answers 2xx once the batch is queued; the workers count an id
\* unless a marker of it is alive.
Counts(ids) ==
    LET new == {e \in ids : e \notin DOMAIN first \/ now > first[e] + Window}
    IN  /\ counted' = [e \in Events |-> IF e \in new THEN counted[e] + 1 ELSE counted[e]]
        /\ first' = [e \in DOMAIN first \cup ids |-> IF e \in new THEN now ELSE first[e]]

Serve ==
    /\ fpc = "wait" /\ req.answer = "none"
    /\ Counts(req.ids)
    /\ req' = [req EXCEPT !.answer = "ok"]
    /\ UNCHANGED <<storage, up, nextSeq, pushers, paused, fpc, batch, stray, now, history>>

Refuse ==
    /\ fpc = "wait" /\ req.answer = "none" /\ failures < MaxFailures
    /\ \E a \in {"retry", "auth", "bad"} : req' = [req EXCEPT !.answer = a]
    /\ failures' = failures + 1
    /\ UNCHANGED <<storage, up, nextSeq, pushers, paused, fpc, batch, stray, now, server,
                   dropped, stale, kills>>

\* A request nobody waits for arrives or is lost.
StrayArrives ==
    /\ \E ids \in stray : stray' = stray \ {ids} /\ (Counts(ids) \/ UNCHANGED server)
    /\ UNCHANGED <<storage, up, nextSeq, pushers, flusher, now, history>>

Quiet == stray = {} /\ fpc = "off" /\ Pushing = {}

Tick ==
    /\ now < MaxTime /\ Quiet
    /\ now' = now + 1
    /\ UNCHANGED <<storage, up, nextSeq, pushers, flusher, stray, server, history>>

\* The page goes: memory is lost, a request on the wire may still arrive.
Kill ==
    /\ up /\ kills < MaxKills
    /\ kills' = kills + 1
    /\ up' = FALSE
    /\ queue' = IF backend = "memory" THEN Empty ELSE queue
    /\ dropped' = dropped \cup (Ids(queue) \ Ids(queue'))
    /\ pc' = [e \in Events |-> IF pc[e] = "idle" THEN "idle" ELSE "done"]
    /\ row' = [e \in Events |-> None] /\ over' = [e \in Events |-> 0]
    /\ victims' = [e \in Events |-> {}]
    /\ stray' = IF req # None /\ req.answer = "none" THEN stray \cup {req.ids} ELSE stray
    /\ paused' = FALSE /\ fpc' = "off" /\ batch' = Empty /\ req' = None
    /\ UNCHANGED <<backend, nextSeq, now, server, stale, failures>>

Start ==
    /\ ~up
    /\ up' = TRUE
    /\ nextSeq' = RecoveredSeq(queue)
    /\ UNCHANGED <<storage, pushers, flusher, stray, now, server, history>>

FlushStep == FlushPeek \/ FlushSend \/ FlushAnswer

Next ==
    \/ \E e \in Events : \/ BeginPush(e)
                         \/ PushPeek(e)
                         \/ PushEvict(e)
                         \/ PushPut(e)
                         \/ PushFails(e)
                         \/ PushAtOnce(e)
    \/ FlushStep \/ FlushLost \/ Unload
    \/ Serve \/ Refuse \/ StrayArrives
    \/ Tick \/ Kill \/ Start

\* Awaits come back, the timer starts a flush again, a request is answered.  No one
\* has to enqueue, kill or open the page, and no call has to fail.
Fairness ==
    /\ \A e \in Events : WF_vars(PushPeek(e) \/ PushEvict(e) \/ PushPut(e))
    /\ WF_vars(FlushStep) /\ WF_vars(Serve) /\ WF_vars(StrayArrives)

Spec == Init /\ [][Next]_vars /\ Fairness

-----------------------------------------------------------------------------
(* Properties *)

\* Every variable keeps its type.
TypeOK ==
    /\ backend \in Backends
    /\ queue \in [DOMAIN queue -> Rows] /\ DOMAIN queue \subseteq 1 .. nextSeq - 1
    /\ up \in BOOLEAN /\ nextSeq \in Nat /\ paused \in BOOLEAN
    /\ pc \in [Events -> {"idle", "peek", "evict", "put", "done"}]
    /\ row \in [Events -> Rows \cup {None}]
    /\ over \in [Events -> Nat] /\ victims \in [Events -> SUBSET Nat]
    /\ fpc \in {"off", "loop", "send", "wait"} /\ batch \in [DOMAIN batch -> Rows]
    /\ req = None \/ req \in [ids : SUBSET Events,
                              answer : {"none", "ok", "retry", "auth", "bad"}]
    /\ stray \subseteq SUBSET Events /\ now \in 0 .. MaxTime
    /\ first \in [DOMAIN first -> 0 .. MaxTime] /\ DOMAIN first \subseteq Events
    /\ counted \in [Events -> Nat]

\* Refinement: the ids in the queue, those the server took, those given up.
Handoff == INSTANCE EventHandoff
    WITH Messages <- Events, held <- Ids(queue), taken <- DOMAIN first,
         givenUp <- dropped

\* An event leaves the queue by an answer, an overflow, its age or a refusal and by
\* nothing else, across kills and the sequence numbers a restart recovers.
ImplementsHandoff == Handoff!Spec

\* transport.ts relies on the server's windowed dedup to absorb what is sent twice.
\* It does, unless a beacon carries an event past its TTL.
DuplicatesAbsorbed == \A e \in Events \ Money : counted[e] > 1 => e \in stale

\* What is queued leaves the queue, unless the key is refused or the page goes.
QueueDrains ==
    \A e \in Events : (e \in Ids(queue) /\ up) ~> (e \notin Ids(queue) \/ paused \/ ~up)
=============================================================================
