----------------------------- MODULE ServerSdk ------------------------------
(***************************************************************************)
(* The server SDK of a game's backend in front of the ingest door: the     *)
(* money-aware outbound queue, the flush loop with its retry budget, and   *)
(* shutdown.                                                               *)
(*                                                                         *)
(* The events of the backend are numbered as it emits them, and a number   *)
(* stands for the event's row: the lowest is the oldest.  A flush is in    *)
(* one of four places: "send" (a POST is about to go), "wait" (for the     *)
(* answer), "sleep" (backing off), or "off".  The answer, the removal of   *)
(* the batch and the peek of the next one are one step, with no await      *)
(* between them.                                                           *)
(***************************************************************************)
EXTENDS FrontDoor

CONSTANTS
    Cap,        \* queue_max_events
    BatchMax,   \* batch_max_events
    Budget,     \* retry_max_elapsed_ms, in units
    FlushOnPurchase

ASSUME SdkAssumption ==
    /\ IsFiniteSet(Rows) /\ Rows = 1 .. Cardinality(Rows)
    /\ Cap \in Nat \ {0} /\ BatchMax \in Nat \ {0} /\ Budget \in Nat \ {0}
    /\ FlushOnPurchase \in BOOLEAN
    /\ Rate = 0 \/ Budget * Rate >= Burst   \* the budget outlasts the refill of a bucket

VARIABLES
    life,       \* "up", "closing" (shutdown awaits its flush), "closed", "gone"
    queue,      \* OutboundQueue.rows
    money,      \* rows of verifiedPurchase
    flush,      \* where the flush is, its batch, the units since the batch began
    mine,       \* slot of the attempt, None when its answer was lost
    emitted,    \* number of events the backend has emitted
    dropped,    \* nonMoneyDropped, as the set of the rows
    refused,    \* rows whose call threw QueueOverflowError
    acked,      \* history: rows a 2xx answered
    reported,   \* history: rows given up with a call of on_error
    excuse      \* history: what has happened to the flush, for the properties

sdkVars == <<life, queue, money, flush, mine, emitted, dropped, refused, acked, reported, excuse>>
vars == <<doorVars, sdkVars>>

Off == [pc |-> "off", batch |-> {}, elapsed |-> 0]
NoExcuse == [joined |-> FALSE, failed |-> FALSE]

Init ==
    /\ DoorInit
    /\ life = "up" /\ queue = {} /\ money = {} /\ flush = Off /\ mine = None
    /\ emitted = 0 /\ dropped = {} /\ refused = {} /\ acked = {} /\ reported = {}
    /\ excuse = NoExcuse

-----------------------------------------------------------------------------
(* the queue *)

Peek(q) == {e \in q : Cardinality({f \in q : f < e}) < BatchMax}

Evictable == queue \ money

Enqueue(e, isMoney) ==
    IF Cardinality(queue) < Cap
    THEN queue' = queue \cup {e} /\ UNCHANGED <<dropped, refused>>
    ELSE IF ~isMoney
    THEN dropped' = dropped \cup {e} /\ UNCHANGED <<queue, refused>>
    ELSE IF Evictable = {}
    THEN refused' = refused \cup {e} /\ UNCHANGED <<queue, dropped>>
    ELSE /\ queue' = (queue \ {Min(Evictable)}) \cup {e}
         /\ dropped' = dropped \cup {Min(Evictable)}
         /\ UNCHANGED refused

\* Peek; an empty queue ends the flush, and a shutdown that awaited it.
StartBatch(q) ==
    IF Peek(q) = {}
    THEN /\ flush' = Off
         /\ life' = IF life = "closing" THEN "closed" ELSE life
    ELSE /\ flush' = [pc |-> "send", batch |-> Peek(q), elapsed |-> 0]
         /\ UNCHANGED life

\* verifiedPurchase, economy and track.  One that throws does not start a flush.
Emit(isMoney) ==
    LET e == emitted + 1 IN
    /\ life \in {"up", "closing"} /\ e \in Rows
    /\ emitted' = e
    /\ money' = IF isMoney THEN money \cup {e} ELSE money
    /\ Enqueue(e, isMoney)
    /\ IF FlushOnPurchase /\ isMoney /\ e \notin refused' /\ flush.pc = "off"
       THEN StartBatch(queue')
       ELSE UNCHANGED <<flush, life>>
    /\ UNCHANGED <<doorVars, mine, acked, reported, excuse>>

-----------------------------------------------------------------------------
(* the flush *)

\* The interval timer, or flush() called by the backend.
FlushDue ==
    /\ life = "up" /\ flush.pc = "off" /\ queue # {}
    /\ StartBatch(queue)
    /\ UNCHANGED <<doorVars, queue, mine, money, emitted, dropped, refused, acked, reported,
                   excuse>>

Send(s) ==
    /\ life # "gone" /\ flush.pc = "send" /\ door[s].pc = "free"
    /\ door' = [door EXCEPT ![s] = [pc |-> "auth", ids |-> flush.batch, status |-> 0]]
    /\ flush' = [flush EXCEPT !.pc = "wait"]
    /\ mine' = s
    /\ UNCHANGED <<cached, revoked, bucket, queued, trouble, servedLate, life, queue,
                   money, emitted, dropped, refused, acked, reported, excuse>>

\* deliverWithRetry after an attempt to be retried: the budget is tested after it.
Retry ==
    IF flush.elapsed < Budget
    THEN /\ flush' = [flush EXCEPT !.pc = "sleep"]
         /\ UNCHANGED <<life, queue, reported, excuse>>
    ELSE /\ reported' = reported \cup flush.batch
         /\ queue' = queue \ flush.batch
         /\ flush' = Off
         /\ life' = IF life = "closing" THEN "closed" ELSE life
         /\ excuse' = [excuse EXCEPT !.failed = TRUE]

\* Mutated form of Delivered: one batch per flush.
DeliveredOnce(s) ==
    /\ door[s].status = 200
    /\ acked' = acked \cup flush.batch
    /\ queue' = queue \ flush.batch
    /\ StartBatch({})
    /\ UNCHANGED <<reported, excuse>>

Delivered(s) ==
    /\ door[s].status = 200
    /\ acked' = acked \cup flush.batch
    /\ queue' = queue \ flush.batch
    /\ StartBatch(queue')
    /\ UNCHANGED <<reported, excuse>>

\* 401: on_error, the batch is dropped, and the flush stops.
Rejected(s) ==
    /\ door[s].status = 401
    /\ reported' = reported \cup flush.batch
    /\ queue' = queue \ flush.batch
    /\ flush' = Off
    /\ life' = IF life = "closing" THEN "closed" ELSE life
    /\ excuse' = [excuse EXCEPT !.failed = TRUE]
    /\ UNCHANGED acked

Answered(s) ==
    /\ door[s].pc = "answered" /\ mine = s /\ life # "gone"
    /\ \/ Delivered(s)
       \/ Rejected(s)
       \/ door[s].status \in {429, 500, 503} /\ Retry /\ UNCHANGED acked
    /\ door' = [door EXCEPT ![s] = Closed] /\ mine' = None
    /\ UNCHANGED <<cached, revoked, bucket, queued, trouble, servedLate, money, emitted,
                   dropped, refused>>

\* The connection breaks: fetch rejects, the request goes on at the door or never got there.
Broken(s) ==
    /\ mine = s /\ life # "gone" /\ trouble < MaxTrouble
    /\ trouble' = trouble + 1
    /\ mine' = None
    /\ Retry
    /\ door' \in {door, [door EXCEPT ![s] = Closed]}
    /\ UNCHANGED <<cached, revoked, bucket, queued, servedLate, money, emitted, dropped,
                   refused, acked>>

\* An answer nobody waits for.
Unheard(s) ==
    /\ door[s].pc = "answered" /\ (mine # s \/ life = "gone")
    /\ door' = [door EXCEPT ![s] = Closed]
    /\ UNCHANGED <<cached, revoked, bucket, queued, trouble, servedLate, sdkVars>>

\* Mutated form of Wake: it waits for a later unit than its batch began in.
WakeLate ==
    /\ life # "gone" /\ flush.pc = "sleep" /\ flush.elapsed > Budget
    /\ flush' = [flush EXCEPT !.pc = "send"]
    /\ UNCHANGED <<doorVars, life, queue, mine, money, emitted, dropped, refused, acked,
                   reported, excuse>>

\* The backoff is jittered from zero and never outlasts the budget (see Tick).
Wake ==
    /\ life # "gone" /\ flush.pc = "sleep"
    /\ flush' = [flush EXCEPT !.pc = "send"]
    /\ UNCHANGED <<doorVars, life, queue, mine, money, emitted, dropped, refused, acked,
                   reported, excuse>>

-----------------------------------------------------------------------------
(* shutdown, and time *)

\* flush() returns at once while another flush runs; dispose stops the timer only.
Shutdown ==
    /\ life = "up"
    /\ IF flush.pc = "off" /\ queue # {}
       THEN /\ life' = "closing"
            /\ flush' = [pc |-> "send", batch |-> Peek(queue), elapsed |-> 0]
            /\ excuse' = [excuse EXCEPT !.failed = FALSE]
       ELSE /\ life' = "closed"
            /\ excuse' = [excuse EXCEPT !.joined = flush.pc # "off"]
            /\ UNCHANGED flush
    /\ UNCHANGED <<doorVars, queue, mine, money, emitted, dropped, refused, acked, reported>>

\* The backend exits: what the process held is gone.
Exit ==
    /\ life = "closed"
    /\ life' = "gone"
    /\ flush' = Off /\ mine' = None
    /\ UNCHANGED <<doorVars, queue, money, emitted, dropped, refused, acked, reported, excuse>>

Others == OthersDraw /\ UNCHANGED sdkVars

Tick ==
    /\ DoorTick
    /\ flush.pc \in {"off", "sleep"} /\ flush.elapsed < Budget
    /\ flush' = IF flush.pc = "off" THEN flush ELSE [flush EXCEPT !.elapsed = @ + 1]
    /\ UNCHANGED <<life, queue, mine, money, emitted, dropped, refused, acked, reported, excuse>>

Next ==
    \/ DoorNext /\ UNCHANGED sdkVars
    \/ \E isMoney \in BOOLEAN : Emit(isMoney)
    \/ FlushDue \/ Wake
    \/ \E s \in Slots : Send(s) \/ Answered(s) \/ Broken(s) \/ Unheard(s)
    \/ Shutdown \/ Exit \/ Others \/ Tick

Serving(s) ==
    CacheHit(s) \/ Lookup(s) \/ Remember(s) \/ Shed(s) \/ Admit(s) \/ Add(s)

\* A request, an answer, a timer and the clock do not stop.  The backend and other
\* traffic owe nothing; the clock needs strong fairness because it waits for the
\* slots to be free and for the flush to sleep.
Fairness ==
    /\ \A s \in Slots :
        /\ WF_vars(Serving(s) /\ UNCHANGED sdkVars)
        /\ WF_vars(Send(s)) /\ WF_vars(Answered(s)) /\ WF_vars(Unheard(s))
    /\ WF_vars(FlushDue) /\ WF_vars(Wake) /\ SF_vars(Tick)

Spec == Init /\ [][Next]_vars /\ Fairness

-----------------------------------------------------------------------------

\* Every variable keeps its type, and the queue its limit (queue.ts, cap).
TypeOK ==
    /\ DoorTypeOK
    /\ life \in {"up", "closing", "closed", "gone"}
    /\ queue \subseteq 1 .. emitted /\ Cardinality(queue) <= Cap /\ money \subseteq 1 .. emitted
    /\ flush \in [pc : {"off", "send", "wait", "sleep"}, batch : SUBSET Rows,
                  elapsed : 0 .. Budget]
    /\ mine \in Slots \cup {None}
    /\ emitted \in Rows \cup {0} /\ dropped \subseteq Rows /\ refused \subseteq money
    /\ acked \subseteq Rows /\ reported \subseteq Rows
    /\ excuse \in [joined : BOOLEAN, failed : BOOLEAN]

\* No verified purchase disappears in silence: it waits, was acknowledged, was given up
\* with an error, or its call threw; eviction under a full queue never takes it.
MoneyAnswered ==
    money \subseteq queue \cup acked \cup reported \cup refused

\* A row is removed as delivered only when a job of the ingest queue carries it, over
\* retries, lost answers and enqueues that failed.
AckedIsQueued == acked \subseteq queued

\* Rows are left behind at the exit only when shutdown met a running flush, or when its
\* own flush stopped at a batch it reported.
ShutdownDrains ==
    life = "closed" => (queue = {} \/ excuse.joined \/ excuse.failed)

\* While the backend runs, a queued row is settled: acknowledged, reported or dropped.
RowsSettle ==
    \A e \in Rows : e \in queue ~> (e \notin queue \/ life # "up")
=============================================================================
