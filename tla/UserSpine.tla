------------------------------- MODULE UserSpine -------------------------------
(***************************************************************************)
(* Sessions, the durable user spine and the projections built on it.  A    *)
(* worker takes a session message through the seal check, writes the spine *)
(* row and its activity bit, and then folds the session into the day's     *)
(* buckets in Redis, one bucket at a time; sweeps merge the buckets into   *)
(* Postgres.  Beside them run the operator's re-scan of the spine and the  *)
(* erasure of a subject.                                                   *)
(*                                                                         *)
(* The seeding, marking and draining of a bucket are single steps here:    *)
(* DayCountFlush takes them apart.                                         *)
(***************************************************************************)
EXTENDS SessionTime, FiniteSets, FiniteSetsExt

CONSTANTS
    Sessions, Users, None,
    UserOf,        \* session -> its user, or None for a session without one
    Message,       \* session -> its start, end, sent and received times
    Span,          \* number of bits of a spine row
    Instants,      \* the times at which something is looked at
    Erasable,      \* users who ask to be erased
    EraseGrace,    \* day_seal_grace_hours: from the end of a day until an erasure may touch it
    QuietRescan,   \* whether the operator re-scans only while nothing writes the spine
    MaxTrouble     \* bound on failures, losses of Redis, re-scans and requests to erase together

ASSUME SpineAssumption ==
    /\ UserOf \in [Sessions -> Users \cup {None}] /\ None \notin Users
    /\ Message \in [Sessions -> [start : Int, end : Int, sent : Int, received : Int]]
    /\ Erasable \subseteq Users /\ IsFiniteSet(Sessions) /\ IsFiniteSet(Users)
    /\ Span \in Nat \ {0} /\ Instants \subseteq Int /\ QuietRescan \in BOOLEAN
    /\ MaxTrouble \in Nat /\ EraseGrace \in Nat

IntervalOf(s) == Trusted(Message[s])
StartOf(s) == StartDay(IntervalOf(s))
EndsOf(s) == EndDays(IntervalOf(s))
Days == {StartOf(s) : s \in Sessions} \cup UNION {EndsOf(s) : s \in Sessions}

VARIABLES
    now,
    pc, todo, token,          \* the handlers: step, buckets left, what step 7 found
    spine,                    \* user_spine: user -> row or None
    sess, act, ret,           \* buckets in Redis: day -> content, None when missing
    dirty,                    \* the dirty registry: pairs of domain and day
    stored,                   \* session_day_result, active_user_day, cohort + retention_cell
    scan,                     \* the re-scan's snapshot of the spine, or None
    erasure,                  \* user -> state of the erasure request
    rows, marks,              \* history: the sessions that seeded a row, or set a bit, and where
    returned,                 \* history: users seen again since their days were enumerated
    hidden,                   \* history: users with a day that was in Redis alone at that time
    reopened,                 \* history: days that took a user after EraseGrace was over
    trouble,
    upset                     \* history: what went wrong: handlers failed, Redis lost, rows
                              \* erased under a session at hand

handlers == <<pc, todo, token>>
buckets == <<sess, act, ret, dirty>>
privacy == <<erasure, returned, hidden, reopened>>
bounds == <<trouble, upset>>
vars == <<now, handlers, spine, buckets, stored, scan, privacy, rows, marks, bounds>>

NoTime == [count |-> 0, touching |-> 0, dur |-> 0]
NoReturns == [size |-> 0, cell |-> [c \in Days |-> 0]]
NoToken == [created |-> FALSE, bit |-> FALSE, cohort |-> None]

Init ==
    /\ now \in {i \in Instants : \A j \in Instants : i <= j}
    /\ pc = [s \in Sessions |-> "queued"]
    /\ todo = [s \in Sessions |-> {}]
    /\ token = [s \in Sessions |-> NoToken]
    /\ spine = [u \in Users |-> None]
    /\ sess = [d \in Days |-> None]
    /\ act = [d \in Days |-> None]
    /\ ret = [d \in Days |-> None]
    /\ dirty = {}
    /\ stored = [sess |-> [d \in Days |-> NoTime],
                 act |-> [d \in Days |-> {}],
                 ret |-> [d \in Days |-> NoReturns]]
    /\ scan = None
    /\ erasure = [u \in Users |-> "none"]
    /\ rows = {} /\ marks = {}
    /\ returned = {} /\ hidden = {} /\ reopened = {}
    /\ trouble = 0 /\ upset = {}

Quiet == \A s \in Sessions : pc[s] \in {"queued", "late", "done", "failed"}
InFlight(u) == \E s \in Sessions : UserOf[s] = u /\ pc[s] \in {"seed", "reread", "bit", "fold"}

Erasing == \E u \in Users : erasure[u] \in {"reading", "clear", "purged"}

\* For an erasure a day is sealed after the administered grace, whatever the
\* grace of the seal check at the front.
Settled(d) == now >= DayEnd(InstantOf(d)) + EraseGrace

-----------------------------------------------------------------------------
(* The worker.  Step 5: a record is late when the day of its event time,   *)
(* the end of the session, is sealed.  Step 7 seeds the row and sets the   *)
(* bit; its token says what step 8 has left to fold.                       *)

\* The buckets in the order the hook takes them.
Rank == [start |-> 1, end |-> 2, act |-> 3, size |-> 4, cell |-> 5]

\* Mutated form of Plan: a cohort grows with every session of its users.
PlanCountingAll(s, found) ==
    {"start"} \cup {x \in {"end"} : EndsOf(s) # {}}
    \cup {x \in {"act", "size"} : UserOf[s] # None} \cup {x \in {"cell"} : found.bit}

\* Mutated form of Plan: the day a user is first seen is no return.
PlanWithoutDayZero(s, found) ==
    {"start"} \cup {x \in {"end"} : EndsOf(s) # {}} \cup {x \in {"act"} : UserOf[s] # None}
    \cup {x \in {"size"} : found.created} \cup {x \in {"cell"} : found.bit /\ ~found.created}

Plan(s, found) ==
    {"start"} \cup {x \in {"end"} : EndsOf(s) # {}} \cup {x \in {"act"} : UserOf[s] # None}
    \cup {x \in {"size"} : found.created} \cup {x \in {"cell"} : found.bit}

Fold(s, found) ==
    /\ pc' = [pc EXCEPT ![s] = "fold"]
    /\ todo' = [todo EXCEPT ![s] = Plan(s, found)]
    /\ token' = [token EXCEPT ![s] = found]

Late(s) == Sealed(CorrectedTime(Message[s].end, Message[s]), now)

Receive(s) ==
    /\ pc[s] = "queued"
    /\ Message[s].received <= now
    /\ QuietRescan => scan = None
    /\ CASE Late(s) ->
                pc' = [pc EXCEPT ![s] = "late"] /\ UNCHANGED <<todo, token, returned>>
         [] ~Late(s) /\ UserOf[s] = None -> Fold(s, NoToken) /\ UNCHANGED returned
         [] OTHER ->
                /\ pc' = [pc EXCEPT ![s] = "seed"]
                /\ returned' = returned \cup
                       {u \in {UserOf[s]} : erasure[u] \in {"reading", "clear", "purged", "executed"}}
                /\ UNCHANGED <<todo, token>>
    /\ UNCHANGED <<now, spine, buckets, stored, scan, erasure, hidden, reopened, rows, marks, bounds>>

\* Step 7b: a session before the first one seen, or beyond the bitmap, leaves
\* no bit.
Place(s, created, first) ==
    LET found == [created |-> created, bit |-> FALSE, cohort |-> LogicalDay(first)]
    IN  IF StartOf(s) - found.cohort \in 0 .. (Span - 1)
        THEN /\ pc' = [pc EXCEPT ![s] = "bit"]
             /\ token' = [token EXCEPT ![s] = found]
             /\ UNCHANGED todo
        ELSE Fold(s, found)

\* Insert the row if there is none.
Seed(s) ==
    LET u == UserOf[s]
        first == IntervalOf(s).start
    IN  /\ pc[s] = "seed"
        /\ IF spine[u] = None
           THEN /\ spine' = [spine EXCEPT ![u] = [first |-> first, bits |-> {}]]
                /\ rows' = rows \cup {<<s, LogicalDay(first)>>}
                /\ Place(s, TRUE, first)
           ELSE /\ pc' = [pc EXCEPT ![s] = "reread"]
                /\ UNCHANGED <<todo, token, spine, rows>>
        /\ UNCHANGED <<now, buckets, stored, scan, privacy, marks, bounds>>

\* The row was there: a second statement reads it, and throws if it is gone.
Reread(s) ==
    /\ pc[s] = "reread"
    /\ IF spine[UserOf[s]] = None
       THEN pc' = [pc EXCEPT ![s] = "failed"] /\ UNCHANGED <<todo, token>>
       ELSE Place(s, FALSE, spine[UserOf[s]].first)
    /\ UNCHANGED <<now, spine, buckets, stored, scan, privacy, rows, marks, bounds>>

\* Set the bit if it is 0, and report whether it was.
SetBit(s) ==
    LET u == UserOf[s]
        off == StartOf(s) - token[s].cohort
        turned == spine[u] # None /\ off \notin spine[u].bits
    IN  /\ pc[s] = "bit"
        /\ spine' = IF turned THEN [spine EXCEPT ![u].bits = @ \cup {off}] ELSE spine
        /\ marks' = IF turned THEN marks \cup {<<s, token[s].cohort, off>>} ELSE marks
        /\ Fold(s, [token[s] EXCEPT !.bit = turned])
        /\ UNCHANGED <<now, buckets, stored, scan, privacy, rows, bounds>>

-----------------------------------------------------------------------------
(* Step 8: each bucket is first filled from its durable floor when Redis   *)
(* has none, then changed, then marked dirty.                              *)

Filled(bucket, floor) == IF bucket = None THEN floor ELSE bucket

\* The next bucket of s.
FoldStep(s, step) ==
    /\ pc[s] = "fold" /\ step \in todo[s] /\ \A x \in todo[s] : Rank[step] <= Rank[x]
    /\ todo' = [todo EXCEPT ![s] = @ \ {step}]
    /\ IF todo[s] # {step}
       THEN UNCHANGED <<pc, token>>
       ELSE pc' = [pc EXCEPT ![s] = "done"] /\ token' = [token EXCEPT ![s] = NoToken]
    /\ UNCHANGED <<now, spine, stored, scan, erasure, returned, hidden, rows, marks, bounds>>

AddTime(d, counts, dur) ==
    LET b == Filled(sess[d], stored.sess[d])
    IN  /\ sess' = [sess EXCEPT ![d] = [count |-> b.count + counts,
                                        touching |-> b.touching + 1,
                                        dur |-> b.dur + dur]]
        /\ dirty' = dirty \cup {<<"sess", d>>}
        /\ UNCHANGED <<act, ret, reopened>>

FoldStart(s) ==
    FoldStep(s, "start") /\ AddTime(StartOf(s), 1, DurOnDay(IntervalOf(s), StartOf(s)))

\* Mutated form of FoldEnd: the second day counts the session again.
FoldEndCounting(s) ==
    FoldStep(s, "end") /\ \E d \in EndsOf(s) : AddTime(d, 1, DurOnDay(IntervalOf(s), d))

FoldEnd(s) ==
    FoldStep(s, "end") /\ \E d \in EndsOf(s) : AddTime(d, 0, DurOnDay(IntervalOf(s), d))

\* Every client session with a user marks the user active on its start day,
\* whatever step 7 found.
FoldActive(s) ==
    LET d == StartOf(s)
    IN  /\ FoldStep(s, "act")
        /\ act' = [act EXCEPT ![d] = Filled(act[d], stored.act[d]) \cup {UserOf[s]}]
        /\ dirty' = dirty \cup {<<"act", d>>}
        /\ reopened' = reopened \cup {e \in {d} : Settled(e)}
        /\ UNCHANGED <<sess, ret>>

\* The user's cohort grows by the row step 7 created.
FoldNewUser(s) ==
    LET c == token[s].cohort
        b == Filled(ret[c], stored.ret[c])
    IN  /\ FoldStep(s, "size")
        /\ ret' = [ret EXCEPT ![c] = [b EXCEPT !.size = @ + 1]]
        /\ dirty' = dirty \cup {<<"ret", c>>}
        /\ UNCHANGED <<sess, act, reopened>>

\* Day d of the user's cohort has one more user, for the bit that turned.
FoldReturn(s) ==
    LET d == StartOf(s)
        b == Filled(ret[d], stored.ret[d])
    IN  /\ FoldStep(s, "cell")
        /\ ret' = [ret EXCEPT ![d] = [b EXCEPT !.cell[token[s].cohort] = @ + 1]]
        /\ dirty' = dirty \cup {<<"ret", d>>}
        /\ UNCHANGED <<sess, act, reopened>>

\* The handler ends in an exception or a crash.  Its retry is a duplicate.
Fail(s) ==
    /\ trouble < MaxTrouble
    /\ pc[s] \in {"seed", "reread", "bit", "fold"}
    /\ trouble' = trouble + 1 /\ upset' = upset \cup {"failed"}
    /\ pc' = [pc EXCEPT ![s] = "failed"]
    /\ todo' = [todo EXCEPT ![s] = {}]
    /\ token' = [token EXCEPT ![s] = NoToken]
    /\ UNCHANGED <<now, spine, buckets, stored, scan, privacy, rows, marks>>

-----------------------------------------------------------------------------
(* Sweeps: counters merge by maximum, members by union.                    *)

MergeTime(a, b) == [f \in DOMAIN NoTime |-> Larger(a[f], b[f])]
MergeReturns(a, b) ==
    [size |-> Larger(a.size, b.size),
     cell |-> [c \in Days |-> Larger(a.cell[c], b.cell[c])]]

Merged(domain, merge(_, _), bucket) ==
    [d \in Days |-> IF <<domain, d>> \in dirty /\ bucket[d] # None
                    THEN merge(stored[domain][d], bucket[d])
                    ELSE stored[domain][d]]

Sweep ==
    /\ dirty # {}
    /\ dirty' = {}
    /\ stored' = [sess |-> Merged("sess", MergeTime, sess),
                  act |-> Merged("act", LAMBDA a, b : a \cup b, act),
                  ret |-> Merged("ret", MergeReturns, ret)]
    /\ UNCHANGED <<now, handlers, spine, sess, act, ret, scan, privacy, rows, marks, bounds>>

\* Redis comes back empty.
LoseRedis ==
    /\ trouble < MaxTrouble
    /\ trouble' = trouble + 1 /\ upset' = upset \cup {"lost"}
    /\ sess' = [d \in Days |-> None]
    /\ act' = [d \in Days |-> None]
    /\ ret' = [d \in Days |-> None]
    /\ dirty' = {}
    /\ UNCHANGED <<now, handlers, spine, stored, scan, privacy, rows, marks>>

-----------------------------------------------------------------------------
(* The re-scan an operator runs: what the spine says of each cohort, each  *)
(* cell and each day's members, merged like a flush.                       *)

Cohort(row) == LogicalDay(row.first)
Projection(table) ==
    LET known == {u \in Users : table[u] # None}
    IN  [ret |-> [d \in Days |->
            [size |-> Cardinality({u \in known : Cohort(table[u]) = d}),
             cell |-> [c \in Days |->
                 Cardinality({u \in known : Cohort(table[u]) = c /\ d - c \in table[u].bits})]]],
         act |-> [d \in Days |-> {u \in known : d - Cohort(table[u]) \in table[u].bits}]]

RescanRead ==
    /\ scan = None /\ trouble < MaxTrouble
    /\ QuietRescan => Quiet /\ ~Erasing
    /\ scan' = spine
    /\ trouble' = trouble + 1
    /\ UNCHANGED <<now, handlers, spine, buckets, stored, privacy, rows, marks, upset>>

RescanWrite ==
    /\ scan # None
    /\ scan' = None
    /\ LET found == Projection(scan)
       IN  stored' = [stored EXCEPT
               !.ret = [d \in Days |-> MergeReturns(@[d], found.ret[d])],
               !.act = [d \in Days |-> @[d] \cup found.act[d]]]
    /\ UNCHANGED <<now, handlers, spine, buckets, privacy, rows, marks, bounds>>

-----------------------------------------------------------------------------
(* Erasure of a subject: enumerate the days, park while one is open, then  *)
(* delete the rows in one transaction and close the ledger entry.  Nothing *)
(* is deleted from Redis.                                                  *)

BitDays(u) == {d \in Days : spine[u] # None /\ d - Cohort(spine[u]) \in spine[u].bits}
ListedDays(u) == {d \in Days : u \in stored.act[d]}

EnumerateFrom(u, days) ==
    /\ u \in Erasable
    /\ QuietRescan => scan = None
    /\ erasure[u] \in {"none", "pending", "awaiting_seal"}
    /\ erasure' = [erasure EXCEPT ![u] =
           IF \A d \in days : Settled(d) THEN "reading" ELSE "awaiting_seal"]
    /\ returned' = IF InFlight(u) THEN returned \cup {u} ELSE returned \ {u}
    /\ IF erasure[u] = "none"
       THEN trouble < MaxTrouble /\ trouble' = trouble + 1
       ELSE UNCHANGED trouble
    /\ UNCHANGED <<now, handlers, spine, buckets, stored, scan, hidden, reopened, rows, marks, upset>>

\* Mutated form of EnumerateSpine: the bitmap is not asked.
EnumerateSpineUnasked(u) == EnumerateFrom(u, {})

\* The first statement reads the bitmap.
EnumerateSpine(u) == EnumerateFrom(u, BitDays(u))

\* The next reads the days' lists; it sees no bucket.
EnumerateActive(u) ==
    /\ erasure[u] = "reading"
    /\ erasure' = [erasure EXCEPT ![u] =
           IF \A d \in ListedDays(u) : Settled(d) THEN "clear" ELSE "awaiting_seal"]
    /\ hidden' = IF {d \in Days : act[d] # None /\ u \in act[d]} \subseteq BitDays(u) \cup ListedDays(u)
                 THEN hidden \ {u} ELSE hidden \cup {u}
    /\ UNCHANGED <<now, handlers, spine, buckets, stored, scan, returned, reopened, rows, marks, bounds>>

Purge(u) ==
    /\ erasure[u] = "clear"
    /\ spine' = [spine EXCEPT ![u] = None]
    /\ stored' = [stored EXCEPT !.act = [d \in Days |-> @[d] \ {u}]]
    /\ erasure' = [erasure EXCEPT ![u] = "purged"]
    /\ upset' = IF InFlight(u) THEN upset \cup {"erased"} ELSE upset
    /\ UNCHANGED <<now, handlers, buckets, scan, returned, hidden, reopened, rows, marks, trouble>>

CloseEntry(u) ==
    /\ erasure[u] = "purged"
    /\ erasure' = [erasure EXCEPT ![u] = "executed"]
    /\ UNCHANGED <<now, handlers, spine, buckets, stored, scan, returned, hidden, reopened>>
    /\ UNCHANGED <<rows, marks, bounds>>

\* The job ends half way; the next call starts over.
EraseFails(u) ==
    /\ trouble < MaxTrouble
    /\ erasure[u] \in {"reading", "clear", "purged"}
    /\ trouble' = trouble + 1
    /\ erasure' = [erasure EXCEPT ![u] = "pending"]
    /\ UNCHANGED <<now, handlers, spine, buckets, stored, scan, returned, hidden, reopened>>
    /\ UNCHANGED <<rows, marks, upset>>

-----------------------------------------------------------------------------
\* Time passes.  A record takes milliseconds and a sweep comes every five
\* minutes, a day seals two days after its end: between two instants everything
\* at hand is finished and flushed.
Tick ==
    /\ Quiet /\ dirty = {} /\ scan = None
    /\ ~Erasing
    /\ now' \in {i \in Instants : i > now /\ \A j \in Instants : j > now => i <= j}
    /\ UNCHANGED <<handlers, spine, buckets, stored, scan, privacy, rows, marks, bounds>>

Handle(s) ==
    \/ Receive(s)
    \/ Seed(s)
    \/ Reread(s)
    \/ SetBit(s)
    \/ FoldStart(s)
    \/ FoldEnd(s)
    \/ FoldActive(s)
    \/ FoldNewUser(s)
    \/ FoldReturn(s)
    \/ Fail(s)

Erase(u) ==
    \/ EnumerateSpine(u)
    \/ EnumerateActive(u)
    \/ Purge(u)
    \/ CloseEntry(u)
    \/ EraseFails(u)

Next ==
    \/ \E s \in Sessions : Handle(s)
    \/ \E u \in Users : Erase(u)
    \/ Sweep
    \/ LoseRedis
    \/ RescanRead
    \/ RescanWrite
    \/ Tick

Spec == Init /\ [][Next]_vars

-----------------------------------------------------------------------------
TimeCell == [count : Nat, touching : Nat, dur : Nat]
ReturnCell == [size : Nat, cell : [Days -> Nat]]
Row == [first : Int, bits : SUBSET (0 .. (Span - 1))]

ASSUME NoneAssumption ==
    /\ None \notin Row /\ None \notin TimeCell /\ None \notin ReturnCell
    /\ \A U \in SUBSET Users : None # U

\* The types of the variables: a set bit is inside the bitmap.
TypeOK ==
    /\ now \in Int
    /\ pc \in [Sessions -> {"queued", "late", "seed", "reread", "bit", "fold", "done", "failed"}]
    /\ todo \in [Sessions -> SUBSET DOMAIN Rank]
    /\ token \in [Sessions -> [created : BOOLEAN, bit : BOOLEAN, cohort : Int \cup {None}]]
    /\ spine \in [Users -> Row \cup {None}]
    /\ scan = None \/ scan \in [Users -> Row \cup {None}]
    /\ sess \in [Days -> TimeCell \cup {None}]
    /\ act \in [Days -> (SUBSET Users) \cup {None}]
    /\ ret \in [Days -> ReturnCell \cup {None}]
    /\ dirty \subseteq {"sess", "act", "ret"} \X Days
    /\ stored \in [sess : [Days -> TimeCell], act : [Days -> SUBSET Users], ret : [Days -> ReturnCell]]
    /\ erasure \in [Users -> {"none", "pending", "awaiting_seal", "reading", "clear", "purged", "executed"}]
    /\ {returned, hidden} \subseteq SUBSET Users /\ reopened \subseteq Days
    /\ upset \subseteq {"failed", "lost", "erased"}

Born(c) == {r \in rows : r[2] = c}
Seen(c, d) == {k \in marks : k[2] = c /\ k[3] = d - c}

\* No report shows more users than the spine ever held: neither a bucket nor a
\* stored row counts a new user, or a return, that step 7 did not record
\* (as long as no erasure removes a row under a session at hand).
ProjectionWithinSpine ==
    "erased" \notin upset => \A b \in {ret, stored.ret} : \A d \in Days : b[d] # None =>
        /\ b[d].size <= Cardinality(Born(d))
        /\ \A c \in Days : b[d].cell[c] <= Cardinality(Seen(c, d))

Undisturbed == Quiet /\ dirty = {} /\ scan = None /\ upset = {}

\* The operator's check: every row has bit 0, day 0 of a cohort is its size.
D0Healthy ==
    /\ \A u \in Users : spine[u] # None => 0 \in spine[u].bits
    /\ \A c \in Days : stored.ret[c].size > 0 => stored.ret[c].cell[c] = stored.ret[c].size

\* Once traffic stops and the sweeps are through, and nothing failed, the stored
\* retention is the spine's, sizes and cells, and the operator's check of the
\* days 0 finds nothing.
SettledMatchesSpine ==
    Undisturbed =>
        /\ D0Healthy
        /\ \A d \in Days :
            /\ stored.ret[d].size = Cardinality(Born(d))
            /\ \A c \in Days : stored.ret[d].cell[c] = Cardinality(Seen(c, d))

Counted == {s \in Sessions : pc[s] = "done"}
Total(field) == MapThenSumSet(LAMBDA d : stored.sess[d][field], Days)

\* The days between the first and the last of a session: neither fold takes them.
Between(s) == Larger(0, LogicalDay(IntervalOf(s).end) - StartOf(s) - 1)

\* Sessions across midnight included, each accepted session is one in the day
\* counts, touches its first and its last day once, and its time is split between
\* these two without loss.  A session of three days or more, which the contract of
\* session_max_duration_cap_min admits, loses its whole days between them and no
\* more (session-time.ts folds the start day and the day of the end).
SessionsAddUp ==
    Undisturbed =>
        /\ Total("count") = Cardinality(Counted)
        /\ Total("touching") = Cardinality(Counted) + Cardinality({s \in Counted : EndsOf(s) # {}})
        /\ Total("dur") = MapThenSumSet(
               LAMBDA s : IntervalOf(s).end - IntervalOf(s).start - Between(s) * Day, Counted)

\* An erased subject who was not seen again has no row in the spine, and sweeps,
\* retries and quiet re-scans list the subject again on no day but those whose
\* bucket took another user after the erasure held them to be sealed (a grace
\* administered below the front's, or a session that began there and ended later).
\* The enumeration must have seen every day of the subject: those it could not see,
\* in Redis alone and without a bit, are hidden.
ErasedStaysErased ==
    \A u \in Users : erasure[u] = "executed" /\ u \notin returned \cup hidden =>
        spine[u] = None /\ ListedDays(u) \subseteq reopened

\* What the documents say of an erased subject who was not seen again: nothing in
\* Postgres names them, whatever comes after the erasure.
NothingLeft ==
    \A u \in Users : erasure[u] = "executed" /\ u \notin returned =>
        spine[u] = None /\ ListedDays(u) = {}
=============================================================================
