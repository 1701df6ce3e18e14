------------------------------- MODULE SpineRead -------------------------------
(***************************************************************************)
(* The session, retention and active-user pages: read from Postgres, with  *)
(* the Redis buckets of the days that are still open laid over it.  A page *)
(* is one read here; at rest only a sweep can come between its queries,    *)
(* and a sweep moves a bucket's content without changing it.               *)
(***************************************************************************)
EXTENDS UserSpine

CONSTANT Targets       \* retention_day_targets: the offsets of the retention page

ASSUME ReadAssumption == Targets \subseteq Nat

Today == LogicalDay(now)

\* The pages read a day's bucket as long as the day is not over.
Live(d) == d >= Today

\* Mutant: the bucket is added to what was flushed of it.
AddedTime(a, b) == [f \in DOMAIN NoTime |-> a[f] + b[f]]

\* A bucket was filled from its durable floor: the greater value is the newer.
LaterTime(a, b) == MergeTime(a, b)

SessionDay(d) ==
    IF Live(d) /\ sess[d] # None THEN LaterTime(stored.sess[d], sess[d]) ELSE stored.sess[d]

Members(d) == stored.act[d] \cup (IF Live(d) /\ act[d] # None THEN act[d] ELSE {})

\* Sessions per user and per active day over a window.
Window(from, to) ==
    LET days == {d \in Days : from <= d /\ d <= to}
    IN  [sessions |-> MapThenSumSet(LAMBDA d : SessionDay(d).count, days),
         distinct |-> Cardinality(UNION {Members(d) : d \in days}),
         userDays |-> MapThenSumSet(LAMBDA d : Cardinality(Members(d)), days)]

\* DAU, WAU and MAU read the bucket of today, and only for a day not over.
ActiveMembers(from, to) ==
    LET days == {d \in Days : from <= d /\ d <= to}
    IN  (UNION {stored.act[d] : d \in days})
        \cup (IF Live(to) /\ Today \in days /\ act[Today] # None THEN act[Today] ELSE {})

\* A day's users are new when they were first seen on it, else returning.
NewAmong(d) ==
    Cardinality({u \in ActiveMembers(d, d) : spine[u] # None /\ Cohort(spine[u]) = d})

\* The retention page knows the cohorts that were flushed; the size of each is
\* laid over with its bucket however old it is.
KnownCohorts == {c \in Days : stored.ret[c].size > 0}

CohortSize(c) ==
    IF ret[c] # None THEN Larger(stored.ret[c].size, ret[c].size) ELSE stored.ret[c].size

Retained(c, d) ==
    IF Live(d) /\ ret[d] # None THEN Larger(stored.ret[d].cell[c], ret[d].cell[c])
    ELSE stored.ret[d].cell[c]

Immature(c, offset) == Today - c < offset

\* The cohorts that have lived through the offset, averaged with their sizes.
Headline(offset) ==
    LET mature == {c \in KnownCohorts : ~Immature(c, offset)}
    IN  [size |-> MapThenSumSet(CohortSize, mature),
         retained |-> MapThenSumSet(LAMBDA c : IF c + offset \in Days THEN Retained(c, c + offset) ELSE 0,
                                    mature)]

-----------------------------------------------------------------------------
Current(domain, d) == d >= Today \/ <<domain, d>> \notin dirty

Present == {u \in Users : erasure[u] = "none"}

\* Between two sweeps and without any failure, the pages of a day that is not
\* over show every session taken so far, flushed or not and none twice, and
\* those of an earlier day do once its bucket is flushed: its sessions, the time
\* of those that start or end on it, its active users (those who did not ask to be erased), which of
\* them are new, how many of each cohort came back.  No headline reports more
\* users as back than its cohorts have.
PagesShowWhatWasTaken ==
    Quiet /\ upset = {} =>
        /\ \A d \in Days :
            /\ Current("sess", d) =>
                /\ SessionDay(d).count = Cardinality({s \in Counted : StartOf(s) = d})
                /\ SessionDay(d).dur = MapThenSumSet(LAMBDA s : DurOnDay(IntervalOf(s), d),
                                                     {s \in Counted : d \in {StartOf(s)} \cup EndsOf(s)})
            /\ Current("act", d) =>
                Members(d) \cap Present = {UserOf[s] : s \in {q \in Counted : StartOf(q) = d}} \cap Present
            /\ Current("act", d) /\ d <= Today =>
                NewAmong(d) = Cardinality({u \in Users : spine[u] # None /\ Cohort(spine[u]) = d})
            /\ Current("ret", d) => \A c \in KnownCohorts :
                Retained(c, d) = Cardinality(Seen(c, d)) /\ CohortSize(c) = Cardinality(Born(c))
        /\ dirty = {} => \A f, t \in Days :
            Window(f, t).sessions = Cardinality({s \in Counted : StartOf(s) \in f .. t})
        /\ \A n \in Targets : Headline(n).retained <= Headline(n).size
=============================================================================
