---------------------------- MODULE DashboardRead ----------------------------
(***************************************************************************)
(* The dashboard beside the counting path: a page asks for the counts of a *)
(* day, the live hash and the durable rows are read in whatever order the  *)
(* two answers come, and the page shows the greater of the two per name.   *)
(* Handlers, sweeps and failures go on between the two reads.              *)
(***************************************************************************)
EXTENDS DayCountFlush

CONSTANTS Pages       \* page views under way at the same time

VARIABLES
    page,        \* page[q]: which of the two reads have come back
    asked,       \* asked[q]: the bucket of the day asked for
    live,        \* live[q]: counts read from Redis
    stored,      \* stored[q]: counts read from Postgres
    atStart      \* history: what was counted when the page asked

pages == <<page, asked, live, stored, atStart>>

\* Catalog entries are not read this way.
Shown == {b \in Buckets : PlanOf[b] \in {"cnt", "exc"}}

PagesInit ==
    /\ page = [q \in Pages |-> "idle"]
    /\ asked \in [Pages -> {CHOOSE b \in Buckets : TRUE}]
    /\ live = [q \in Pages |-> NoCounts]
    /\ stored = [q \in Pages |-> NoCounts]
    /\ atStart = [q \in Pages |-> NoCounts]

Ask(q) ==
    /\ page[q] \in {"idle", "answered"}
    /\ \E b \in Shown :
         /\ asked' = [asked EXCEPT ![q] = b]
         /\ atStart' = [atStart EXCEPT ![q] = Counted[b]]
    /\ page' = [page EXCEPT ![q] = "asked"]
    /\ UNCHANGED <<live, stored>>

\* HGETALL of the hash; a hash that is not there reads as no counts.
ReadLive(q) ==
    /\ page[q] \in {"asked", "stored"}
    /\ live' = [live EXCEPT ![q] = hot[asked[q]]]
    /\ page' = [page EXCEPT ![q] = IF page[q] = "asked" THEN "live" ELSE "answered"]
    /\ UNCHANGED <<asked, stored, atStart>>

ReadStored(q) ==
    /\ page[q] \in {"asked", "live"}
    /\ stored' = [stored EXCEPT ![q] = durable[asked[q]]]
    /\ page' = [page EXCEPT ![q] = IF page[q] = "asked" THEN "stored" ELSE "answered"]
    /\ UNCHANGED <<asked, live, atStart>>

\* Mutated form of Merged: live and durable are taken for two shares of a sum.
Summed(l, s) == [n \in Names |-> l[n] + s[n]]

Merged(l, s) == [n \in Names |-> Greatest(l[n], s[n])]

PageStep(q) == Ask(q) \/ ReadLive(q) \/ ReadStored(q)

DashboardInit == Init /\ PagesInit

DashboardNext == \/ Next /\ UNCHANGED pages
                 \/ (\E q \in Pages : PageStep(q)) /\ UNCHANGED vars

allVars == <<vars, pages>>

DashboardSpec == DashboardInit /\ [][DashboardNext]_allVars

FairDashboardSpec == DashboardSpec /\ Fairness

-----------------------------------------------------------------------------
(* Properties *)

\* The variables of the pages keep their type.
PagesTypeOK ==
    /\ page \in [Pages -> {"idle", "asked", "live", "stored", "answered"}]
    /\ asked \in [Pages -> Buckets]
    /\ live \in [Pages -> [Names -> Nat]]
    /\ stored \in [Pages -> [Names -> Nat]]
    /\ atStart \in [Pages -> [Names -> Nat]]

\* A page never shows more than was counted by the time it is shown, and while
\* Redis keeps its data no less than was counted when it asked, whatever was
\* seeded, counted and flushed between its two reads (read-model.service.ts
\* header: a day mid-flush is never double-counted nor under-counted).
PageWithinCounts ==
    \A q \in Pages : page[q] = "answered" =>
      LET answer == Merged(live[q], stored[q])
      IN  \A n \in Names :
            /\ answer[n] <= Counted[asked[q]][n]
            /\ losses = 0 => atStart[q][n] <= answer[n]
=============================================================================
