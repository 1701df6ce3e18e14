--------------------------- MODULE MCDayCountFlush ---------------------------
(***************************************************************************)
(* Instances of DayCountFlush for TLC.  A traffic pattern gives the jobs,  *)
(* the events and the cells of each record; a cfg picks one, with the      *)
(* number of overlapping sweeps and the failures allowed.                  *)
(***************************************************************************)
EXTENDS DayCountFlush, TLC

CONSTANTS r1, r2, r3, j1, j2, e1, e2, e3, day, exc, cat, n1, n2

PlanOfDayCat == (day :> "cnt" @@ cat :> "cat")
PlanOfDayExc == (day :> "cnt" @@ exc :> "exc")

PairEventOf == (r1 :> e1 @@ r2 :> e2)
ThreeEventOf == PairEventOf @@ (r3 :> e3)

\* One job for all, or two.
SplitJobOf == (r1 :> j1 @@ r2 :> j2 @@ r3 :> j2)
PairJobOf == [r \in {r1, r2} |-> j1]

\* Two events that race to seed the bucket of their day and the catalog entry
\* of their name.
DayCatTouches == [r \in {r1, r2} |-> << <<day, n1>>, <<cat, n1>> >>]

\* Two events that race to seed the bucket of their day, and a refused record,
\* which is only tallied.
DayExcTouches ==
    (r1 :> << <<day, n1>> >> @@ r2 :> << <<day, n1>> >> @@ r3 :> << <<exc, n1>> >>)

\* Postgres is empty, or already holds counts of the first name.
EmptyOrCounted == {[b \in Buckets |-> [n \in Names |-> 0]],
                   [b \in Buckets |-> [n \in Names |-> IF n = n1 THEN 1 ELSE 0]]}
=============================================================================
