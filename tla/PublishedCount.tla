--------------------------- MODULE PublishedCount ---------------------------
(***************************************************************************)
(* What the counting pipeline promises a dashboard reader, with no Redis,  *)
(* queue or worker in sight: every cell has the total that was counted and *)
(* the figure that is published.  Counting raises the total by one;        *)
(* publishing raises the figure, and never past the total.                 *)
(***************************************************************************)
EXTENDS Naturals

CONSTANTS Buckets,   \* hot buckets, e.g. the counts of one game and day
          Names      \* fields of a bucket, e.g. event names

VARIABLES total,      \* total[b][n]: everything counted in the cell so far
          published   \* published[b][n]: the figure a reader sees

vars == <<total, published>>

Counts == [Buckets -> [Names -> Nat]]

Init ==
    /\ total \in Counts
    /\ published = total

Count(b, n) ==
    /\ total' = [total EXCEPT ![b][n] = @ + 1]
    /\ UNCHANGED published

Publish(b, n) ==
    /\ \E v \in published[b][n] + 1 .. total[b][n] :
         published' = [published EXCEPT ![b][n] = v]
    /\ UNCHANGED total

Next == \E b \in Buckets, n \in Names : Count(b, n) \/ Publish(b, n)

Spec == Init /\ [][Next]_vars
=============================================================================
