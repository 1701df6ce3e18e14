----------------------------- MODULE MCPurchase -----------------------------
(***************************************************************************)
(* Instances of RevenueRead for TLC.  Payer u1 has two transactions: the   *)
(* first is delivered twice and has companions; the second has no rate and *)
(* no companion.  Prices reach the dolphin tier.  Payer u2 bought before   *)
(* Redis was lost.                                                         *)
(***************************************************************************)
EXTENDS RevenueRead, TLC

CONSTANTS s1, s1b, s2, t0, t1, t2, u1, u2, a1, e1, eu

PairTxOf == [r \in Records |-> CASE r \in Companions -> None
                                 [] r = s2 -> t2
                                 [] OTHER -> t1]

PairAttemptOf == [r \in Records |-> IF r = s2 THEN None ELSE a1]
PairUserOf == [t \in Transactions |-> IF t = t0 THEN u2 ELSE u1]
PairPriceOf == [t \in Transactions |-> 5]
SameEvent == [r \in Companions |-> e1]
EventEach == [r \in Companions |-> r]
SameValue == [r \in Companions |-> eu]

\* The purchase of u2 was counted as unknown, its companion moved it, and both
\* cells were flushed at generation 1 before Redis was lost.
MovedStored ==
    [cells |-> (<<"first", "unknown">> :> [cnt |-> 0, rev |-> 0, gen |-> 1]
                @@ <<"first", eu>> :> [cnt |-> 1, rev |-> 5, gen |-> 1]),
     total |-> 5, gen |-> 1, members |-> {u2}]
=============================================================================
