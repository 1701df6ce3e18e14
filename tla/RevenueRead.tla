------------------------------ MODULE RevenueRead ------------------------------
(***************************************************************************)
(* The revenue pages of a day and of its month: the day's figures from     *)
(* Postgres with the Redis hashes laid over them while the day is today,   *)
(* the package and coverage tables from the flushed cells, the whale table *)
(* from the payer tables.  A page is one read here.                        *)
(***************************************************************************)
EXTENDS Purchase

CONSTANT TopPercents    \* whale_top_percents

ASSUME PagesAssumption == TopPercents \subseteq 1 .. 100

\* Mutant: the hash of today is added to the total that was flushed of it.
AddedTotal(flushed, hot) == flushed + hot

\* The hash was filled from its durable floor: the greater of the two.
LatestTotal(flushed, hot) == IF hot > flushed THEN hot ELSE flushed

DayRevenue(today) == IF today THEN LatestTotal(day.total, total) ELSE day.total

DistinctPayers(today) == day.members \cup (IF today THEN payers ELSE {})

\* A value's packages, summed over the other dimensions.
PackageByValue(v, measure) ==
    MapThenSumSet(LAMBDA c : day.cells[c][measure], {c \in DOMAIN day.cells : c[2] = v})

\* Of the revenue in the cells, what has no context: the coverage page shows
\* 1 - unknown / total.
Coverage ==
    [total |-> MapThenSumSet(LAMBDA v : PackageByValue(v, "rev"), ClientValues),
     unknown |-> PackageByValue("unknown", "rev")]

\* The spends of the month, all of them and those of the top payers.
Spenders == {u \in Users : spine[u].row}
Spend(us) == MapThenSumSet(LAMBDA u : period[u], us)
TopOf(percent) == (percent * Cardinality(Spenders) + 99) \div 100
IsTop(us) == \A u \in us, v \in Spenders \ us : period[u] >= period[v]
Whales(percent) ==
    Spend(CHOOSE us \in SUBSET Spenders : Cardinality(us) = TopOf(percent) /\ IsTop(us))

-----------------------------------------------------------------------------
\* Whatever races or fails, today's page shows each purchase that was rolled up
\* once, and its payer, flushed or not; no page, of today or later, shows revenue
\* or a payer that the payer tables do not have.  Once everything is flushed and
\* nothing failed, the page of the day shows the same without Redis, and so do
\* the package and coverage tables; the top payers' spend is part of the month's
\* (the note on GREATEST at dayRevenue, the header of whaleConcentration).
RevenuePagesAgree ==
    LET paid == Stored.total + Worth(RolledUp)
        known == Stored.members \cup {UserOf[t] : t \in RolledUp}
    IN  /\ DayRevenue(TRUE) = paid /\ DistinctPayers(TRUE) = known
        /\ \A today \in BOOLEAN :
             DayRevenue(today) <= Spend(Spenders) /\ DistinctPayers(today) \subseteq Spenders
        /\ \A p \in TopPercents : p * Spend(Spenders) <= 100 * Whales(p)
        /\ failures = 0 /\ Quiet =>
             /\ DayRevenue(FALSE) = paid /\ DistinctPayers(FALSE) = known
             /\ Coverage.total = paid
             /\ \A v \in ClientValues :
                  PackageByValue(v, "cnt") =
                    MapThenSumSet(LAMBDA x : Accounted(<<x, v>>).cnt, Tiers)
=============================================================================
