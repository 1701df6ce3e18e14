--------------------------- MODULE Purchase_proofs ---------------------------
(***************************************************************************)
(* Proofs about Purchase for any number of payers, transactions, records   *)
(* and sweeps, and for any crashes and records that throw.  The invariant  *)
(* says what a delivery that won the insert may rely on until it has       *)
(* rolled its purchase up: nobody else is on that way for the same         *)
(* transaction, and the transaction has not been counted.                  *)
(* The cells, what is flushed of them, late companions and the pages of    *)
(* RevenueRead follow, each with what it adds to the invariant.            *)
(***************************************************************************)
EXTENDS RevenueRead, FiniteSetTheorems, WellFoundedInduction, TLAPS

Places == {"absent", "queued", "preread", "commit", "join", "wait", "floors", "check",
           "seed", "context", "resolve", "rollup", "stage", "move", "restage",
           "mark mon", "mark rev", "mark payer", "done"}

\* Between the commit and the rollup of a server row.
Won == {"floors", "check", "seed", "context", "resolve", "rollup"}

\* Only server rows come here.
ServersOnly == {"preread", "commit", "context", "rollup"}

Typed ==
    /\ pc \in [Records -> Places]
    /\ tier \in [Records -> Tiers]
    /\ claimed \subseteq Transactions
    /\ counted \in [Transactions -> Nat]
    /\ stamp \in [Transactions -> Tiers \cup {None}]
    /\ \A r \in Records : pc[r] \in ServersOnly => r \in Servers
    /\ \A r \in Records : pc[r] = "join" => r \notin Servers

\* One row a payer; the amounts in it are sums, of which nothing is said here.
SpineTyped == \E Row : spine \in [Users -> Row]

\* At most one delivery of a transaction is on its way to the rollup.
OneWinner ==
    \A r \in Servers : pc[r] \in Won =>
        /\ TxOf[r] \in claimed /\ counted[TxOf[r]] = 0
        /\ \A q \in Servers : TxOf[q] = TxOf[r] /\ pc[q] \in Won => q = r

RowWhenPaid ==
    \A u \in Users : spine[u].row <=> \E t \in claimed : UserOf[t] = u

\* Who read a payer that had paid before commits beside that payment.
RepeatsHaveRow ==
    \A r \in Servers : pc[r] = "commit" /\ tier[r] # "first"
        => spine[UserOf[TxOf[r]]].row

IInv == /\ Typed /\ SpineTyped /\ OneWinner /\ CountedAtMostOnce
        /\ RowWhenPaid /\ RepeatsHaveRow /\ FirstPurchaseStamped

LEMMA ServerFacts ==
    ASSUME NEW r \in Servers
    PROVE  r \in Records /\ TxOf[r] \in Transactions /\ UserOf[TxOf[r]] \in Users
BY ConstantsAssumption DEF Servers

LEMMA TierFacts ==
    ASSUME NEW payer
    PROVE  /\ ClassifyTier(payer) \in Tiers
           /\ ClassifyTier(payer) # "first" => payer.row
BY DEF ClassifyTier, Tiers

LEMMA InitIInv == Init => IInv
<1> SUFFICES ASSUME Init PROVE IInv
    OBVIOUS
<1> USE DEF Init
<1>0. pc \in [Records -> {"absent", "queued"}]
    OBVIOUS
<1>1. Typed
    BY <1>0, ConstantsAssumption DEF Typed, Places, Tiers, ServersOnly
<1>r. SpineTyped
  <2>1. spine \in [Users -> {Payer(Before, u) : u \in Users}]
      OBVIOUS
  <2> QED BY <2>1 DEF SpineTyped
<1>2. \A r \in Servers : pc[r] \in {"absent", "queued"}
    BY <1>0, ServerFacts
<1>3. OneWinner /\ RepeatsHaveRow
    BY <1>2 DEF OneWinner, RepeatsHaveRow, Won
<1>4. CountedAtMostOnce
    BY DEF CountedAtMostOnce
<1>5. RowWhenPaid
    BY DEF RowWhenPaid, Payer
<1>6. FirstPurchaseStamped
    BY ConstantsAssumption DEF FirstPurchaseStamped
<1> QED BY <1>1, <1>r, <1>3, <1>4, <1>5, <1>6 DEF IInv

\* Whatever the invariant speaks of is left alone.
LEMMA Untouched ==
    ASSUME IInv, UNCHANGED <<ledger, pc, tier, stamp, counted>>
    PROVE  IInv'
BY DEF IInv, Typed, SpineTyped, OneWinner, CountedAtMostOnce, RowWhenPaid, RepeatsHaveRow,
       FirstPurchaseStamped, ledger

\* A handler goes on without commit and rollup, and not onto the way to them.
LEMMA HandlerMoves ==
    ASSUME IInv, NEW r \in Records, NEW p \in Places \ {"commit"},
           pc' = [pc EXCEPT ![r] = p],
           tier' \in [Records -> Tiers],
           \A q \in Records \ {r} : tier'[q] = tier[q],
           UNCHANGED <<ledger, stamp, counted>>,
           p \in ServersOnly => r \in Servers, p = "join" => r \notin Servers,
           r \in Servers /\ p \in Won => pc[r] \in Won
    PROVE  IInv'
<1>1. Typed'
    BY DEF IInv, Typed, ledger
<1>2. \A q \in Records : pc'[q] = IF q = r THEN p ELSE pc[q]
    BY DEF IInv, Typed
<1>3. OneWinner'
    BY <1>2, ServerFacts DEF IInv, OneWinner, ledger
<1>4. RepeatsHaveRow'
    BY <1>2, ServerFacts DEF IInv, RepeatsHaveRow, ledger
<1>5. (SpineTyped /\ CountedAtMostOnce /\ RowWhenPaid /\ FirstPurchaseStamped)'
    BY DEF IInv, SpineTyped, CountedAtMostOnce, RowWhenPaid, FirstPurchaseStamped, ledger
<1> QED BY <1>1, <1>3, <1>4, <1>5 DEF IInv

LEMMA PreReadKeeps ==
    ASSUME IInv, NEW r \in Records, PreRead(r)
    PROVE  IInv'
<1> DEFINE u == UserOf[TxOf[r]]
<1>0. r \in Servers
    BY DEF IInv, Typed, PreRead, ServersOnly
<1>1. /\ pc' = [pc EXCEPT ![r] = "commit"]
      /\ tier' = [tier EXCEPT ![r] = ClassifyTier(spine[u])]
      /\ UNCHANGED <<ledger, stamp, counted>>
    BY DEF PreRead, history
<1>2. Typed'
    BY <1>0, <1>1, TierFacts DEF IInv, Typed, Places, ledger
<1>3. \A q \in Records : pc'[q] = IF q = r THEN "commit" ELSE pc[q]
    BY <1>1 DEF IInv, Typed
<1>4. \A q \in Records : tier'[q] = IF q = r THEN ClassifyTier(spine[u]) ELSE tier[q]
    BY <1>1 DEF IInv, Typed
<1>5. OneWinner'
    BY <1>1, <1>3, ServerFacts DEF IInv, OneWinner, Won, ledger
<1>6. RepeatsHaveRow'
  <2> SUFFICES ASSUME NEW q \in Servers, pc'[q] = "commit", tier'[q] # "first"
               PROVE  spine[UserOf[TxOf[q]]].row
      BY <1>1 DEF RepeatsHaveRow, ledger
  <2>1. CASE q = r
      BY <2>1, <1>4, TierFacts
  <2>2. CASE q # r
      BY <2>2, <1>3, <1>4, ServerFacts DEF IInv, RepeatsHaveRow
  <2> QED BY <2>1, <2>2
<1>7. (SpineTyped /\ CountedAtMostOnce /\ RowWhenPaid /\ FirstPurchaseStamped)'
    BY <1>1 DEF IInv, SpineTyped, CountedAtMostOnce, RowWhenPaid, FirstPurchaseStamped, ledger
<1> QED BY <1>2, <1>5, <1>6, <1>7 DEF IInv

\* The commit of a transaction that is not in the table yet.
LEMMA BookKeeps ==
    ASSUME IInv, NEW r \in Servers, pc[r] = "commit", TxOf[r] \notin claimed,
           Book(TxOf[r], tier[r]), pc' = [pc EXCEPT ![r] = "floors"],
           UNCHANGED <<tier, counted>>
    PROVE  IInv'
<1> DEFINE t == TxOf[r]
           u == UserOf[t]
<1>0. r \in Records /\ t \in Transactions /\ u \in Users
    BY ServerFacts
<1>1. /\ claimed' = claimed \cup {t}
      /\ spine' = [spine EXCEPT ![u] = Paid(@, t)]
      /\ stamp' = [stamp EXCEPT ![t] = tier[r]]
    BY DEF Book
<1>2. Typed'
    BY <1>0, <1>1 DEF IInv, Typed, Places, ServersOnly
<1>3. \A q \in Records : pc'[q] = IF q = r THEN "floors" ELSE pc[q]
    BY <1>0 DEF IInv, Typed
<1>4. SpineTyped' /\ \A v \in Users : spine'[v].row <=> (v = u \/ spine[v].row)
  <2>1. PICK Row : spine \in [Users -> Row]
      BY DEF IInv, SpineTyped
  <2>2. spine' \in [Users -> Row \cup {Paid(spine[u], t)}]
      BY <2>1, <1>0, <1>1
  <2>3. \A v \in Users : spine'[v] = IF v = u THEN Paid(spine[u], t) ELSE spine[v]
      BY <2>1, <1>0, <1>1
  <2>4. Paid(spine[u], t).row
      BY DEF Paid
  <2> QED BY <2>2, <2>3, <2>4 DEF SpineTyped
<1>5. \A x \in Transactions : stamp'[x] = IF x = t THEN tier[r] ELSE stamp[x]
    BY <1>0, <1>1 DEF IInv, Typed
<1>6. counted[t] = 0
    BY <1>0 DEF IInv, Typed, CountedAtMostOnce
<1>7. OneWinner'
  <2>1. \A q \in Servers : q # r /\ pc'[q] \in Won => TxOf[q] # t
      BY <1>3, ServerFacts DEF IInv, OneWinner
  <2> QED BY <2>1, <1>1, <1>3, <1>6, ServerFacts DEF IInv, OneWinner
<1>8. CountedAtMostOnce'
    BY <1>1 DEF IInv, CountedAtMostOnce
<1>9. RowWhenPaid'
    BY <1>1, <1>4 DEF IInv, RowWhenPaid
<1>10. RepeatsHaveRow'
    BY <1>3, <1>4, ServerFacts DEF IInv, RepeatsHaveRow
<1>11. FirstPurchaseStamped'
  <2> SUFFICES ASSUME NEW v \in Users, NEW x \in claimed', UserOf[x] = v
               PROVE  \E y \in claimed' : UserOf[y] = v /\ stamp'[y] = "first"
      BY DEF FirstPurchaseStamped
  <2>1. CASE \E y \in claimed : UserOf[y] = v
    <3>1. PICK y \in claimed : UserOf[y] = v /\ stamp[y] = "first"
        BY <2>1 DEF IInv, FirstPurchaseStamped
    <3> QED BY <3>1, <1>1, <1>5 DEF IInv, Typed
  <2>2. CASE ~ \E y \in claimed : UserOf[y] = v
    <3>1. x = t /\ v = u
        BY <2>2, <1>1
    <3>2. ~ spine[u].row
        BY <2>2, <3>1, <1>0 DEF IInv, RowWhenPaid
    <3>3. tier[r] = "first"
        BY <3>2 DEF IInv, RepeatsHaveRow
    <3> QED BY <3>1, <3>3, <1>0, <1>1, <1>5
  <2> QED BY <2>1, <2>2
<1> QED BY <1>2, <1>4, <1>7, <1>8, <1>9, <1>10, <1>11 DEF IInv

LEMMA CommitKeeps ==
    ASSUME IInv, NEW r \in Records, Commit(r)
    PROVE  IInv'
<1>0. r \in Servers /\ pc[r] = "commit" /\ UNCHANGED <<tier, counted>>
    BY DEF IInv, Typed, Commit, ServersOnly
<1>1. CASE TxOf[r] \in claimed
  <2>1. pc' = [pc EXCEPT ![r] = "done"] /\ UNCHANGED <<ledger, stamp>>
      BY <1>1 DEF Commit
  <2> QED BY <1>0, <2>1, HandlerMoves DEF IInv, Typed, Places, Won, ServersOnly
<1>2. CASE TxOf[r] \notin claimed
    BY <1>0, <1>2, BookKeeps DEF Commit
<1> QED BY <1>1, <1>2

LEMMA RollupKeeps ==
    ASSUME IInv, NEW r \in Records, Rollup(r)
    PROVE  IInv'
<1>1. r \in Servers /\ pc[r] = "rollup"
    BY DEF IInv, Typed, Rollup, ServersOnly
<1>2. PICK t \in Transactions : t = TxOf[r]
    BY <1>1, ServerFacts
<1>3. UNCHANGED <<ledger, tier, stamp>>
    BY DEF Rollup
<1>4. t \in claimed /\ counted[t] = 0
    BY <1>1, <1>2 DEF IInv, OneWinner, Won
<1>5. /\ counted' \in [Transactions -> Nat]
      /\ \A x \in Transactions : counted'[x] = IF x = t THEN 1 ELSE counted[x]
  <2>1. counted \in [Transactions -> Nat]
      BY DEF IInv, Typed
  <2>2. counted' = [counted EXCEPT ![t] = counted[t] + 1]
      BY <1>2 DEF Rollup
  <2> QED BY <2>1, <2>2, <1>4
<1>6. CountedAtMostOnce'
  <2>1. claimed' = claimed
      BY <1>3 DEF ledger
  <2> QED BY <1>4, <1>5, <2>1 DEF IInv, CountedAtMostOnce
<1>7. PICK p \in {"mark mon", "stage"} : pc' = [pc EXCEPT ![r] = p]
    BY DEF Rollup
<1>8. Typed'
    BY <1>3, <1>5, <1>7 DEF IInv, Typed, Places, ServersOnly, ledger
<1>9. \A q \in Records : pc'[q] = IF q = r THEN p ELSE pc[q]
    BY <1>7 DEF IInv, Typed
<1>10. OneWinner'
  <2>1. \A q \in Servers : pc'[q] \in Won => pc[q] \in Won /\ TxOf[q] # t
      BY <1>1, <1>2, <1>9, ServerFacts DEF IInv, OneWinner, Won
  <2> QED BY <2>1, <1>3, <1>5, ServerFacts DEF IInv, OneWinner, ledger
<1>11. RepeatsHaveRow'
    BY <1>3, <1>9, ServerFacts DEF IInv, RepeatsHaveRow, ledger
<1>12. (SpineTyped /\ RowWhenPaid /\ FirstPurchaseStamped)'
    BY <1>3 DEF IInv, SpineTyped, RowWhenPaid, FirstPurchaseStamped, ledger
<1> QED BY <1>6, <1>8, <1>10, <1>11, <1>12 DEF IInv

\* The other steps of a handler.
LEMMA RecordKeeps ==
    ASSUME IInv, NEW r \in Records, RecordStep(r) \/ RecordFail(r)
    PROVE  IInv'
<1> USE DEF Places, Won, ServersOnly, history
<1>t. pc \in [Records -> Places] /\ tier \in [Records -> Tiers]
    BY DEF IInv, Typed
<1>s. (pc[r] \in ServersOnly => r \in Servers) /\ (pc[r] = "join" => r \notin Servers)
    BY DEF IInv, Typed
<1>0. ASSUME NEW p \in Places \ {"commit"}, pc' = [pc EXCEPT ![r] = p],
             UNCHANGED <<ledger, tier, stamp, counted>>,
             p \in ServersOnly => r \in Servers, p = "join" => r \notin Servers,
             r \in Servers /\ p \in Won => pc[r] \in Won
      PROVE  IInv'
    BY <1>0, <1>t, HandlerMoves
<1>1. CASE CheckClaimed(r)
    BY <1>1, <1>0 DEF CheckClaimed
<1>2. CASE PreRead(r)
    BY <1>2, PreReadKeeps
<1>3. CASE Commit(r)
    BY <1>3, CommitKeeps
<1>4. CASE Arrive(r)
    BY <1>4, <1>0 DEF Arrive, Servers
<1>5. CASE Join(r)
    BY <1>5, <1>s, <1>0 DEF Join
<1>6. CASE StageCompanion(r)
    BY <1>6, <1>0 DEF StageCompanion
<1>7. CASE ReadFloor(r)
    BY <1>7, <1>0 DEF ReadFloor
<1>8. CASE CheckSeeded(r)
    BY <1>8, <1>0 DEF CheckSeeded, NextHash
<1>9. CASE SeedHash(r)
    BY <1>9, <1>0 DEF SeedHash, NextHash
<1>10. CASE ReadContext(r)
    BY <1>10, <1>0 DEF ReadContext
<1>11. CASE Resolve(r)
    BY <1>11, <1>0 DEF Resolve
<1>12. CASE Rollup(r)
    BY <1>12, RollupKeeps
<1>13. CASE StageServer(r)
    BY <1>13, <1>0 DEF StageServer
<1>14. CASE Move(r)
    BY <1>14, <1>0 DEF Move
<1>15. CASE Restage(r)
    BY <1>15, <1>0 DEF Restage
<1>16. CASE Mark(r)
  <2>1. \A q \in DOMAIN Marking : Marking[q].next \in {"mark rev", "mark payer", "done"}
      BY DEF Marking
  <2>2. /\ pc' = [pc EXCEPT ![r] = Marking[pc[r]].next]
        /\ tier' = [tier EXCEPT ![r] = "first"]
        /\ UNCHANGED <<ledger, stamp, counted>>
      BY <1>16, <1>t DEF Mark
  <2>3. Marking[pc[r]].next \in {"mark rev", "mark payer", "done"}
      BY <1>16, <2>1 DEF Mark
  <2> QED BY <2>2, <2>3, <1>t, HandlerMoves DEF Tiers
<1>17. CASE RecordFail(r)
    BY <1>17, <1>0 DEF RecordFail
<1> QED BY <1>1, <1>2, <1>3, <1>4, <1>5, <1>6, <1>7, <1>8, <1>9, <1>10, <1>11,
           <1>12, <1>13, <1>14, <1>15, <1>16, <1>17 DEF RecordStep

LEMMA CrashKeeps == ASSUME IInv, Crash PROVE IInv'
<1>1. PICK settled \in SUBSET {r \in Records : pc[r] = "done"} :
        pc' = [r \in Records |-> CASE r \in settled -> "done"
                                   [] pc[r] = "absent" -> "absent"
                                   [] OTHER -> "queued"]
    BY DEF Crash
<1>2. UNCHANGED <<ledger, tier, stamp, counted>>
    BY DEF Crash
<1>3. \A r \in Records : pc'[r] \in {"absent", "done", "queued"}
    BY <1>1
<1>4. Typed'
    BY <1>1, <1>2, <1>3 DEF IInv, Typed, Places, ServersOnly, ledger
<1>5. OneWinner' /\ RepeatsHaveRow'
    BY <1>3, ServerFacts DEF OneWinner, RepeatsHaveRow, Won
<1>6. (SpineTyped /\ CountedAtMostOnce /\ RowWhenPaid /\ FirstPurchaseStamped)'
    BY <1>2 DEF IInv, SpineTyped, CountedAtMostOnce, RowWhenPaid,
                FirstPurchaseStamped, ledger
<1> QED BY <1>4, <1>5, <1>6 DEF IInv

LEMMA NextIInv == IInv /\ [Next]_vars => IInv'
<1> SUFFICES ASSUME IInv, [Next]_vars PROVE IInv'
    OBVIOUS
<1> USE DEF handlers, history
<1>1. CASE \E r \in Records : RecordStep(r) \/ RecordFail(r)
    BY <1>1, RecordKeeps
<1>2. CASE \E s \in Sweeps : SweepStep(s)
  <2> PICK s \in Sweeps : SweepStep(s)
      BY <1>2
  <2>1. CASE SweepDrain(s)
      BY <2>1, Untouched DEF SweepDrain
  <2>2. CASE SweepRead(s)
      BY <2>2, Untouched DEF SweepRead
  <2>3. CASE SweepCell(s)
      BY <2>3, Untouched DEF SweepCell
  <2>4. CASE SweepTotal(s)
      BY <2>4, Untouched DEF SweepTotal
  <2>5. CASE SweepMembers(s)
      BY <2>5, Untouched DEF SweepMembers
  <2> QED BY <2>1, <2>2, <2>3, <2>4, <2>5 DEF SweepStep
<1>3. CASE \E s \in Sweeps : SweepFail(s)
    BY <1>3, Untouched DEF SweepFail
<1>4. CASE \E a \in Attempts : Expire(a)
    BY <1>4, Untouched DEF Expire
<1>5. CASE Seal
    BY <1>5, Untouched DEF Seal
<1>6. CASE Crash
    BY <1>6, CrashKeeps
<1>7. CASE UNCHANGED vars
    BY <1>7, Untouched DEF vars
<1> QED BY <1>1, <1>2, <1>3, <1>4, <1>5, <1>6, <1>7 DEF Next

\* The invariant holds in every state (steps 6 to 8 of the kernel).
THEOREM Invariant == Spec => []IInv
BY InitIInv, NextIInv, PTL DEF Spec

\* No purchase is rolled up twice, or without its row in the table of
\* transactions, whatever deliveries race and whatever dies in between.
THEOREM CountedOnce == Spec => []CountedAtMostOnce
<1>1. IInv => CountedAtMostOnce
    BY DEF IInv
<1> QED BY <1>1, Invariant, PTL

\* A payer with a purchase in the table has one that was stamped as the first,
\* whatever purchases of the payer race through step 7.
THEOREM FirstIsStamped == Spec => []FirstPurchaseStamped
<1>1. IInv => FirstPurchaseStamped
    BY DEF IInv
<1> QED BY <1>1, Invariant, PTL

-----------------------------------------------------------------------------
(* Sums over sets of purchases.  The recursion a sum is defined by has one *)
(* solution on finite sets, and the size of a set is one: of the set with  *)
(* an element for each unit of each purchase.  A smallest set on which two *)
(* solutions differ does not exist.                                        *)

\* One element for each unit of each purchase.
Units(ts) == UNION {{t} \X (1 .. Normalized(t)) : t \in ts}

LEMMA NormalizedType == ASSUME NEW t \in Transactions PROVE Normalized(t) \in Nat
BY ConstantsAssumption DEF Normalized

LEMMA UnitsFinite ==
    ASSUME NEW ts \in SUBSET Transactions, IsFiniteSet(ts)
    PROVE  IsFiniteSet(Units(ts)) /\ Cardinality(Units(ts)) \in Nat
<1> DEFINE Part == {{t} \X (1 .. Normalized(t)) : t \in ts}
           f == [t \in ts |-> {t} \X (1 .. Normalized(t))]
<1>1. f \in Surjection(ts, Part)
  BY DEF Surjection
<1>2. IsFiniteSet(Part)
  BY <1>1, FS_Surjection
<1>3. ASSUME NEW p \in Part PROVE IsFiniteSet(p)
  <2>1. PICK t \in ts : p = {t} \X (1 .. Normalized(t))
    OBVIOUS
  <2>2. PICK n \in Nat : n = Normalized(t)
    BY NormalizedType
  <2>3. IsFiniteSet(1 .. n)
    BY FS_Interval
  <2>4. IsFiniteSet({t} \X (1 .. n))
    BY <2>3, FS_Singleton, FS_Product
  <2> QED BY <2>1, <2>2, <2>4
<1>4. IsFiniteSet(UNION Part)
  BY <1>2, <1>3, FS_UNION
<1> QED BY <1>4, FS_CardinalityType DEF Units

LEMMA UnitsAdd ==
    ASSUME NEW ts \in SUBSET Transactions, IsFiniteSet(ts), NEW t \in Transactions \ ts
    PROVE  Cardinality(Units(ts \cup {t})) = Cardinality(Units(ts)) + Normalized(t)
<1> DEFINE mine == {t} \X (1 .. Normalized(t))
<1>1. Normalized(t) \in Nat
  BY NormalizedType
<1>2. IsFiniteSet({t}) /\ Cardinality({t}) = 1
  BY FS_Singleton
<1>3. IsFiniteSet(1 .. Normalized(t)) /\ Cardinality(1 .. Normalized(t)) = Normalized(t)
  BY <1>1, FS_Interval
<1>4. IsFiniteSet(mine) /\ Cardinality(mine) = Normalized(t)
  <2>1. IsFiniteSet(mine) /\ Cardinality(mine) = 1 * Normalized(t)
    BY <1>2, <1>3, FS_Product, ZenonT(60)
  <2> QED BY <1>1, <2>1
<1>5. Units(ts \cup {t}) = Units(ts) \cup mine
  BY DEF Units
<1>6. Units(ts) \cap mine = {}
  BY DEF Units
<1>7. Cardinality({}) = 0
  BY FS_EmptySet
<1>8. Cardinality(Units(ts) \cup mine) = Cardinality(Units(ts)) + Cardinality(mine) - 0
  <2> HIDE DEF mine
  <2> QED BY <1>4, <1>6, <1>7, UnitsFinite, FS_Union
<1>9. Cardinality(Units(ts)) \in Nat
  BY UnitsFinite
<1> HIDE DEF mine
<1>10. Cardinality(Units(ts \cup {t})) = Cardinality(Units(ts) \cup mine)
  BY <1>5
<1>11. Cardinality(Units(ts \cup {t})) = Cardinality(Units(ts)) + Cardinality(mine)
  BY <1>1, <1>4, <1>8, <1>9, <1>10
<1> QED BY <1>4, <1>11

LEMMA UnitsEmpty == Cardinality(Units({})) = 0
BY FS_EmptySet DEF Units

\* The recursive definition of a sum, from one element chosen to the next.
IsFold(f, S) ==
    f = [s \in SUBSET S |->
           IF s = {} THEN 0
           ELSE Normalized(CHOOSE t \in s : TRUE) + f[s \ {CHOOSE t \in s : TRUE}]]

LEMMA WorthIsFold ==
    ASSUME NEW S, \E f : IsFold(f, S)
    PROVE  \E f : IsFold(f, S) /\ Worth(S) = f[S]
<1>1. \E f : Worth(S) = f[S] /\ f = CHOOSE g : IsFold(g, S)
  BY DEF Worth, MapThenSumSet, MapThenFoldSet, IsFold
<1> QED BY <1>1

LEMMA WorthIsSize ==
    ASSUME NEW S \in SUBSET Transactions, IsFiniteSet(S)
    PROVE  Worth(S) = Cardinality(Units(S))
<1> DEFINE size == [s \in SUBSET S |-> Cardinality(Units(s))]
           pick(s) == CHOOSE t \in s : TRUE
<1>1. ASSUME NEW s \in SUBSET S, s # {}
      PROVE  /\ pick(s) \in s
             /\ Cardinality(Units(s)) = Normalized(pick(s)) + Cardinality(Units(s \ {pick(s)}))
  <2>1. PICK t : t = pick(s)
    OBVIOUS
  <2>2. t \in s
    BY <1>1, <2>1
  <2>3. IsFiniteSet(s \ {t}) /\ s \ {t} \in SUBSET Transactions /\ t \in Transactions \ (s \ {t})
    BY <2>2, FS_Subset
  <2>4. (s \ {t}) \cup {t} = s
    BY <2>2
  <2>5. Cardinality(Units(s)) = Cardinality(Units(s \ {t})) + Normalized(t)
    BY <2>3, <2>4, UnitsAdd
  <2>6. Cardinality(Units(s \ {t})) \in Nat /\ Normalized(t) \in Nat
    BY <2>3, UnitsFinite, NormalizedType
  <2> QED BY <2>1, <2>2, <2>5, <2>6
<1>2. IsFold(size, S)
  BY <1>1, UnitsEmpty DEF IsFold
<1>3. PICK f : IsFold(f, S) /\ Worth(S) = f[S]
  BY <1>2, WorthIsFold
<1> DEFINE Bad == {s \in SUBSET S : f[s] # size[s]}
<1>4. ASSUME Bad # {} PROVE FALSE
  <2>1. Bad \subseteq FiniteSubsetsOf(S)
    BY FS_Subset DEF FiniteSubsetsOf
  <2>2. PICK x \in Bad : \A y \in Bad : <<y, x>> \notin StrictSubsetOrdering(S)
    <3> HIDE DEF Bad
    <3> QED BY <1>4, <2>1, WFMin, FS_StrictSubsetOrderingWellFounded, Zenon
  <2>3. x # {}
    BY <1>2, <1>3 DEF IsFold
  <2>4. PICK y \in SUBSET S : y = x \ {pick(x)}
    OBVIOUS
  <2>5. <<y, x>> \in StrictSubsetOrdering(S)
    BY <1>1, <2>3, <2>4 DEF StrictSubsetOrdering
  <2>6. f[y] = size[y]
    BY <2>2, <2>5
  <2>7. f[x] = Normalized(pick(x)) + f[y] /\ size[x] = Normalized(pick(x)) + size[y]
    BY <1>2, <1>3, <2>3, <2>4 DEF IsFold
  <2> QED BY <2>2, <2>6, <2>7
<1> QED BY <1>3, <1>4

\* What a set of purchases is worth, one purchase at a time.
LEMMA WorthEmpty == Worth({}) = 0
BY WorthIsSize, UnitsEmpty, FS_EmptySet

LEMMA WorthType ==
    ASSUME NEW S \in SUBSET Transactions, IsFiniteSet(S)
    PROVE  Worth(S) \in Nat
BY WorthIsSize, UnitsFinite

LEMMA WorthAdd ==
    ASSUME NEW S \in SUBSET Transactions, IsFiniteSet(S), NEW t \in Transactions \ S
    PROVE  Worth(S \cup {t}) = Worth(S) + Normalized(t)
<1>1. IsFiniteSet(S \cup {t}) /\ S \cup {t} \in SUBSET Transactions
  BY FS_AddElement
<1> QED BY <1>1, WorthIsSize, UnitsAdd

LEMMA WorthRemove ==
    ASSUME NEW S \in SUBSET Transactions, IsFiniteSet(S), NEW t \in S
    PROVE  Worth(S \ {t}) = Worth(S) - Normalized(t)
<1>1. IsFiniteSet(S \ {t}) /\ (S \ {t}) \cup {t} = S /\ t \in Transactions \ (S \ {t})
  BY FS_RemoveElement
<1>2. Worth(S) = Worth(S \ {t}) + Normalized(t)
  BY <1>1, WorthAdd
<1> QED BY <1>1, <1>2, WorthType, NormalizedType

-----------------------------------------------------------------------------
(* The payer tables *)

LedgerInv ==
    /\ SpineMatchesClaims /\ IsFiniteSet(claimed)
    /\ period \in [Users -> Nat]

LEMMA MineFinite ==
    ASSUME NEW ts \in SUBSET Transactions, IsFiniteSet(ts), NEW u
    PROVE  LET mine == {t \in ts : UserOf[t] = u}
           IN  mine \in SUBSET Transactions /\ IsFiniteSet(mine)
<1>1. {t \in ts : UserOf[t] = u} \in SUBSET ts
  OBVIOUS
<1> QED BY <1>1, FS_Subset

LEMMA PayerLifetime ==
    ASSUME NEW ts, NEW u
    PROVE  Payer(ts, u).lifetime = Worth({t \in ts : UserOf[t] = u})
BY DEF Payer, Worth

\* One more transaction changes the row of its payer as a commit does.
LEMMA PayerOfOneMore ==
    ASSUME NEW ts \in SUBSET Transactions, IsFiniteSet(ts),
           NEW t \in Transactions \ ts, NEW u \in Users
    PROVE  Payer(ts \cup {t}, u) =
             IF UserOf[t] = u THEN Paid(Payer(ts, u), t) ELSE Payer(ts, u)
<1> DEFINE mine == {x \in ts : UserOf[x] = u}
           more == {x \in ts \cup {t} : UserOf[x] = u}
<1>1. CASE UserOf[t] = u
  <2>1. more = mine \cup {t} /\ t \in Transactions \ mine
    BY <1>1
  <2>2. Worth(more) = Worth(mine) + Normalized(t)
    BY <2>1, MineFinite, WorthAdd, ZenonT(60)
  <2>3. Payer(ts \cup {t}, u).lifetime = Worth(more) /\ Payer(ts, u).lifetime = Worth(mine)
    BY PayerLifetime
  <2>4. Payer(ts \cup {t}, u) = [row |-> TRUE, lifetime |-> Worth(more),
                                 unconverted |-> mine \cap Parked # {} \/ t \in Parked]
    <3>1. more # {} /\ (more \cap Parked # {} <=> (mine \cap Parked # {} \/ t \in Parked))
      BY <2>1
    <3> QED BY <3>1 DEF Payer, Worth
  <2>5. Paid(Payer(ts, u), t) = [row |-> TRUE, lifetime |-> Worth(mine) + Normalized(t),
                                 unconverted |-> mine \cap Parked # {} \/ t \in Parked]
    BY DEF Payer, Paid, Worth
  <2> QED BY <1>1, <2>2, <2>4, <2>5
<1>2. CASE UserOf[t] # u
  <2>1. more = mine
    BY <1>2
  <2> QED BY <1>2, <2>1 DEF Payer
<1> QED BY <1>1, <1>2

LEMMA InitLedger == Init => LedgerInv
<1> SUFFICES ASSUME Init PROVE LedgerInv
  OBVIOUS
<1>1. IsFiniteSet(Before) /\ Before \in SUBSET Transactions
  BY ConstantsAssumption
<1>2. ASSUME NEW u \in Users PROVE Payer(Before, u).lifetime \in Nat
  <2> DEFINE mine == {t \in Before : UserOf[t] = u}
  <2>1. mine \in SUBSET Transactions /\ IsFiniteSet(mine)
    BY <1>1, MineFinite
  <2>2. Worth(mine) \in Nat
    BY <2>1, WorthType
  <2> QED BY <2>2, PayerLifetime
<1>3. period = [u \in Users |-> Payer(Before, u).lifetime]
  BY DEF Init
<1>4. period \in [Users -> Nat]
  BY <1>2, <1>3
<1>5. SpineMatchesClaims
  BY <1>3 DEF Init, SpineMatchesClaims
<1> QED BY <1>1, <1>4, <1>5 DEF Init, LedgerInv

LEMMA BookMatches ==
    ASSUME IInv, LedgerInv, NEW t \in Transactions \ claimed, NEW x, Book(t, x)
    PROVE  LedgerInv'
<1> DEFINE u == UserOf[t]
<1>1. u \in Users /\ Normalized(t) \in Nat
  BY ConstantsAssumption, NormalizedType
<1>2. claimed \in SUBSET Transactions /\ IsFiniteSet(claimed)
  BY DEF IInv, Typed, LedgerInv
<1>3. claimed' = claimed \cup {t} /\ IsFiniteSet(claimed')
  BY <1>2, FS_AddElement DEF Book
<1>4. \A v \in Users : spine'[v] = IF v = u THEN Paid(spine[u], t) ELSE spine[v]
  BY <1>1 DEF Book, IInv, SpineTyped
<1>5. /\ period' \in [Users -> Nat]
      /\ \A v \in Users : period'[v] = IF v = u THEN period[u] + Normalized(t) ELSE period[v]
  BY <1>1 DEF Book, LedgerInv
<1>6. ASSUME NEW v \in Users
      PROVE  spine'[v] = Payer(claimed', v) /\ period'[v] = Payer(claimed', v).lifetime
  <2>1. spine[v] = Payer(claimed, v) /\ period[v] = Payer(claimed, v).lifetime
    BY DEF LedgerInv, SpineMatchesClaims
  <2>2. Payer(claimed', v) = IF u = v THEN Paid(Payer(claimed, v), t) ELSE Payer(claimed, v)
    BY <1>2, <1>3, PayerOfOneMore
  <2>3. Paid(Payer(claimed, v), t).lifetime = Payer(claimed, v).lifetime + Normalized(t)
    BY DEF Paid
  <2> QED BY <1>4, <1>5, <2>1, <2>2, <2>3
<1>7. SpineMatchesClaims'
  BY <1>6 DEF SpineMatchesClaims
<1> QED BY <1>3, <1>5, <1>7 DEF LedgerInv

LEMMA LedgerStays ==
    ASSUME LedgerInv, UNCHANGED ledger
    PROVE  LedgerInv'
BY DEF LedgerInv, SpineMatchesClaims, ledger

LEMMA RecordLedger ==
    ASSUME IInv, LedgerInv, NEW r \in Records, RecordStep(r) \/ RecordFail(r)
    PROVE  LedgerInv'
<1>1. CASE Commit(r)
  <2>1. r \in Servers
    BY <1>1 DEF Commit, IInv, Typed, ServersOnly
  <2>2. CASE TxOf[r] \in claimed
    BY <1>1, <2>2, LedgerStays DEF Commit
  <2>3. CASE TxOf[r] \notin claimed
    <3>1. Book(TxOf[r], tier[r]) /\ TxOf[r] \in Transactions \ claimed
      BY <1>1, <2>1, <2>3, ServerFacts DEF Commit
    <3> QED BY <3>1, BookMatches
  <2> QED BY <2>2, <2>3
<1>2. CASE CheckClaimed(r) \/ PreRead(r) \/ Arrive(r) \/ Join(r) \/ StageCompanion(r)
  BY <1>2, LedgerStays DEF CheckClaimed, PreRead, Arrive, Join, StageCompanion
<1>3. CASE ReadFloor(r) \/ CheckSeeded(r) \/ SeedHash(r) \/ ReadContext(r) \/ Resolve(r)
  BY <1>3, LedgerStays DEF ReadFloor, CheckSeeded, SeedHash, ReadContext, Resolve
<1>4. CASE Rollup(r) \/ StageServer(r) \/ Move(r) \/ Restage(r) \/ Mark(r) \/ RecordFail(r)
  BY <1>4, LedgerStays DEF Rollup, StageServer, Move, Restage, Mark, RecordFail
<1> QED BY <1>1, <1>2, <1>3, <1>4 DEF RecordStep

LEMMA NextLedger == IInv /\ LedgerInv /\ [Next]_vars => LedgerInv'
<1> SUFFICES ASSUME IInv, LedgerInv, [Next]_vars PROVE LedgerInv'
  OBVIOUS
<1>1. CASE \E r \in Records : RecordStep(r) \/ RecordFail(r)
  BY <1>1, RecordLedger
<1>2. CASE \E s \in Sweeps : SweepStep(s) \/ SweepFail(s)
  BY <1>2, LedgerStays DEF SweepStep, SweepDrain, SweepRead, SweepCell, SweepTotal,
                           SweepMembers, SweepFail
<1>3. CASE (\E a \in Attempts : Expire(a)) \/ Seal \/ Crash
  BY <1>3, LedgerStays DEF Expire, Seal, Crash
<1>4. CASE UNCHANGED vars
  BY <1>4, LedgerStays DEF vars
<1> QED BY <1>1, <1>2, <1>3, <1>4 DEF Next

\* Lifetime spend, the parked flag and the spend of the month are always what the
\* table of transactions adds up to, however deliveries race through step 7 and
\* whatever dies (payer_spine_ext and payer_period_spend).
THEOREM SpineCorrect == Spec => []SpineMatchesClaims
<1>1. LedgerInv => SpineMatchesClaims
  BY DEF LedgerInv
<1> QED BY <1>1, Invariant, InitLedger, NextLedger, PTL DEF Spec

-----------------------------------------------------------------------------
(* The cells of the day.  A companion moves its purchase from the cell it  *)
(* read in the stage, so it must still be there: nobody else may move it.  *)
(* That holds when an attempt has one companion, whose deliveries share an *)
(* event id and are told apart from a transaction by having none.          *)

\* Deliveries of a companion share its event id, and an attempt has one companion.
OneContext ==
    /\ \A r \in Companions : TxOf[r] = None
    /\ \A q, r \in Companions : AttemptOf[q] = AttemptOf[r] => EventOf[q] = EventOf[r]

Suffixes == {SeedOrder, <<"meta", "payer", "rev">>, <<"payer", "rev">>, <<"rev">>}
Passed(l) == {h \in Hashes : \A i \in 1 .. Len(l) : l[i] # h}

\* With a day that was read; behind the seeds; a companion with a row in hand, and
\* on its way at all.
Reading == {"check", "seed"}
Past == {"context", "resolve", "rollup", "stage", "move", "restage"}
Carrying == {"floors", "check", "seed", "resolve", "move"}
Busy == Carrying \cup {"join", "restage"}

\* What a handler needs where it is.
Ready(r) ==
    /\ pc[r] \in {"rollup", "stage", "move", "restage"} => value[r] \in ClientValues
    /\ pc[r] \in {"wait", "move", "restage"} => r \notin Servers
    /\ pc[r] = "stage" => r \in Servers /\ AttemptOf[r] \in Attempts
    /\ r \notin Servers /\ pc[r] \in Carrying => held[r] \in Staged

ShapedHandlers ==
    /\ todo \in [Records -> Suffixes] /\ DOMAIN floor = Records
    /\ held \in [Records -> Staged \cup {None}]
    /\ value \in [Records -> ClientValues \cup {None}]

ShapedStores ==
    /\ stage \in [Attempts -> [srv : Staged \cup {None}, cmp : Values \cup {None}]]
    /\ place \in [Transactions -> Cells \cup {None}]
    /\ day = [cells |-> day.cells, total |-> day.total, gen |-> day.gen,
              members |-> day.members]

ShapedSweeps ==
    /\ spc \in [Sweeps -> Domains \X {"drain", "read", "write"}]
    /\ DOMAIN rows = Sweeps /\ DOMAIN snap = Sweeps

Shaped == ShapedHandlers /\ ShapedStores /\ ShapedSweeps /\ \A r \in Records : Ready(r)

\* A handler passes a hash when it carries the marker.
SeedsInOrder ==
    \A r \in Records :
      Passed(todo[r]) \subseteq seeded /\ (pc[r] \in Past => Hashes \subseteq seeded)

\* What a day in Postgres, or as a handler has read it, may hold: the floor until
\* the hash is seeded, what is in the hash from then on.
DayKnown(d) ==
    /\ IF "mon" \in seeded THEN DOMAIN d.cells \subseteq DOMAIN cells
                           ELSE d.cells = Stored.cells
    /\ "rev" \notin seeded => d.total = Stored.total
    /\ IF "payer" \in seeded THEN d.members \subseteq payers ELSE d.members = Stored.members

DaysKnown == DayKnown(day) /\ \A r \in Records : pc[r] \in Reading => DayKnown(floor[r])

HotKnown ==
    /\ "mon" \notin seeded => cells = Empty
    /\ "payer" \notin seeded => payers = {}
    /\ ~ (Hashes \subseteq seeded) => RolledUp = {}
    /\ IsFiniteSet(RolledUp)
    /\ \A t \in Transactions : counted[t] = 0 => place[t] = None

SweepsKnown ==
    \A s \in Sweeps :
      /\ rows[s] \subseteq DOMAIN cells
      /\ spc[s][2] = "write" => spc[s][1] \in seeded
      /\ spc[s] = <<"payer", "write">> => snap[s].members \subseteq payers

\* Of the deliveries of a companion one gets past the window.
OneCompanion ==
    \A r \in Companions : pc[r] \in Busy =>
        /\ EventOf[r] \in dedup
        /\ \A q \in Companions : EventOf[q] = EventOf[r] /\ pc[q] \in Busy => q = r

InPlace(e) == place[e.tx] = e.cell /\ e.rev = Normalized(e.tx)

StagedInPlace ==
    \A r \in Companions :
      (EventOf[r] \notin dedup \/ pc[r] = "join") /\ stage[AttemptOf[r]].srv # None
        => InPlace(stage[AttemptOf[r]].srv)

HeldInPlace == \A r \in Companions : pc[r] \in Carrying => InPlace(held[r])

RolledInPlace ==
    \A r \in Servers : pc[r] = "stage" =>
        /\ place[TxOf[r]] = <<tier[r], value[r]>>
        /\ \A a \in Attempts : stage[a].srv # None => stage[a].srv.tx # TxOf[r]
        /\ \A q \in Companions : pc[q] \in Carrying => held[q].tx # TxOf[r]
        /\ \A q \in Servers : pc[q] = "stage" /\ TxOf[q] = TxOf[r] => q = r

\* A purchase is known under one attempt.
Has(t, a) ==
    \/ \E r \in Servers : pc[r] = "stage" /\ TxOf[r] = t /\ AttemptOf[r] = a
    \/ stage[a].srv # None /\ stage[a].srv.tx = t
    \/ \E r \in Companions : pc[r] \in Carrying /\ held[r].tx = t /\ AttemptOf[r] = a

OneAttempt ==
    \A t \in Transactions, a \in Attempts : Has(t, a) =>
        /\ counted[t] > 0
        /\ \A b \in Attempts : Has(t, b) => a = b

Tables == HotKnown /\ CellsHoldEachPurchaseOnce

Contexts == OneCompanion /\ StagedInPlace /\ HeldInPlace /\ RolledInPlace /\ OneAttempt

CellInv == Shaped /\ SeedsInOrder /\ DaysKnown /\ SweepsKnown /\ Tables /\ Contexts

LEMMA AllAhead == Passed(SeedOrder) = {}
<1>1. 1 \in 1 .. 4 /\ 2 \in 1 .. 4 /\ 3 \in 1 .. 4 /\ 4 \in 1 .. 4 /\ Len(SeedOrder) = 4
  BY DEF SeedOrder
<1> QED BY <1>1 DEF Passed, Hashes, SeedOrder

LEMMA SuffixFacts ==
    ASSUME NEW l \in Suffixes
    PROVE  /\ Head(l) \in Hashes /\ Len(l) \in Nat
           /\ Len(l) = 1 => Passed(l) \cup {Head(l)} = Hashes
           /\ Len(l) # 1 => /\ Tail(l) \in Suffixes
                            /\ Passed(Tail(l)) = Passed(l) \cup {Head(l)}
<1>0. /\ Passed(SeedOrder) = {}
      /\ Passed(<<"meta", "payer", "rev">>) = {"mon"}
      /\ Passed(<<"payer", "rev">>) = {"mon", "meta"}
      /\ Passed(<<"rev">>) = {"mon", "meta", "payer"}
  <2>1. Passed(SeedOrder) = {}
    BY AllAhead
  <2>2. ASSUME NEW h PROVE h \in Passed(<<"meta", "payer", "rev">>) <=> h = "mon"
    <3>1. \A i \in 1 .. 3 : i = 1 \/ i = 2 \/ i = 3
      OBVIOUS
    <3>2. 1 \in 1 .. 3 /\ 2 \in 1 .. 3 /\ 3 \in 1 .. 3
      OBVIOUS
    <3> QED BY <3>1, <3>2 DEF Passed, Hashes
  <2>3. ASSUME NEW h PROVE h \in Passed(<<"payer", "rev">>) <=> h \in {"mon", "meta"}
    <3>1. \A i \in 1 .. 2 : i = 1 \/ i = 2
      OBVIOUS
    <3>2. 1 \in 1 .. 2 /\ 2 \in 1 .. 2
      OBVIOUS
    <3> QED BY <3>1, <3>2 DEF Passed, Hashes
  <2>4. ASSUME NEW h PROVE h \in Passed(<<"rev">>) <=> h \in {"mon", "meta", "payer"}
    <3>1. \A i \in 1 .. 1 : i = 1
      OBVIOUS
    <3>2. 1 \in 1 .. 1
      OBVIOUS
    <3> QED BY <3>1, <3>2 DEF Passed, Hashes
  <2> QED BY <2>1, <2>2, <2>3, <2>4
<1>1. CASE l = SeedOrder
  <2>1. Head(l) = "mon" /\ Len(l) = 4 /\ Tail(l) = <<"meta", "payer", "rev">>
    BY <1>1 DEF SeedOrder
  <2>2. Tail(l) \in Suffixes
    BY <2>1 DEF Suffixes
  <2>3. Passed(l) = {} /\ Passed(Tail(l)) = {"mon"}
    BY <1>0, <1>1, <2>1
  <2> QED BY <2>1, <2>2, <2>3 DEF Hashes
<1>2. CASE l = <<"meta", "payer", "rev">>
  <2>1. Head(l) = "meta" /\ Len(l) = 3 /\ Tail(l) = <<"payer", "rev">>
    BY <1>2
  <2> QED BY <1>0, <2>1, <1>2 DEF Hashes, Suffixes
<1>3. CASE l = <<"payer", "rev">>
  <2>1. Head(l) = "payer" /\ Len(l) = 2 /\ Tail(l) = <<"rev">>
    BY <1>3
  <2> QED BY <1>0, <2>1, <1>3 DEF Hashes, Suffixes
<1>4. CASE l = <<"rev">>
  <2>1. Head(l) = "rev" /\ Len(l) = 1
    BY <1>4
  <2> QED BY <1>0, <2>1, <1>4 DEF Hashes, Suffixes
<1> QED BY <1>1, <1>2, <1>3, <1>4 DEF Suffixes

LEMMA AtAdded ==
    ASSUME NEW h, NEW x, NEW n, NEW v, NEW c
    PROVE  At(Added(h, x, n, v), c) =
             IF c = x THEN [cnt |-> At(h, x).cnt + n, rev |-> At(h, x).rev + n * v]
             ELSE At(h, c)
BY DEF At, Added

\* What a step that leaves the tables alone keeps.
LEMMA TablesStay ==
    ASSUME Tables, UNCHANGED <<cells, total, payers, seeded, counted, place>>
    PROVE  Tables'
<1>1. RolledUp' = RolledUp /\ \A c : InCell(c)' = InCell(c)
  BY DEF RolledUp, InCell
<1>2. \A c : Accounted(c)' = Accounted(c) /\ At(cells', c) = At(cells, c)
  BY <1>1 DEF Accounted
<1>3. HotKnown'
  BY <1>1 DEF Tables, HotKnown
<1>4. CellsHoldEachPurchaseOnce'
  BY <1>1, <1>2 DEF Tables, CellsHoldEachPurchaseOnce
<1> QED BY <1>3, <1>4 DEF Tables

\* Handlers go on, or end, and the stage loses at most its rows.
LEMMA ContextsStay ==
    ASSUME IInv, CellInv, UNCHANGED <<dedup, place, counted>>,
           \A q \in Companions :
             /\ pc'[q] \in Busy => pc[q] \in Busy
             /\ pc'[q] = "join" => pc[q] = "join"
             /\ pc'[q] \in Carrying => pc[q] \in Carrying /\ held'[q] = held[q],
           \A q \in Servers :
             pc'[q] = "stage" => pc[q] = "stage" /\ tier'[q] = tier[q] /\ value'[q] = value[q],
           \A a \in Attempts : stage'[a].srv # None => stage'[a].srv = stage[a].srv
    PROVE  Contexts'
<1>1. OneCompanion'
  BY DEF CellInv, Contexts, OneCompanion
<1>2. StagedInPlace'
  <2> SUFFICES ASSUME NEW r \in Companions, EventOf[r] \notin dedup \/ pc[r] = "join",
                      stage'[AttemptOf[r]].srv # None
               PROVE  InPlace(stage[AttemptOf[r]].srv)'
    BY DEF StagedInPlace, InPlace
  <2>1. AttemptOf[r] \in Attempts
    BY ConstantsAssumption
  <2> QED BY <2>1 DEF CellInv, Contexts, StagedInPlace, InPlace
<1>3. HeldInPlace'
  BY DEF CellInv, Contexts, HeldInPlace, InPlace
<1>4. RolledInPlace'
  <2> SUFFICES ASSUME NEW r \in Servers, pc'[r] = "stage"
               PROVE  /\ place[TxOf[r]] = <<tier[r], value[r]>>
                      /\ \A a \in Attempts : stage'[a].srv # None => stage'[a].srv.tx # TxOf[r]
                      /\ \A q \in Companions : pc'[q] \in Carrying => held'[q].tx # TxOf[r]
                      /\ \A q \in Servers : pc'[q] = "stage" /\ TxOf[q] = TxOf[r] => q = r
    BY DEF RolledInPlace
  <2> QED BY ZenonT(60) DEF CellInv, Contexts, RolledInPlace
<1>5. ASSUME NEW t \in Transactions, NEW a \in Attempts, Has(t, a)'
      PROVE  Has(t, a)
  BY <1>5 DEF Has
<1>6. OneAttempt'
  BY <1>5 DEF CellInv, Contexts, OneAttempt
<1> QED BY <1>1, <1>2, <1>3, <1>4, <1>6 DEF Contexts

\* The types, step by step.
LEMMA ReadyMoves ==
    ASSUME IInv, CellInv, NEW r \in Records, NEW p, pc' = [pc EXCEPT ![r] = p],
           \A q \in Records \ {r} : value'[q] = value[q] /\ held'[q] = held[q],
           p \in {"rollup", "stage", "move", "restage"} => value'[r] \in ClientValues,
           p \in {"wait", "move", "restage"} => r \notin Servers,
           p = "stage" => r \in Servers /\ AttemptOf[r] \in Attempts,
           r \notin Servers /\ p \in Carrying => held'[r] \in Staged
    PROVE  \A q \in Records : Ready(q)'
<1>1. \A q \in Records : pc'[q] = IF q = r THEN p ELSE pc[q]
  BY DEF IInv, Typed
<1> QED BY <1>1 DEF CellInv, Shaped, Ready

LEMMA NextHashShapes ==
    ASSUME IInv, CellInv, NEW r \in Records, NextHash(r), UNCHANGED held,
           pc[r] \in Carrying
    PROVE  ShapedHandlers' /\ \A q \in Records : Ready(q)'
<1> DEFINE last == Len(todo[r]) = 1
<1>1. todo[r] \in Suffixes
  BY DEF CellInv, Shaped, ShapedHandlers
<1>2. todo' = [todo EXCEPT ![r] = IF last THEN SeedOrder ELSE Tail(todo[r])]
  BY DEF NextHash
<1>3. (IF last THEN SeedOrder ELSE Tail(todo[r])) \in Suffixes
  BY <1>1, SuffixFacts DEF Suffixes
<1>4. todo' \in [Records -> Suffixes]
  BY <1>2, <1>3 DEF CellInv, Shaped, ShapedHandlers
<1>5. r \in Companions => ValueOf[r] \in ClientValues \cup {None}
  BY ConstantsAssumption DEF ClientValues
<1>6. value' \in [Records -> ClientValues \cup {None}]
      /\ \A q \in Records \ {r} : value'[q] = value[q]
  BY <1>5 DEF NextHash, CellInv, Shaped, ShapedHandlers
<1>7. ShapedHandlers'
  BY <1>4, <1>6 DEF NextHash, CellInv, Shaped, ShapedHandlers
<1>8. PICK p \in {"floors", "context", "resolve"} : pc' = [pc EXCEPT ![r] = p]
  BY DEF NextHash
<1>9. r \notin Servers => held[r] \in Staged
  BY DEF CellInv, Shaped, Ready
<1> QED BY <1>6, <1>7, <1>8, <1>9, ReadyMoves

LEMMA ResolvedType ==
    ASSUME IInv, CellInv, NEW r \in Records, pc[r] = "resolve"
    PROVE  Resolved(r) \in ClientValues
<1>1. value[r] \in ClientValues \cup {None}
  BY DEF CellInv, Shaped, ShapedHandlers
<1>2. Unsupplied(r) \in ClientValues
  <2>1. CASE r \in Servers
    BY <2>1 DEF Unsupplied, ClientValues
  <2>2. CASE r \notin Servers
    <3>1. held[r].cell \in Cells
      BY <2>2 DEF CellInv, Shaped, Ready, Carrying, Staged
    <3> QED BY <2>2, <3>1 DEF Unsupplied, Cells
  <2> QED BY <2>1, <2>2
<1>3. value[r] # None => Guarded(value[r]) \in ClientValues
  BY <1>1 DEF Guarded, ClientValues
<1> QED BY <1>2, <1>3 DEF Resolved

LEMMA RecordShaped ==
    ASSUME IInv, CellInv, NEW r \in Records, RecordStep(r) \/ RecordFail(r)
    PROVE  Shaped'
<1> USE DEF Carrying
<1>t. ShapedHandlers /\ ShapedStores /\ ShapedSweeps
  BY DEF CellInv, Shaped
<1>h. ASSUME UNCHANGED <<todo, floor, held, value>>, UNCHANGED <<stage, place, day>>,
             UNCHANGED sweepers, NEW p, pc' = [pc EXCEPT ![r] = p],
             p \notin {"rollup", "stage", "move", "restage", "wait"},
             r \notin Servers /\ p \in Carrying => pc[r] \in Carrying
      PROVE  Shaped'
  <2>1. r \notin Servers /\ p \in Carrying => held'[r] \in Staged
    BY <1>h DEF CellInv, Shaped, Ready
  <2>2. \A q \in Records : Ready(q)'
    BY <1>h, <2>1, ReadyMoves
  <2> QED BY <1>h, <1>t, <2>2 DEF Shaped, ShapedHandlers, ShapedStores, ShapedSweeps, sweepers
<1>s. ASSUME ShapedHandlers', ShapedStores', UNCHANGED sweepers, \A q \in Records : Ready(q)'
      PROVE  Shaped'
  BY <1>s, <1>t DEF Shaped, ShapedSweeps, sweepers
<1>1. CASE CheckClaimed(r) \/ PreRead(r) \/ Commit(r) \/ Arrive(r) \/ RecordFail(r)
  <2>1. PICK p \in {"done", "preread", "commit", "floors", "join"} :
          pc' = [pc EXCEPT ![r] = p] /\ (p = "floors" => Commit(r))
    BY <1>1 DEF CheckClaimed, PreRead, Commit, Arrive, RecordFail
  <2>2. p = "floors" => r \in Servers
    BY <2>1 DEF IInv, Typed, Commit, ServersOnly
  <2>3. UNCHANGED <<todo, floor, held, value>> /\ UNCHANGED <<stage, place, day>>
        /\ UNCHANGED sweepers
    BY <1>1 DEF CheckClaimed, PreRead, Commit, Arrive, RecordFail, history
  <2> QED BY <1>h, <2>1, <2>2, <2>3
<1>2. CASE Join(r)
  <2> DEFINE srv == stage[AttemptOf[r]].srv
  <2>1. AttemptOf[r] \in Attempts
    BY <1>2, ConstantsAssumption DEF IInv, Typed, Join, Servers
  <2>2. srv \in Staged \cup {None}
    BY <1>t, <2>1 DEF ShapedStores
  <2>3. held' = [held EXCEPT ![r] = srv] /\ UNCHANGED <<stage, place, day, todo, floor, value>>
    BY <1>2 DEF Join, history
  <2>4. ShapedHandlers' /\ ShapedStores' /\ \A q \in Records \ {r} : held'[q] = held[q]
    BY <1>t, <2>2, <2>3 DEF ShapedHandlers, ShapedStores
  <2>5. PICK p \in {"wait", "done", "floors"} :
          pc' = [pc EXCEPT ![r] = p] /\ (p = "floors" => srv # None)
    BY <1>2 DEF Join
  <2>8. r \notin Servers
    BY <1>2 DEF Join, IInv, Typed
  <2>6. held'[r] = srv
    BY <1>t, <2>3 DEF ShapedHandlers
  <2>7. \A q \in Records : Ready(q)'
    BY <2>2, <2>3, <2>4, <2>5, <2>6, <2>8, ReadyMoves
  <2> QED BY <1>2, <1>s, <2>4, <2>7 DEF Join
<1>3. CASE StageCompanion(r)
  <2>1. r \in Companions
    BY <1>3 DEF StageCompanion, CellInv, Shaped, Ready, Servers
  <2>2. AttemptOf[r] \in Attempts /\ ValueOf[r] \in Values \cup {None}
    BY <2>1, ConstantsAssumption
  <2>3. stage' \in [Attempts -> [srv : Staged \cup {None}, cmp : Values \cup {None}]]
    BY <1>t, <1>3, <2>2 DEF StageCompanion, ShapedStores
  <2>4. ShapedHandlers' /\ ShapedStores'
    BY <1>t, <1>3, <2>3 DEF StageCompanion, ShapedHandlers, ShapedStores, history
  <2>5. \A q \in Records : Ready(q)'
    BY <1>3, ReadyMoves DEF StageCompanion
  <2> QED BY <1>3, <1>s, <2>4, <2>5 DEF StageCompanion
<1>4. CASE ReadFloor(r)
  <2>1. ShapedHandlers' /\ ShapedStores'
    BY <1>t, <1>4 DEF ReadFloor, ShapedHandlers, ShapedStores, history
  <2>2. r \notin Servers => held[r] \in Staged
    BY <1>4 DEF ReadFloor, CellInv, Shaped, Ready
  <2>3. \A q \in Records : Ready(q)'
    BY <1>4, <2>2, ReadyMoves DEF ReadFloor
  <2> QED BY <1>4, <1>s, <2>1, <2>3 DEF ReadFloor
<1>5. CASE CheckSeeded(r)
  <2>1. CASE NextHash(r)
    <3>1. ShapedHandlers' /\ \A q \in Records : Ready(q)'
      BY <1>5, <2>1, NextHashShapes DEF CheckSeeded
    <3>2. ShapedStores'
      BY <1>t, <1>5 DEF CheckSeeded, ShapedStores, history
    <3> QED BY <1>5, <1>s, <3>1, <3>2 DEF CheckSeeded
  <2>2. CASE ~ NextHash(r)
    BY <1>5, <1>h, <2>2 DEF CheckSeeded, history
  <2> QED BY <2>1, <2>2
<1>6. CASE SeedHash(r)
  <2>1. ShapedHandlers' /\ \A q \in Records : Ready(q)'
    BY <1>6, NextHashShapes DEF SeedHash
  <2>2. ShapedStores'
    BY <1>t, <1>6 DEF SeedHash, ShapedStores, history
  <2> QED BY <1>6, <1>s, <2>1, <2>2 DEF SeedHash
<1>7. CASE ReadContext(r)
  <2> DEFINE v == IF AttemptOf[r] = None THEN None ELSE stage[AttemptOf[r]].cmp
  <2>1. v \in ClientValues \cup {None}
    BY <1>t, ConstantsAssumption DEF ShapedStores, ClientValues
  <2>2. value' = [value EXCEPT ![r] = v]
    BY <1>7 DEF ReadContext
  <2>3. ShapedHandlers' /\ ShapedStores'
    BY <1>t, <1>7, <2>1, <2>2 DEF ReadContext, ShapedHandlers, ShapedStores, history
  <2>4. r \in Servers
    BY <1>7 DEF ReadContext, IInv, Typed, ServersOnly
  <2>5. \A q \in Records : Ready(q)'
    BY <1>t, <1>7, <2>2, <2>4, ReadyMoves DEF ReadContext, ShapedHandlers
  <2> QED BY <1>7, <1>s, <2>3, <2>5 DEF ReadContext
<1>8. CASE Resolve(r)
  <2>1. Resolved(r) \in ClientValues /\ value' = [value EXCEPT ![r] = Resolved(r)]
    BY <1>8, ResolvedType DEF Resolve
  <2>2. ShapedHandlers' /\ ShapedStores' /\ value'[r] \in ClientValues
    BY <1>t, <1>8, <2>1 DEF Resolve, ShapedHandlers, ShapedStores, history
  <2>3. PICK p \in {"rollup", "move"} :
          pc' = [pc EXCEPT ![r] = p] /\ (p = "move" => r \notin Servers)
    BY <1>8 DEF Resolve
  <2>4. p = "move" => held[r] \in Staged
    BY <1>8, <2>3 DEF Resolve, CellInv, Shaped, Ready
  <2>5. \A q \in Records : Ready(q)'
    BY <1>t, <1>8, <2>1, <2>2, <2>3, <2>4, ReadyMoves DEF Resolve, ShapedHandlers
  <2> QED BY <1>8, <1>s, <2>2, <2>5 DEF Resolve
<1>9. CASE Rollup(r)
  <2>1. r \in Servers /\ TxOf[r] \in Transactions
    BY <1>9, ServerFacts DEF Rollup, IInv, Typed, ServersOnly
  <2>2. value[r] \in ClientValues /\ tier[r] \in Tiers
    BY <1>9 DEF Rollup, CellInv, Shaped, Ready, IInv, Typed
  <2>3. <<tier[r], value[r]>> \in Cells
    BY <2>2 DEF Cells
  <2>4. ShapedHandlers' /\ ShapedStores'
    BY <1>t, <1>9, <2>1, <2>3 DEF Rollup, ShapedHandlers, ShapedStores
  <2>5. PICK p \in {"mark mon", "stage"} :
          pc' = [pc EXCEPT ![r] = p] /\ (p = "stage" => AttemptOf[r] # None)
    BY <1>9 DEF Rollup
  <2>6. AttemptOf[r] # None => AttemptOf[r] \in Attempts
    BY ConstantsAssumption
  <2>7. UNCHANGED <<value, held>>
    BY <1>9 DEF Rollup
  <2>8. \A q \in Records : Ready(q)'
    BY <2>1, <2>2, <2>5, <2>6, <2>7, ReadyMoves
  <2> QED BY <1>9, <1>s, <2>4, <2>8 DEF Rollup
<1>10. CASE StageServer(r)
  <2> DEFINE e == [tx |-> TxOf[r], cell |-> <<tier[r], value[r]>>, rev |-> Normalized(TxOf[r])]
  <2>1. r \in Servers /\ AttemptOf[r] \in Attempts /\ value[r] \in ClientValues
        /\ tier[r] \in Tiers
    BY <1>10 DEF StageServer, CellInv, Shaped, Ready, IInv, Typed
  <2>2. e \in Staged
    BY <2>1, ServerFacts, NormalizedType DEF Staged, Cells
  <2>3. stage' = [stage EXCEPT ![AttemptOf[r]].srv = e]
    BY <1>10 DEF StageServer
  <2>6. stage' \in [Attempts -> [srv : Staged \cup {None}, cmp : Values \cup {None}]]
    <3> HIDE DEF e
    <3> QED BY <1>t, <2>1, <2>2, <2>3 DEF ShapedStores
  <2>4. ShapedHandlers' /\ ShapedStores'
    BY <1>t, <1>10, <2>6 DEF StageServer, ShapedHandlers, ShapedStores, history
  <2>5. \A q \in Records : Ready(q)'
    BY <1>10, ReadyMoves DEF StageServer
  <2> QED BY <1>10, <1>s, <2>4, <2>5 DEF StageServer
<1>11. CASE Move(r)
  <2>1. held[r] \in Staged /\ value[r] \in ClientValues /\ r \notin Servers
    BY <1>11 DEF Move, CellInv, Shaped, Ready
  <2>2. <<held[r].cell[1], value[r]>> \in Cells
    BY <2>1 DEF Staged, Cells
  <2>3. ShapedHandlers' /\ ShapedStores'
    BY <1>t, <1>11, <2>1, <2>2 DEF Move, ShapedHandlers, ShapedStores
  <2>4. PICK p \in {"done", "restage"} : pc' = [pc EXCEPT ![r] = p]
    BY <1>11 DEF Move
  <2>5. UNCHANGED <<value, held>>
    BY <1>11 DEF Move
  <2>6. \A q \in Records : Ready(q)'
    BY <2>1, <2>4, <2>5, ReadyMoves
  <2> QED BY <1>11, <1>s, <2>3, <2>6 DEF Move
<1>12. CASE Restage(r)
  <2> DEFINE a == AttemptOf[r]
  <2>1. r \notin Servers /\ a \in Attempts /\ value[r] \in ClientValues
    BY <1>12, ConstantsAssumption DEF Restage, CellInv, Shaped, Ready, Servers
  <2>2. stage[a] \in [srv : Staged \cup {None}, cmp : Values \cup {None}]
    BY <1>t, <2>1 DEF ShapedStores
  <2>3. stage' \in [Attempts -> [srv : Staged \cup {None}, cmp : Values \cup {None}]]
    <3>1. CASE stage[a].srv = None
      BY <1>t, <1>12, <3>1 DEF Restage, ShapedStores
    <3>2. CASE stage[a].srv # None
      <4> DEFINE e == [stage[a].srv EXCEPT !.cell = <<stage[a].srv.cell[1], value[r]>>]
      <4>1. stage[a].srv \in Staged
        BY <2>2, <3>2
      <4>2. <<stage[a].srv.cell[1], value[r]>> \in Cells
        BY <2>1, <4>1 DEF Staged, Cells
      <4>3. e \in Staged
        BY <4>1, <4>2 DEF Staged
      <4>4. stage' = [stage EXCEPT ![a].srv = e]
        BY <1>t, <1>12, <2>1, <3>2 DEF Restage, ShapedStores
      <4> HIDE DEF e
      <4> QED BY <1>t, <2>1, <4>3, <4>4 DEF ShapedStores
    <3> QED BY <3>1, <3>2
  <2>4. ShapedHandlers' /\ ShapedStores'
    BY <1>t, <1>12, <2>3 DEF Restage, ShapedHandlers, ShapedStores, history
  <2>5. \A q \in Records : Ready(q)'
    BY <1>12, ReadyMoves DEF Restage
  <2> QED BY <1>12, <1>s, <2>4, <2>5 DEF Restage
<1>13. CASE Mark(r)
  <2>1. /\ value' = [value EXCEPT ![r] = "unknown"] /\ held' = [held EXCEPT ![r] = None]
        /\ UNCHANGED <<todo, floor>>
    BY <1>13 DEF Mark
  <2>2. ShapedHandlers' /\ ShapedStores'
    BY <1>t, <1>13, <2>1 DEF Mark, ShapedHandlers, ShapedStores, ClientValues, history
  <2>3. \A q \in DOMAIN Marking : Marking[q].next \in {"mark rev", "mark payer", "done"}
    BY DEF Marking
  <2>4. /\ pc' = [pc EXCEPT ![r] = Marking[pc[r]].next]
        /\ Marking[pc[r]].next \in {"mark rev", "mark payer", "done"}
    BY <1>13, <2>3 DEF Mark, IInv, Typed
  <2>5. \A q \in Records \ {r} : value'[q] = value[q] /\ held'[q] = held[q]
    BY <1>t, <2>1 DEF ShapedHandlers
  <2>6. \A q \in Records : Ready(q)'
    BY <2>4, <2>5, ReadyMoves
  <2> QED BY <1>13, <1>s, <2>2, <2>6 DEF Mark
<1> QED BY <1>1, <1>2, <1>3, <1>4, <1>5, <1>6, <1>7, <1>8, <1>9, <1>10, <1>11, <1>12, <1>13
        DEF RecordStep

LEMMA SweepFacts ==
    ASSUME ShapedSweeps, NEW s \in Sweeps
    PROVE  /\ spc[s][1] \in Domains /\ After[spc[s][1]] \in Domains \X {"drain"}
           /\ Idle \in Domains \X {"drain"}
BY DEF ShapedSweeps, After, Domains, Idle

LEMMA SweepShaped ==
    ASSUME IInv, CellInv, NEW s \in Sweeps, SweepStep(s) \/ SweepFail(s)
    PROVE  Shaped' /\ UNCHANGED <<handlers, stage, place, counted, dedup>>
                   /\ UNCHANGED <<cells, total, payers, seeded>>
<1>t. ShapedHandlers /\ ShapedStores /\ ShapedSweeps /\ \A r \in Records : Ready(r)
  BY DEF CellInv, Shaped
<1>0. UNCHANGED <<handlers, stage, place, counted, dedup>>
      /\ UNCHANGED <<cells, total, payers, seeded>>
  BY DEF SweepStep, SweepDrain, SweepRead, SweepCell, SweepTotal, SweepMembers, SweepFail,
         history, hotDay
<1>1. ShapedHandlers' /\ \A r \in Records : Ready(r)'
  BY <1>t, <1>0 DEF ShapedHandlers, Ready, handlers
<1>d. spc[s][1] \in Domains /\ After[spc[s][1]] \in Domains \X {"drain"}
      /\ Idle \in Domains \X {"drain"}
  BY <1>t, SweepFacts
<1>2. ShapedSweeps'
  <2>1. CASE SweepDrain(s)
    BY <1>t, <1>d, <2>1 DEF SweepDrain, ShapedSweeps
  <2>2. CASE SweepRead(s)
    <3>1. DOMAIN rows' = Sweeps
      BY <1>t, <2>2 DEF SweepRead, ShapedSweeps
    <3>2. spc' \in [Sweeps -> Domains \X {"drain", "read", "write"}]
      BY <1>t, <1>d, <2>2 DEF SweepRead, ShapedSweeps
    <3>3. DOMAIN snap' = Sweeps
      BY <1>t, <2>2 DEF SweepRead, ShapedSweeps
    <3> QED BY <3>1, <3>2, <3>3 DEF ShapedSweeps
  <2>3. CASE SweepCell(s)
    BY <1>t, <1>d, <2>3 DEF SweepCell, EndOf, ShapedSweeps
  <2>4. CASE SweepTotal(s) \/ SweepMembers(s)
    BY <1>t, <1>d, <2>4 DEF SweepTotal, SweepMembers, EndOf, ShapedSweeps
  <2>5. CASE SweepFail(s)
    BY <1>t, <1>d, <2>5 DEF SweepFail, ShapedSweeps
  <2> QED BY <2>1, <2>2, <2>3, <2>4, <2>5 DEF SweepStep
<1>3. ShapedStores'
  <2>1. CASE UNCHANGED day
    BY <1>t, <1>0, <2>1 DEF ShapedStores
  <2>2. CASE SweepCell(s)
    <3>1. PICK c \in rows[s] :
            \/ UNCHANGED day
            \/ day' = [day EXCEPT !.cells = [x \in DOMAIN day.cells \cup {c} |->
                           IF x = c THEN CellRow(snap[s], c) ELSE day.cells[x]]]
      BY <2>2 DEF SweepCell
    <3> QED BY <1>t, <1>0, <3>1 DEF ShapedStores
  <2>3. CASE SweepTotal(s) \/ SweepMembers(s)
    BY <1>t, <1>0, <2>3 DEF SweepTotal, SweepMembers, ShapedStores
  <2> QED BY <2>1, <2>2, <2>3
          DEF SweepStep, SweepDrain, SweepRead, SweepFail
<1> QED BY <1>0, <1>1, <1>2, <1>3 DEF Shaped

\* What a crash leaves of the handlers.
LEMMA CrashLeaves ==
    ASSUME IInv, Crash
    PROVE  /\ \A r \in Records : pc'[r] \in {"absent", "done", "queued"}
           /\ UNCHANGED <<todo, floor, held, value, tier, stage, place, day, counted, dedup>>
           /\ UNCHANGED <<cells, total, payers, seeded, snap>>
           /\ spc' = [s \in Sweeps |-> Idle] /\ rows' = [s \in Sweeps |-> {}]
<1>1. PICK settled \in SUBSET {r \in Records : pc[r] = "done"} :
        pc' = [r \in Records |-> CASE r \in settled -> "done"
                                   [] pc[r] = "absent" -> "absent"
                                   [] OTHER -> "queued"]
  BY DEF Crash
<1> QED BY <1>1 DEF Crash, hotDay

LEMMA CrashShaped ==
    ASSUME IInv, CellInv, Crash
    PROVE  Shaped'
<1>1. ShapedHandlers' /\ ShapedStores'
  BY CrashLeaves DEF CellInv, Shaped, ShapedHandlers, ShapedStores
<1>2. ShapedSweeps'
  BY CrashLeaves DEF CellInv, Shaped, ShapedSweeps, Idle, Domains
<1>3. \A r \in Records : Ready(r)'
  BY CrashLeaves DEF Ready, Carrying
<1> QED BY <1>1, <1>2, <1>3 DEF Shaped

\* Expiry, the seal and stuttering.
LEMMA ExpireShaped ==
    ASSUME CellInv, NEW a \in Attempts, Expire(a)
    PROVE  /\ Shaped'
           /\ \A b \in Attempts : stage'[b].srv # None => stage'[b].srv = stage[b].srv
<1>1. NoStage \in [srv : Staged \cup {None}, cmp : Values \cup {None}] /\ NoStage.srv = None
  BY DEF NoStage
<1>2. stage' = [stage EXCEPT ![a] = NoStage] /\ UNCHANGED <<handlers, sweepers, place, day>>
  BY DEF Expire
<1>3. ShapedStores' /\ \A b \in Attempts : stage'[b] = IF b = a THEN NoStage ELSE stage[b]
  BY <1>1, <1>2 DEF CellInv, Shaped, ShapedStores
<1>4. ShapedHandlers' /\ ShapedSweeps' /\ \A r \in Records : Ready(r)'
  BY <1>2 DEF CellInv, Shaped, ShapedHandlers, ShapedSweeps, Ready, handlers, sweepers
<1> QED BY <1>1, <1>3, <1>4 DEF Shaped

\* The seeds.  A handler passes a hash that carries the marker, or has just set it.
LEMMA SeedsStay ==
    ASSUME IInv, CellInv, UNCHANGED todo, seeded \subseteq seeded',
           \A r \in Records : pc'[r] \in Past => pc[r] \in Past
    PROVE  SeedsInOrder'
BY DEF CellInv, SeedsInOrder

LEMMA NextHashSeeds ==
    ASSUME IInv, CellInv, NEW r \in Records, NextHash(r),
           seeded \subseteq seeded', Head(todo[r]) \in seeded'
    PROVE  SeedsInOrder'
<1> DEFINE last == Len(todo[r]) = 1
<1>1. todo[r] \in Suffixes /\ Passed(todo[r]) \subseteq seeded
  BY DEF CellInv, Shaped, ShapedHandlers, SeedsInOrder
<1>2. Passed(SeedOrder) = {}
  BY AllAhead
<1>3. /\ pc' = [pc EXCEPT ![r] = IF ~last THEN "floors"
                                 ELSE IF r \in Servers THEN "context" ELSE "resolve"]
      /\ todo' = [todo EXCEPT ![r] = IF last THEN SeedOrder ELSE Tail(todo[r])]
  BY DEF NextHash
<1>4. \A q \in Records \ {r} : pc'[q] = pc[q] /\ todo'[q] = todo[q]
  BY <1>3 DEF IInv, Typed, CellInv, Shaped, ShapedHandlers
<1>5. CASE last
  <2>1. Hashes \subseteq seeded'
    BY <1>1, <1>5, SuffixFacts
  <2>2. todo'[r] = SeedOrder
    BY <1>3, <1>5 DEF CellInv, Shaped, ShapedHandlers
  <2> QED BY <1>2, <1>4, <2>1, <2>2 DEF CellInv, SeedsInOrder
<1>6. CASE ~last
  <2>1. Passed(Tail(todo[r])) \subseteq seeded'
    BY <1>1, <1>6, SuffixFacts
  <2>2. todo'[r] = Tail(todo[r]) /\ pc'[r] = "floors"
    BY <1>3, <1>6 DEF IInv, Typed, CellInv, Shaped, ShapedHandlers
  <2> QED BY <1>4, <2>1, <2>2 DEF CellInv, SeedsInOrder, Past
<1> QED BY <1>5, <1>6

LEMMA RecordSeeds ==
    ASSUME IInv, CellInv, NEW r \in Records, RecordStep(r) \/ RecordFail(r)
    PROVE  SeedsInOrder'
<1>h. ASSUME NEW p, pc' = [pc EXCEPT ![r] = p], UNCHANGED <<todo, seeded>>,
             p \in Past => pc[r] \in Past
      PROVE  SeedsInOrder'
  <2>1. \A q \in Records : pc'[q] = IF q = r THEN p ELSE pc[q]
    BY <1>h DEF IInv, Typed
  <2> QED BY <1>h, <2>1, SeedsStay
<1> USE DEF Past, hotDay
<1>1. CASE CheckClaimed(r) \/ PreRead(r) \/ Commit(r) \/ Arrive(r) \/ RecordFail(r)
  BY <1>1, <1>h DEF CheckClaimed, PreRead, Commit, Arrive, RecordFail
<1>2. CASE Join(r) \/ StageCompanion(r) \/ ReadFloor(r)
  BY <1>2, <1>h DEF Join, StageCompanion, ReadFloor
<1>3. CASE CheckSeeded(r)
  <2>1. CASE Head(todo[r]) \in seeded
    BY <1>3, <2>1, NextHashSeeds DEF CheckSeeded
  <2>2. CASE Head(todo[r]) \notin seeded
    BY <1>3, <2>2, <1>h DEF CheckSeeded
  <2> QED BY <2>1, <2>2
<1>4. CASE SeedHash(r)
  BY <1>4, NextHashSeeds DEF SeedHash
<1>5. CASE ReadContext(r) \/ Resolve(r) \/ Rollup(r)
  BY <1>5, <1>h DEF ReadContext, Resolve, Rollup
<1>6. CASE StageServer(r) \/ Move(r) \/ Restage(r)
  BY <1>6, <1>h DEF StageServer, Move, Restage
<1>7. CASE Mark(r)
  <2>1. \A q \in DOMAIN Marking : Marking[q].next \in {"mark rev", "mark payer", "done"}
    BY DEF Marking
  <2>2. /\ pc' = [pc EXCEPT ![r] = Marking[pc[r]].next] /\ UNCHANGED <<todo, seeded>>
        /\ Marking[pc[r]].next \in {"mark rev", "mark payer", "done"}
    BY <1>7, <2>1 DEF Mark, IInv, Typed
  <2> QED BY <2>2, <1>h
<1> QED BY <1>1, <1>2, <1>3, <1>4, <1>5, <1>6, <1>7 DEF RecordStep

\* Steps of handlers that leave the tables alone.
LEMMA QuietRecord ==
    ASSUME IInv, CellInv, NEW r \in Records, RecordStep(r) \/ RecordFail(r),
           ~SeedHash(r), ~Rollup(r), ~Move(r)
    PROVE  /\ UNCHANGED <<cells, total, payers, seeded, counted, place>>
           /\ UNCHANGED <<day, spc, snap, rows>>
           /\ \A q \in Records : pc'[q] \in Reading =>
                \/ pc[q] \in Reading /\ floor'[q] = floor[q]
                \/ floor'[q] = day
<1> USE DEF Reading, hotDay, sweepers, history
<1>f. DOMAIN floor = Records
  BY DEF CellInv, Shaped, ShapedHandlers
<1>h. ASSUME NEW p, pc' = [pc EXCEPT ![r] = p], p \notin Reading, UNCHANGED floor
      PROVE  \A q \in Records : pc'[q] \in Reading => pc[q] \in Reading /\ floor'[q] = floor[q]
  BY <1>h DEF IInv, Typed
<1>1. CASE CheckClaimed(r) \/ PreRead(r) \/ Commit(r) \/ Arrive(r) \/ RecordFail(r)
  BY <1>1, <1>h DEF CheckClaimed, PreRead, Commit, Arrive, RecordFail
<1>2. CASE Join(r) \/ StageCompanion(r)
  BY <1>2, <1>h DEF Join, StageCompanion
<1>3. CASE ReadFloor(r)
  BY <1>3, <1>f DEF ReadFloor, IInv, Typed
<1>4. CASE CheckSeeded(r)
  <2>1. CASE Head(todo[r]) \in seeded
    <3>1. /\ \A q \in Records \ {r} : pc'[q] = pc[q] /\ floor'[q] = floor[q]
          /\ pc'[r] \notin Reading
      BY <1>4, <1>f, <2>1 DEF CheckSeeded, NextHash, IInv, Typed
    <3> QED BY <1>4, <2>1, <3>1 DEF CheckSeeded
  <2>2. CASE Head(todo[r]) \notin seeded
    <3>1. pc' = [pc EXCEPT ![r] = "seed"] /\ UNCHANGED floor /\ pc[r] = "check"
      BY <1>4, <2>2 DEF CheckSeeded
    <3>2. \A q \in Records : pc'[q] \in Reading => pc[q] \in Reading /\ floor'[q] = floor[q]
      BY <3>1 DEF IInv, Typed
    <3> QED BY <1>4, <3>2 DEF CheckSeeded
  <2> QED BY <2>1, <2>2
<1>5. CASE ReadContext(r) \/ Resolve(r) \/ StageServer(r) \/ Restage(r)
  BY <1>5, <1>h, ZenonT(60) DEF ReadContext, Resolve, StageServer, Restage
<1>7. CASE Mark(r)
  <2>1. \A q \in DOMAIN Marking : Marking[q].next \in {"mark rev", "mark payer", "done"}
    BY DEF Marking
  <2>2. /\ pc' = [pc EXCEPT ![r] = Marking[pc[r]].next] /\ UNCHANGED floor
        /\ Marking[pc[r]].next \in {"mark rev", "mark payer", "done"}
    BY <1>7, <2>1 DEF Mark, IInv, Typed
  <2>3. Marking[pc[r]].next \notin Reading
    BY <2>2
  <2> QED BY <1>7, <2>2, <2>3, <1>h DEF Mark
<1> QED BY <1>1, <1>2, <1>3, <1>4, <1>5, <1>7 DEF RecordStep

LEMMA DaysStay ==
    ASSUME CellInv, UNCHANGED day, UNCHANGED seeded,
           "mon" \in seeded => DOMAIN cells \subseteq DOMAIN cells',
           payers \subseteq payers',
           \A q \in Records : pc'[q] \in Reading =>
             \/ pc[q] \in Reading /\ floor'[q] = floor[q]
             \/ floor'[q] = day
    PROVE  DaysKnown'
<1>1. DayKnown(day)'
  BY DEF CellInv, DaysKnown, DayKnown
<1>2. ASSUME NEW q \in Records, pc'[q] \in Reading
      PROVE  DayKnown(floor[q])'
  BY <1>1, <1>2 DEF CellInv, DaysKnown, DayKnown
<1> QED BY <1>1, <1>2 DEF DaysKnown

LEMMA SweepsStay ==
    ASSUME CellInv, UNCHANGED <<spc, snap, rows>>, seeded \subseteq seeded',
           DOMAIN cells \subseteq DOMAIN cells', payers \subseteq payers'
    PROVE  SweepsKnown'
BY DEF CellInv, SweepsKnown

LEMMA QuietKeeps ==
    ASSUME IInv, CellInv, NEW r \in Records, RecordStep(r) \/ RecordFail(r),
           ~SeedHash(r), ~Rollup(r), ~Move(r)
    PROVE  DaysKnown' /\ SweepsKnown' /\ Tables'
<1>1. DaysKnown' /\ SweepsKnown'
  BY QuietRecord, DaysStay, SweepsStay
<1>2. Tables'
  BY QuietRecord, TablesStay DEF CellInv
<1> QED BY <1>1, <1>2

\* A sweep reads what is seeded and writes what it read.
LEMMA SweepSweepsKnown ==
    ASSUME IInv, CellInv, NEW s \in Sweeps, SweepStep(s) \/ SweepFail(s)
    PROVE  SweepsKnown'
<1>t. ShapedSweeps /\ SweepsKnown
  BY DEF CellInv, Shaped
<1>d. spc[s][1] \in Domains /\ After[spc[s][1]] \in Domains \X {"drain"}
      /\ Idle \in Domains \X {"drain"}
  BY <1>t, SweepFacts
<1>u. UNCHANGED <<cells, payers, seeded>>
  BY SweepShaped
<1>h. ASSUME spc' = [spc EXCEPT ![s] = spc'[s]], spc'[s][2] # "write",
             rows'[s] \subseteq rows[s],
             \A q \in Sweeps \ {s} : rows'[q] = rows[q] /\ snap'[q] = snap[q]
      PROVE  SweepsKnown'
  <2>1. \A q \in Sweeps \ {s} : spc'[q] = spc[q]
    BY <1>h, <1>t DEF ShapedSweeps
  <2>2. spc'[s] # <<"payer", "write">>
    BY <1>h
  <2> QED BY <1>h, <1>t, <1>u, <2>1, <2>2 DEF SweepsKnown
<1>1. CASE SweepDrain(s)
  <2>1. spc'[s][2] # "write" /\ spc' = [spc EXCEPT ![s] = spc'[s]]
    BY <1>1, <1>t, <1>d DEF SweepDrain, ShapedSweeps
  <2> QED BY <1>1, <1>h, <2>1 DEF SweepDrain
<1>2. CASE SweepRead(s)
  <2> DEFINE d == spc[s][1]
  <2>1. CASE spc' = [spc EXCEPT ![s] = After[d]]
    <3>1. spc'[s][2] # "write" /\ spc' = [spc EXCEPT ![s] = spc'[s]]
      BY <1>t, <1>d, <2>1 DEF ShapedSweeps
    <3>2. rows'[s] \subseteq rows[s] \/ rows'[s] \subseteq DOMAIN cells
      BY <1>2, <1>t DEF SweepRead, ShapedSweeps
    <3>3. \A q \in Sweeps \ {s} : rows'[q] = rows[q] /\ snap'[q] = snap[q] /\ spc'[q] = spc[q]
      BY <1>2, <1>t, <2>1 DEF SweepRead, ShapedSweeps
    <3>4. spc'[s] # <<"payer", "write">>
      BY <3>1
    <3> QED BY <1>t, <1>u, <3>1, <3>2, <3>3, <3>4 DEF SweepsKnown
  <2>2. CASE spc' # [spc EXCEPT ![s] = After[d]]
    <3>1. /\ d \in seeded
          /\ snap' = [snap EXCEPT ![s] = [cells |-> cells, gen |-> gen,
                                          total |-> total, members |-> payers]]
          /\ rows' = [rows EXCEPT ![s] = IF d = "mon" THEN DOMAIN cells ELSE {}]
          /\ spc' = [spc EXCEPT ![s] = <<d, "write">>]
      BY <1>2, <2>2 DEF SweepRead
    <3>2. spc'[s] = <<d, "write">> /\ snap'[s].members = payers
              /\ rows'[s] \subseteq DOMAIN cells
      BY <1>t, <3>1 DEF ShapedSweeps
    <3>3. \A q \in Sweeps \ {s} : rows'[q] = rows[q] /\ snap'[q] = snap[q] /\ spc'[q] = spc[q]
      BY <1>t, <3>1 DEF ShapedSweeps
    <3> QED BY <1>t, <1>u, <3>1, <3>2, <3>3 DEF SweepsKnown
  <2> QED BY <2>1, <2>2
<1>3. CASE SweepCell(s)
  <2>1. /\ rows'[s] \subseteq rows[s] /\ \A q \in Sweeps \ {s} : rows'[q] = rows[q]
        /\ EndOf(s) \/ UNCHANGED <<spc, snap>>
    BY <1>3, <1>t DEF SweepCell, ShapedSweeps
  <2>2. CASE EndOf(s)
    <3>1. /\ spc'[s][2] # "write" /\ spc' = [spc EXCEPT ![s] = spc'[s]]
          /\ \A q \in Sweeps \ {s} : snap'[q] = snap[q]
      BY <1>t, <1>d, <2>2 DEF EndOf, ShapedSweeps
    <3> QED BY <1>h, <2>1, <3>1
  <2>3. CASE UNCHANGED <<spc, snap>>
    <3>1. \A q \in Sweeps : rows'[q] \subseteq rows[q]
      BY <2>1
    <3> QED BY <1>t, <1>u, <2>3, <3>1 DEF SweepsKnown
  <2> QED BY <2>1, <2>2, <2>3
<1>4. CASE SweepTotal(s) \/ SweepMembers(s)
  <2>1. /\ spc'[s][2] # "write" /\ spc' = [spc EXCEPT ![s] = spc'[s]]
        /\ \A q \in Sweeps \ {s} : snap'[q] = snap[q]
    BY <1>4, <1>t, <1>d DEF SweepTotal, SweepMembers, EndOf, ShapedSweeps
  <2> QED BY <1>4, <1>h, <2>1 DEF SweepTotal, SweepMembers
<1>5. CASE SweepFail(s)
  <2>1. /\ spc'[s][2] # "write" /\ spc' = [spc EXCEPT ![s] = spc'[s]]
        /\ rows'[s] = {} /\ \A q \in Sweeps \ {s} : rows'[q] = rows[q]
    BY <1>5, <1>t, <1>d DEF SweepFail, ShapedSweeps
  <2> QED BY <1>5, <1>h, <2>1 DEF SweepFail
<1> QED BY <1>1, <1>2, <1>3, <1>4, <1>5 DEF SweepStep

LEMMA SweepDaysKnown ==
    ASSUME IInv, CellInv, NEW s \in Sweeps, SweepStep(s) \/ SweepFail(s)
    PROVE  DaysKnown'
<1>u. UNCHANGED <<cells, payers, seeded, pc, floor>>
  BY SweepShaped DEF handlers
<1>t. ShapedStores /\ SweepsKnown /\ DaysKnown
  BY DEF CellInv, Shaped
<1>1. ASSUME DayKnown(day)' PROVE DaysKnown'
  BY <1>1, <1>t, <1>u DEF DaysKnown, DayKnown
<1>2. CASE SweepCell(s)
  <2>0. spc[s][1] = "mon" /\ spc[s][2] = "write"
    BY <1>2 DEF SweepCell
  <2>1. "mon" \in seeded /\ rows[s] \subseteq DOMAIN cells
    BY <1>t, <2>0 DEF SweepsKnown
  <2>2. PICK c \in rows[s] :
          \/ UNCHANGED day
          \/ day' = [day EXCEPT !.cells = [x \in DOMAIN day.cells \cup {c} |->
                         IF x = c THEN CellRow(snap[s], c) ELSE day.cells[x]]]
    BY <1>2 DEF SweepCell
  <2>3. /\ DOMAIN day'.cells \subseteq DOMAIN day.cells \cup {c}
        /\ day'.total = day.total /\ day'.members = day.members
    BY <1>t, <2>2 DEF ShapedStores
  <2> QED BY <1>1, <1>t, <1>u, <2>1, <2>3 DEF DaysKnown, DayKnown
<1>3. CASE SweepTotal(s)
  <2>0. spc[s][1] = "rev" /\ spc[s][2] = "write"
    BY <1>3 DEF SweepTotal
  <2>1. "rev" \in seeded
    BY <1>t, <2>0 DEF SweepsKnown
  <2>2. day'.cells = day.cells /\ day'.members = day.members
    BY <1>3, <1>t DEF SweepTotal, ShapedStores
  <2> QED BY <1>1, <1>t, <1>u, <2>1, <2>2 DEF DaysKnown, DayKnown
<1>4. CASE SweepMembers(s)
  <2>0. spc[s][1] = "payer" /\ spc[s][2] = "write" /\ spc[s] = <<"payer", "write">>
    BY <1>4 DEF SweepMembers
  <2>1. "payer" \in seeded /\ snap[s].members \subseteq payers
    BY <1>t, <2>0 DEF SweepsKnown
  <2>2. /\ day'.cells = day.cells /\ day'.total = day.total
        /\ day'.members = day.members \cup snap[s].members
    BY <1>4, <1>t DEF SweepMembers, ShapedStores
  <2> QED BY <1>1, <1>t, <1>u, <2>1, <2>2 DEF DaysKnown, DayKnown
<1>5. CASE UNCHANGED day
  BY <1>1, <1>5, <1>t, <1>u DEF DaysKnown, DayKnown
<1> QED BY <1>2, <1>3, <1>4, <1>5 DEF SweepStep, SweepDrain, SweepRead, SweepFail

LEMMA SweepKeeps ==
    ASSUME IInv, CellInv, NEW s \in Sweeps, SweepStep(s) \/ SweepFail(s)
    PROVE  CellInv'
<1>1. /\ Shaped' /\ UNCHANGED <<handlers, stage, place, counted, dedup>>
      /\ UNCHANGED <<cells, total, payers, seeded>>
  BY SweepShaped
<1>2. SeedsInOrder'
  BY <1>1, SeedsStay DEF handlers
<1>3. Tables'
  BY <1>1, TablesStay DEF CellInv
<1>4. Contexts'
  BY <1>1, ContextsStay DEF handlers
<1> QED BY <1>1, <1>2, <1>3, <1>4, SweepSweepsKnown, SweepDaysKnown DEF CellInv

LEMMA CrashCells ==
    ASSUME IInv, CellInv, Crash
    PROVE  CellInv'
<1>1. Records = Companions \cup Servers
  BY ConstantsAssumption DEF Servers
<1>2. SeedsInOrder'
  BY CrashLeaves, SeedsStay DEF Past
<1>3. DaysKnown'
  BY CrashLeaves, DaysStay DEF Reading
<1>4. SweepsKnown'
  BY CrashLeaves DEF SweepsKnown, Idle
<1>5. Tables'
  BY CrashLeaves, TablesStay DEF CellInv
<1>6. Contexts'
  BY <1>1, CrashLeaves, ContextsStay DEF Busy, Carrying
<1> QED BY <1>2, <1>3, <1>4, <1>5, <1>6, CrashShaped DEF CellInv

\* Nothing that the invariant speaks of changes but the stage of an attempt.
LEMMA OthersKeep ==
    ASSUME IInv, CellInv, (\E a \in Attempts : Expire(a)) \/ Seal \/ UNCHANGED vars
    PROVE  CellInv'
<1>1. UNCHANGED <<handlers, sweepers, hotDay, day, dedup, place, counted>>
  BY DEF Expire, Seal, vars, history
<1>2. Shaped' /\ \A b \in Attempts : stage'[b].srv # None => stage'[b].srv = stage[b].srv
  <2>1. CASE \E a \in Attempts : Expire(a)
    BY <2>1, ExpireShaped
  <2>2. CASE Seal \/ UNCHANGED vars
    <3>1. UNCHANGED stage
      BY <2>2 DEF Seal, vars
    <3> QED BY <1>1, <3>1 DEF CellInv, Shaped, ShapedHandlers, ShapedStores, ShapedSweeps,
                              Ready, handlers, sweepers
  <2> QED BY <2>1, <2>2
<1>3. SeedsInOrder'
  BY <1>1, SeedsStay DEF handlers, hotDay
<1>4. DaysKnown' /\ SweepsKnown'
  BY <1>1, DaysStay, SweepsStay DEF handlers, hotDay, sweepers
<1>5. Tables'
  BY <1>1, TablesStay DEF CellInv, hotDay
<1>6. Contexts'
  BY <1>1, <1>2, ContextsStay DEF handlers
<1> QED BY <1>2, <1>3, <1>4, <1>5, <1>6 DEF CellInv

-----------------------------------------------------------------------------
(* The steps that change the tables: a seed, a rollup and a move *)

LEMMA StoredFacts ==
    /\ Stored.total \in Int
    /\ \A c : \E n, v \in Int : At(Stored.cells, c) = [cnt |-> n, rev |-> v]
<1>1. IsDay(Stored)
  BY ConstantsAssumption
<1>2. ASSUME NEW c PROVE \E n, v \in Int : At(Stored.cells, c) = [cnt |-> n, rev |-> v]
  <2>1. CASE c \in DOMAIN Stored.cells
    <3>1. Stored.cells[c].cnt \in Int /\ Stored.cells[c].rev \in Int
      BY <1>1, <2>1 DEF IsDay, IsTable
    <3> QED BY <2>1, <3>1 DEF At
  <2>2. CASE c \notin DOMAIN Stored.cells
    BY <2>2 DEF At
  <2> QED BY <2>1, <2>2
<1> QED BY <1>1, <1>2 DEF IsDay

\* What is in a cell was rolled up, so it is finite.
LEMMA InCellFacts ==
    ASSUME IInv, CellInv, NEW c \in Cells
    PROVE  /\ InCell(c) \in SUBSET Transactions /\ IsFiniteSet(InCell(c))
           /\ InCell(c) \subseteq RolledUp
           /\ Cardinality(InCell(c)) \in Nat /\ Worth(InCell(c)) \in Nat
<1>1. c # None
  BY ConstantsAssumption
<1>2. InCell(c) \in SUBSET RolledUp
  BY <1>1 DEF InCell, RolledUp, CellInv, Tables, HotKnown, IInv, Typed
<1>3. InCell(c) \in SUBSET Transactions
  BY DEF InCell
<1>4. IsFiniteSet(InCell(c))
  BY <1>2, FS_Subset DEF CellInv, Tables, HotKnown
<1> QED BY <1>2, <1>3, <1>4, FS_CardinalityType, WorthType

LEMMA AccountedWithout ==
    ASSUME NEW c, InCell(c) = {}
    PROVE  Accounted(c) = At(Stored.cells, c)
<1>1. PICK n \in Int, v \in Int : At(Stored.cells, c) = [cnt |-> n, rev |-> v]
  BY StoredFacts
<1>2. Cardinality({}) = 0 /\ Worth({}) = 0
  BY FS_EmptySet, WorthEmpty
<1>3. Accounted(c) = [cnt |-> n + 0, rev |-> v + 0]
  BY <1>1, <1>2 DEF Accounted
<1> QED BY <1>1, <1>3

\* Before all hashes carry the marker nothing was rolled up.
LEMMA NothingYet ==
    ASSUME IInv, CellInv, ~ (Hashes \subseteq seeded)
    PROVE  RolledUp = {} /\ \A c \in Cells : Accounted(c) = At(Stored.cells, c)
<1>1. RolledUp = {}
  BY DEF CellInv, Tables, HotKnown
<1>2. \A c \in Cells : InCell(c) = {}
  BY <1>1, InCellFacts
<1> QED BY <1>1, <1>2, AccountedWithout

LEMMA SeedHashTables ==
    ASSUME IInv, CellInv, NEW r \in Records, SeedHash(r)
    PROVE  /\ Tables'
           /\ seeded \subseteq seeded' /\ DOMAIN cells \subseteq DOMAIN cells'
           /\ payers \subseteq payers'
<1> DEFINE h == Head(todo[r])
           d == floor[r]
<1>1. h \in Hashes /\ seeded' = seeded \cup {h}
  BY SuffixFacts DEF SeedHash, CellInv, Shaped, ShapedHandlers
<1>2. DayKnown(d)
  BY DEF SeedHash, CellInv, DaysKnown, Reading
<1>3. UNCHANGED <<counted, place>>
  BY DEF SeedHash, history
<1>4. RolledUp' = RolledUp /\ \A c : Accounted(c)' = Accounted(c)
  BY <1>3 DEF RolledUp, Accounted, InCell
<1>t. HotKnown /\ CellsHoldEachPurchaseOnce
  BY DEF CellInv, Tables
<1>5. /\ "mon" \in seeded' => \A c \in Cells : At(cells', c) = Accounted(c)
      /\ "mon" \notin seeded' => cells' = Empty
      /\ DOMAIN cells \subseteq DOMAIN cells'
  <2>1. CASE h = "mon"
    <3>1. cells' = Filled(cells, d.cells)
      BY <2>1 DEF SeedHash
    <3>2. CASE "mon" \in seeded
      <4>1. \A c : At(cells', c) = At(cells, c)
        BY <1>2, <3>1, <3>2 DEF DayKnown, Filled, At
      <4>2. DOMAIN cells \subseteq DOMAIN cells'
        BY <3>1 DEF Filled
      <4> QED BY <1>1, <1>t, <3>2, <4>1, <4>2 DEF CellsHoldEachPurchaseOnce
    <3>3. CASE "mon" \notin seeded
      <4>1. cells = Empty /\ d.cells = Stored.cells
        BY <1>2, <1>t, <3>3 DEF HotKnown, DayKnown
      <4>2. \A c : At(cells', c) = At(Stored.cells, c)
        BY <3>1, <4>1 DEF Filled, At, Empty
      <4>3. DOMAIN cells \subseteq DOMAIN cells'
        BY <4>1 DEF Empty
      <4>4. ~ (Hashes \subseteq seeded)
        BY <3>3 DEF Hashes
      <4> QED BY <1>1, <2>1, <4>2, <4>3, <4>4, NothingYet
    <3> QED BY <3>2, <3>3
  <2>2. CASE h # "mon"
    BY <1>1, <1>t, <2>2 DEF SeedHash, HotKnown, CellsHoldEachPurchaseOnce
  <2> QED BY <2>1, <2>2
<1>6. "rev" \in seeded' => total' = Stored.total + Worth(RolledUp)
  <2>1. CASE h = "rev" /\ "rev" \notin seeded
    <3>1. total' = Stored.total
      BY <1>2, <2>1 DEF SeedHash, DayKnown
    <3>2. ~ (Hashes \subseteq seeded)
      BY <2>1 DEF Hashes
    <3>3. Worth(RolledUp) = 0 /\ Stored.total \in Int
      BY <3>2, NothingYet, WorthEmpty, StoredFacts
    <3> QED BY <3>1, <3>3
  <2>2. CASE ~ (h = "rev" /\ "rev" \notin seeded)
    BY <1>1, <1>t, <2>2 DEF SeedHash, CellsHoldEachPurchaseOnce
  <2> QED BY <2>1, <2>2
<1>7. /\ "payer" \in seeded' => payers' = Stored.members \cup {UserOf[t] : t \in RolledUp}
      /\ "payer" \notin seeded' => payers' = {}
      /\ payers \subseteq payers'
  <2>1. CASE h = "payer"
    <3>1. payers' = payers \cup d.members
      BY <2>1 DEF SeedHash
    <3>2. CASE "payer" \in seeded
      BY <1>1, <1>2, <1>t, <3>1, <3>2 DEF DayKnown, CellsHoldEachPurchaseOnce
    <3>3. CASE "payer" \notin seeded
      <4>1. payers' = Stored.members
        BY <1>2, <1>t, <3>1, <3>3 DEF DayKnown, HotKnown
      <4>2. ~ (Hashes \subseteq seeded)
        BY <3>3 DEF Hashes
      <4>3. {UserOf[t] : t \in RolledUp} = {}
        BY <4>2, NothingYet
      <4> QED BY <1>1, <1>t, <2>1, <3>3, <4>1, <4>3 DEF HotKnown
    <3> QED BY <3>2, <3>3
  <2>2. CASE h # "payer"
    BY <1>1, <1>t, <2>2 DEF SeedHash, HotKnown, CellsHoldEachPurchaseOnce
  <2> QED BY <2>1, <2>2
<1>8. CellsHoldEachPurchaseOnce'
  BY <1>4, <1>5, <1>6, <1>7 DEF CellsHoldEachPurchaseOnce
<1>9. HotKnown'
  BY <1>1, <1>3, <1>4, <1>5, <1>7, <1>t DEF HotKnown
<1> QED BY <1>1, <1>5, <1>7, <1>8, <1>9 DEF Tables

LEMMA SeedHashDays ==
    ASSUME IInv, CellInv, NEW r \in Records, SeedHash(r)
    PROVE  DaysKnown' /\ SweepsKnown'
<1> DEFINE h == Head(todo[r])
<1>1. seeded' = seeded \cup {h} /\ UNCHANGED <<day, sweepers>>
  BY DEF SeedHash
<1>2. DayKnown(floor[r])
  BY DEF SeedHash, CellInv, DaysKnown, Reading
<1>3. DOMAIN cells \subseteq DOMAIN cells' /\ payers \subseteq payers'
  BY SeedHashTables
<1>4. h = "mon" => DOMAIN floor[r].cells \subseteq DOMAIN cells'
  BY DEF SeedHash, Filled
<1>5. h = "payer" => floor[r].members \subseteq payers'
  BY DEF SeedHash
<1>6. ASSUME NEW x, DayKnown(x)
      PROVE  /\ IF "mon" \in seeded' THEN DOMAIN x.cells \subseteq DOMAIN cells'
                                     ELSE x.cells = Stored.cells
             /\ "rev" \notin seeded' => x.total = Stored.total
             /\ IF "payer" \in seeded' THEN x.members \subseteq payers'
                                       ELSE x.members = Stored.members
  BY <1>1, <1>2, <1>3, <1>4, <1>5, <1>6 DEF DayKnown
<1>7. \A q \in Records : pc'[q] \in Reading => pc[q] \in Reading /\ floor'[q] = floor[q]
  BY DEF SeedHash, NextHash, Reading, IInv, Typed, CellInv, Shaped, ShapedHandlers
<1>8. DaysKnown'
  <2>1. DayKnown(day)'
    BY <1>1, <1>6 DEF CellInv, DaysKnown, DayKnown
  <2>2. ASSUME NEW q \in Records, pc'[q] \in Reading
        PROVE  DayKnown(floor[q])'
    <3>1. DayKnown(floor[q]) /\ floor'[q] = floor[q]
      BY <1>7, <2>2 DEF CellInv, DaysKnown
    <3> QED BY <1>6, <3>1 DEF DayKnown
  <2> QED BY <2>1, <2>2 DEF DaysKnown
<1> QED BY <1>1, <1>3, <1>8, SweepsStay DEF sweepers

\* What is accounted for a cell, by count and by worth.
LEMMA AccountedFacts ==
    ASSUME IInv, CellInv, "mon" \in seeded, NEW c \in Cells
    PROVE  \E n, v \in Int :
             /\ At(Stored.cells, c) = [cnt |-> n, rev |-> v]
             /\ At(cells, c) = [cnt |-> n + Cardinality(InCell(c)), rev |-> v + Worth(InCell(c))]
             /\ At(cells, c).cnt \in Int /\ At(cells, c).rev \in Int
<1>1. PICK n \in Int, v \in Int : At(Stored.cells, c) = [cnt |-> n, rev |-> v]
  BY StoredFacts
<1>2. At(cells, c) = Accounted(c)
  BY DEF CellInv, Tables, CellsHoldEachPurchaseOnce
<1>3. Accounted(c) = [cnt |-> n + Cardinality(InCell(c)), rev |-> v + Worth(InCell(c))]
  BY <1>1 DEF Accounted
<1>4. n + Cardinality(InCell(c)) \in Int /\ v + Worth(InCell(c)) \in Int
  <2>1. Cardinality(InCell(c)) \in Nat /\ Worth(InCell(c)) \in Nat
    BY InCellFacts
  <2> QED BY <2>1
<1>5. At(cells, c).cnt \in Int /\ At(cells, c).rev \in Int
  BY <1>2, <1>3, <1>4
<1> QED BY <1>1, <1>2, <1>3, <1>5

\* A cell gains, or loses, one purchase with its money.
LEMMA OneMoreInCell ==
    ASSUME IInv, CellInv, "mon" \in seeded, NEW c \in Cells, NEW t \in Transactions \ InCell(c),
           InCell(c)' = InCell(c) \cup {t},
           At(cells', c) = [cnt |-> At(cells, c).cnt + 1, rev |-> At(cells,
               c).rev + Normalized(t)]
    PROVE  At(cells', c) = Accounted(c)'
<1>1. PICK n \in Int, v \in Int :
        /\ At(Stored.cells, c) = [cnt |-> n, rev |-> v]
        /\ At(cells, c) = [cnt |-> n + Cardinality(InCell(c)), rev |-> v + Worth(InCell(c))]
  BY AccountedFacts
<1>2. /\ InCell(c) \in SUBSET Transactions /\ IsFiniteSet(InCell(c))
      /\ Cardinality(InCell(c)) \in Nat /\ Worth(InCell(c)) \in Nat
  BY InCellFacts
<1>3. Cardinality(InCell(c) \cup {t}) = Cardinality(InCell(c)) + 1
  BY <1>2, FS_AddElement
<1>4. Worth(InCell(c) \cup {t}) = Worth(InCell(c)) + Normalized(t)
  BY <1>2, WorthAdd
<1>5. Accounted(c)' = [cnt |-> n + (Cardinality(InCell(c)) + 1),
                       rev |-> v + (Worth(InCell(c)) + Normalized(t))]
  BY <1>1, <1>3, <1>4 DEF Accounted
<1>6. Normalized(t) \in Nat
  BY NormalizedType
<1> QED BY <1>1, <1>2, <1>5, <1>6

LEMMA OneLessInCell ==
    ASSUME IInv, CellInv, "mon" \in seeded, NEW c \in Cells, NEW t \in InCell(c),
           InCell(c)' = InCell(c) \ {t},
           At(cells', c) = [cnt |-> At(cells, c).cnt - 1, rev |-> At(cells,
               c).rev - Normalized(t)]
    PROVE  At(cells', c) = Accounted(c)'
<1>1. PICK n \in Int, v \in Int :
        /\ At(Stored.cells, c) = [cnt |-> n, rev |-> v]
        /\ At(cells, c) = [cnt |-> n + Cardinality(InCell(c)), rev |-> v + Worth(InCell(c))]
  BY AccountedFacts
<1>2. /\ InCell(c) \in SUBSET Transactions /\ IsFiniteSet(InCell(c))
      /\ Cardinality(InCell(c)) \in Nat /\ Worth(InCell(c)) \in Nat
  BY InCellFacts
<1>3. Cardinality(InCell(c) \ {t}) = Cardinality(InCell(c)) - 1
  BY <1>2, FS_RemoveElement
<1>4. Worth(InCell(c) \ {t}) = Worth(InCell(c)) - Normalized(t)
  BY <1>2, WorthRemove
<1>5. Accounted(c)' = [cnt |-> n + (Cardinality(InCell(c)) - 1),
                       rev |-> v + (Worth(InCell(c)) - Normalized(t))]
  BY <1>1, <1>3, <1>4 DEF Accounted
<1>6. Normalized(t) \in Nat
  BY <1>2, NormalizedType
<1> QED BY <1>1, <1>2, <1>5, <1>6

LEMMA SameInCell ==
    ASSUME CellInv, "mon" \in seeded, NEW c \in Cells, InCell(c)' = InCell(c),
           At(cells', c) = At(cells, c)
    PROVE  At(cells', c) = Accounted(c)'
BY DEF CellInv, Tables, CellsHoldEachPurchaseOnce, Accounted

LEMMA RollupTables ==
    ASSUME IInv, CellInv, NEW r \in Records, Rollup(r)
    PROVE  /\ Tables' /\ DaysKnown' /\ SweepsKnown'
           /\ counted[TxOf[r]] = 0 /\ counted'[TxOf[r]] = 1
           /\ \A x \in Transactions \ {TxOf[r]} : counted'[x] = counted[x]
<1> DEFINE t == TxOf[r]
           c0 == <<tier[r], value[r]>>
<1>1. r \in Servers /\ t \in Transactions /\ UserOf[t] \in Users
  BY ServerFacts DEF Rollup, IInv, Typed, ServersOnly
<1>2. counted[t] = 0 /\ place[t] = None
  BY <1>1 DEF Rollup, IInv, OneWinner, Won, CellInv, Tables, HotKnown
<1>3. Hashes \subseteq seeded /\ UNCHANGED seeded
  BY DEF Rollup, CellInv, SeedsInOrder, Past
<1>4. c0 \in Cells
  BY DEF Rollup, CellInv, Shaped, Ready, IInv, Typed, Cells
<1>5. /\ counted' = [counted EXCEPT ![t] = counted[t] + 1]
      /\ place' = [place EXCEPT ![t] = c0]
      /\ cells' = Added(cells, c0, 1, Normalized(t))
      /\ total' = total + Normalized(t)
      /\ payers' = payers \cup {UserOf[t]}
  BY DEF Rollup
<1>6. /\ counted'[t] = 1
      /\ \A x \in Transactions \ {t} : counted'[x] = counted[x]
      /\ \A x \in Transactions : place'[x] = IF x = t THEN c0 ELSE place[x]
  BY <1>1, <1>2, <1>5 DEF IInv, Typed, CellInv, Shaped, ShapedStores
<1>7. RolledUp' = RolledUp \cup {t} /\ t \notin RolledUp
  BY <1>1, <1>2, <1>6 DEF RolledUp
<1>8. IsFiniteSet(RolledUp) /\ RolledUp \in SUBSET Transactions
  BY DEF CellInv, Tables, HotKnown, RolledUp
<1>9. ASSUME NEW c \in Cells
      PROVE  At(cells', c) = Accounted(c)'
  <2>0. "mon" \in seeded /\ c # None
    BY <1>3, ConstantsAssumption DEF Hashes
  <2>1. CASE c = c0
    <3>1. InCell(c)' = InCell(c) \cup {t} /\ t \in Transactions \ InCell(c)
      BY <1>1, <1>2, <1>6, <2>0, <2>1 DEF InCell
    <3>2. At(cells', c) = [cnt |-> At(cells, c).cnt + 1,
                           rev |-> At(cells, c).rev + 1 * Normalized(t)]
      BY <1>5, <2>1, AtAdded
    <3>3. 1 * Normalized(t) = Normalized(t)
      BY <1>1, NormalizedType
    <3> QED BY <2>0, <3>1, <3>2, <3>3, OneMoreInCell
  <2>2. CASE c # c0
    <3>1. InCell(c)' = InCell(c)
      BY <1>1, <1>2, <1>6, <2>0, <2>2 DEF InCell
    <3>2. At(cells', c) = At(cells, c)
      BY <1>5, <2>2, AtAdded
    <3> QED BY <2>0, <3>1, <3>2, SameInCell
  <2> QED BY <2>1, <2>2
<1>10. total' = Stored.total + Worth(RolledUp')
  <2>1. total = Stored.total + Worth(RolledUp)
    BY <1>3 DEF Hashes, CellInv, Tables, CellsHoldEachPurchaseOnce
  <2>2. Worth(RolledUp') = Worth(RolledUp) + Normalized(t)
    BY <1>1, <1>7, <1>8, WorthAdd
  <2>3. Worth(RolledUp) \in Nat /\ Normalized(t) \in Nat /\ Stored.total \in Int
    BY <1>1, <1>8, WorthType, NormalizedType, StoredFacts
  <2> QED BY <1>5, <2>1, <2>2, <2>3
<1>11. payers' = Stored.members \cup {UserOf[x] : x \in RolledUp'}
  <2>1. payers = Stored.members \cup {UserOf[x] : x \in RolledUp}
    BY <1>3 DEF Hashes, CellInv, Tables, CellsHoldEachPurchaseOnce
  <2> QED BY <1>5, <1>7, <2>1
<1>12. CellsHoldEachPurchaseOnce'
  BY <1>9, <1>10, <1>11 DEF CellsHoldEachPurchaseOnce
<1>13. HotKnown'
  <2>1. IsFiniteSet(RolledUp')
    BY <1>7, <1>8, FS_AddElement
  <2>2. ASSUME NEW x \in Transactions, counted'[x] = 0
        PROVE  place'[x] = None
    BY <1>6, <2>2 DEF CellInv, Tables, HotKnown
  <2> QED BY <1>3, <2>1, <2>2 DEF HotKnown, Hashes
<1>14. DOMAIN cells \subseteq DOMAIN cells' /\ payers \subseteq payers'
  BY <1>5 DEF Added
<1>15. \A q \in Records : pc'[q] \in Reading => pc[q] \in Reading /\ floor'[q] = floor[q]
  BY DEF Rollup, Reading, IInv, Typed
<1>16. DaysKnown' /\ SweepsKnown'
  BY <1>3, <1>14, <1>15, DaysStay, SweepsStay DEF Rollup, sweepers
<1> QED BY <1>2, <1>6, <1>12, <1>13, <1>16 DEF Tables

LEMMA MoveTables ==
    ASSUME IInv, CellInv, NEW r \in Records, Move(r)
    PROVE  /\ Tables' /\ DaysKnown' /\ SweepsKnown'
           /\ \A x \in Transactions \ {held[r].tx} : place'[x] = place[x]
<1> DEFINE t == held[r].tx
           from == held[r].cell
           to == <<from[1], value[r]>>
<1>1. held[r] \in Staged /\ value[r] \in ClientValues /\ r \in Companions
  BY DEF Move, CellInv, Shaped, Ready, Servers, Carrying
<1>2. t \in Transactions /\ from \in Cells /\ to \in Cells
  BY <1>1 DEF Staged, Cells
<1>3. place[t] = from /\ held[r].rev = Normalized(t)
  BY <1>1 DEF Move, CellInv, Contexts, HeldInPlace, InPlace, Carrying
<1>4. Hashes \subseteq seeded /\ UNCHANGED <<seeded, counted, total, payers>>
  BY DEF Move, CellInv, SeedsInOrder, Past
<1>5. \A q \in Records : pc'[q] \in Reading => pc[q] \in Reading /\ floor'[q] = floor[q]
  <2>1. PICK p \in {"done", "restage"} : pc' = [pc EXCEPT ![r] = p]
    BY DEF Move
  <2> QED BY <2>1 DEF Move, Reading, IInv, Typed
<1>6. CASE to = from
  <2>1. UNCHANGED <<cells, place>>
    BY <1>6 DEF Move
  <2> QED BY <1>4, <1>5, <2>1, TablesStay, DaysStay, SweepsStay DEF Move, sweepers, CellInv
<1>7. CASE to # from
  <2>1. /\ cells' = Added(Added(cells, from, -1, held[r].rev), to, 1, held[r].rev)
        /\ place' = [place EXCEPT ![t] = to]
    BY <1>7 DEF Move
  <2>2. \A x \in Transactions : place'[x] = IF x = t THEN to ELSE place[x]
    BY <1>2, <2>1 DEF CellInv, Shaped, ShapedStores
  <2>3. "mon" \in seeded /\ Normalized(t) \in Nat
    BY <1>2, <1>4, NormalizedType DEF Hashes
  <2>4. ASSUME NEW c \in Cells
        PROVE  At(cells', c) = Accounted(c)'
    <3>0. At(cells, c).cnt \in Int /\ At(cells, c).rev \in Int
      BY <2>3, AccountedFacts
    <3>1. CASE c = from
      <4>1. At(cells', c) = At(Added(cells, from, -1, held[r].rev), c)
        BY <1>7, <2>1, <3>1, AtAdded
      <4>2. At(cells', c) = [cnt |-> At(cells, c).cnt + (-1),
                             rev |-> At(cells, c).rev + (-1) * held[r].rev]
        BY <3>1, <4>1, AtAdded
      <4>3. At(cells', c) = [cnt |-> At(cells, c).cnt - 1,
                             rev |-> At(cells, c).rev - Normalized(t)]
        BY <1>3, <2>3, <3>0, <4>2
      <4>4. t \in InCell(c) /\ InCell(c)' = InCell(c) \ {t}
        BY <1>2, <1>3, <1>7, <2>2, <3>1 DEF InCell
      <4> QED BY <2>3, <4>3, <4>4, OneLessInCell
    <3>2. CASE c = to
      <4>1. At(Added(cells, from, -1, held[r].rev), c) = At(cells, c)
        BY <1>7, <3>2, AtAdded
      <4>2. At(cells', c) = [cnt |-> At(cells, c).cnt + 1,
                             rev |-> At(cells, c).rev + 1 * held[r].rev]
        BY <2>1, <3>2, <4>1, AtAdded
      <4>3. At(cells', c) = [cnt |-> At(cells, c).cnt + 1,
                             rev |-> At(cells, c).rev + Normalized(t)]
        BY <1>3, <2>3, <4>2
      <4>4. t \in Transactions \ InCell(c) /\ InCell(c)' = InCell(c) \cup {t}
        BY <1>2, <1>3, <1>7, <2>2, <3>2 DEF InCell
      <4> QED BY <2>3, <4>3, <4>4, OneMoreInCell
    <3>3. CASE c # from /\ c # to
      <4>1. At(cells', c) = At(cells, c)
        BY <2>1, <3>3, AtAdded
      <4>2. InCell(c)' = InCell(c)
        BY <1>3, <2>2, <3>3 DEF InCell
      <4> QED BY <2>3, <4>1, <4>2, SameInCell
    <3> QED BY <3>1, <3>2, <3>3
  <2>5. RolledUp' = RolledUp
    BY <1>4 DEF RolledUp
  <2>6. CellsHoldEachPurchaseOnce'
    BY <1>4, <2>4, <2>5 DEF CellsHoldEachPurchaseOnce, CellInv, Tables
  <2>7. HotKnown'
    <3>1. counted[t] # 0
      BY <1>2, <1>3, ConstantsAssumption DEF CellInv, Tables, HotKnown
    <3>2. \A x \in Transactions : counted'[x] = 0 => place'[x] = None
      BY <1>4, <2>2, <3>1 DEF CellInv, Tables, HotKnown
    <3> QED BY <1>4, <2>5, <3>2 DEF HotKnown, CellInv, Tables, Hashes
  <2>8. DOMAIN cells \subseteq DOMAIN cells'
    BY <2>1 DEF Added
  <2>9. DaysKnown' /\ SweepsKnown'
    BY <1>4, <1>5, <2>8, DaysStay, SweepsStay DEF Move, sweepers
  <2> QED BY <2>2, <2>6, <2>7, <2>9 DEF Tables
<1> QED BY <1>6, <1>7

-----------------------------------------------------------------------------
(* Companions and rows meet in the stage *)

LEMMA CompanionFacts ==
    ASSUME NEW r \in Companions
    PROVE  r \in Records /\ r \notin Servers /\ AttemptOf[r] \in Attempts
BY ConstantsAssumption DEF Servers

LEMMA ArriveContexts ==
    ASSUME OneContext, IInv, CellInv, NEW r \in Records, Arrive(r)
    PROVE  Contexts'
<1>1. r \in Companions /\ TxOf[r] = None /\ pc[r] = "queued"
  BY DEF Arrive, OneContext
<1>2. PICK p \in {"done", "join"} :
        pc' = [pc EXCEPT ![r] = p] /\ (p = "join" <=> EventOf[r] \notin dedup)
  BY <1>1 DEF Arrive
<1>3. \A q \in Records : pc'[q] = IF q = r THEN p ELSE pc[q]
  BY <1>2 DEF IInv, Typed
<1>4. dedup' = dedup \cup {EventOf[r]} /\ UNCHANGED <<stage, place, counted, held, tier, value>>
  BY <1>1 DEF Arrive
<1> USE CompanionFacts, ServerFacts
<1>5. OneCompanion'
  <2> SUFFICES ASSUME NEW x \in Companions, pc'[x] \in Busy
               PROVE  /\ EventOf[x] \in dedup'
                      /\ \A q \in Companions :
                           EventOf[q] = EventOf[x] /\ pc'[q] \in Busy => q = x
    BY DEF OneCompanion
  <2>1. CASE x = r
    BY <1>2, <1>3, <1>4, <2>1 DEF CellInv, Contexts, OneCompanion, Busy, Carrying
  <2>2. CASE x # r
    <3>1. pc[x] \in Busy /\ EventOf[x] \in dedup
      BY <1>3, <2>2 DEF CellInv, Contexts, OneCompanion
    <3>2. EventOf[r] = EventOf[x] => pc'[r] \notin Busy
      BY <1>2, <1>3, <3>1 DEF Busy, Carrying
    <3> QED BY <1>3, <1>4, <2>2, <3>1, <3>2 DEF CellInv, Contexts, OneCompanion
  <2> QED BY <2>1, <2>2
<1>6. StagedInPlace'
  <2> SUFFICES ASSUME NEW x \in Companions, EventOf[x] \notin dedup' \/ pc'[x] = "join",
                      stage[AttemptOf[x]].srv # None
               PROVE  InPlace(stage[AttemptOf[x]].srv)
    BY <1>4 DEF StagedInPlace, InPlace
  <2>1. EventOf[x] \notin dedup \/ pc[x] = "join"
    BY <1>2, <1>3, <1>4
  <2> QED BY <2>1 DEF CellInv, Contexts, StagedInPlace
<1>7. HeldInPlace'
  BY <1>2, <1>3, <1>4 DEF CellInv, Contexts, HeldInPlace, InPlace, Carrying
<1>8. \A q \in Companions : pc'[q] \in Carrying => pc[q] \in Carrying
  BY <1>3 DEF Carrying
<1>9. \A q \in Servers : pc'[q] = pc[q]
  BY <1>1, <1>3
<1>10. RolledInPlace'
  BY <1>4, <1>8, <1>9 DEF CellInv, Contexts, RolledInPlace
<1>11. OneAttempt'
  <2>1. ASSUME NEW t \in Transactions, NEW a \in Attempts, Has(t, a)' PROVE Has(t, a)
    BY <1>4, <1>8, <1>9, <2>1 DEF Has
  <2> QED BY <1>4, <2>1 DEF CellInv, Contexts, OneAttempt
<1> QED BY <1>5, <1>6, <1>7, <1>10, <1>11 DEF Contexts

LEMMA JoinContexts ==
    ASSUME IInv, CellInv, NEW r \in Records, Join(r)
    PROVE  Contexts'
<1> DEFINE a == AttemptOf[r]
           srv == stage[a].srv
<1>1. r \in Companions /\ a \in Attempts /\ pc[r] = "join"
  BY CompanionFacts DEF Join, IInv, Typed, Servers
<1>2. PICK p \in {"wait", "done", "floors"} :
        pc' = [pc EXCEPT ![r] = p] /\ (p = "floors" => srv # None)
  BY DEF Join
<1>3. \A q \in Records : pc'[q] = IF q = r THEN p ELSE pc[q]
  BY <1>2 DEF IInv, Typed
<1>4. /\ UNCHANGED <<dedup, stage, place, counted, tier, value>>
      /\ \A q \in Records : held'[q] = IF q = r THEN srv ELSE held[q]
  BY DEF Join, history, CellInv, Shaped, ShapedHandlers
<1>5. p = "floors" => InPlace(srv)
  BY <1>1, <1>2 DEF CellInv, Contexts, StagedInPlace
<1> USE CompanionFacts, ServerFacts
<1>6. \A q \in Companions : pc'[q] \in Busy => pc[q] \in Busy
  BY <1>1, <1>3 DEF Busy
<1>7. OneCompanion'
  BY <1>4, <1>6 DEF CellInv, Contexts, OneCompanion
<1>8. StagedInPlace'
  <2> SUFFICES ASSUME NEW x \in Companions, EventOf[x] \notin dedup \/ pc'[x] = "join",
                      stage[AttemptOf[x]].srv # None
               PROVE  InPlace(stage[AttemptOf[x]].srv)
    BY <1>4 DEF StagedInPlace, InPlace
  <2>1. EventOf[x] \notin dedup \/ pc[x] = "join"
    BY <1>3
  <2> QED BY <2>1 DEF CellInv, Contexts, StagedInPlace
<1>9. HeldInPlace'
  <2> SUFFICES ASSUME NEW x \in Companions, pc'[x] \in Carrying PROVE InPlace(held'[x])
    BY <1>4 DEF HeldInPlace, InPlace
  <2>1. CASE x = r
    BY <1>2, <1>3, <1>4, <1>5, <2>1 DEF Carrying
  <2>2. CASE x # r
    BY <1>3, <1>4, <2>2 DEF CellInv, Contexts, HeldInPlace
  <2> QED BY <2>1, <2>2
<1>10. \A q \in Servers : pc'[q] = pc[q]
  BY <1>1, <1>3
<1>11. \A q \in Companions : pc'[q] \in Carrying =>
         \/ pc[q] \in Carrying /\ held'[q] = held[q]
         \/ q = r /\ held'[q] = srv /\ srv # None
  BY <1>2, <1>3, <1>4 DEF Carrying
<1>12. RolledInPlace'
  <2> SUFFICES ASSUME NEW x \in Servers, pc[x] = "stage"
               PROVE  /\ place[TxOf[x]] = <<tier[x], value[x]>>
                      /\ \A b \in Attempts : stage[b].srv # None => stage[b].srv.tx # TxOf[x]
                      /\ \A q \in Companions : pc'[q] \in Carrying => held'[q].tx # TxOf[x]
                      /\ \A q \in Servers : pc[q] = "stage" /\ TxOf[q] = TxOf[x] => q = x
    BY <1>4, <1>10 DEF RolledInPlace
  <2> QED BY <1>1, <1>11 DEF CellInv, Contexts, RolledInPlace
<1>13. OneAttempt'
  <2>1. ASSUME NEW t \in Transactions, NEW b \in Attempts, Has(t, b)' PROVE Has(t, b)
    BY <1>1, <1>4, <1>10, <1>11, <2>1 DEF Has
  <2> QED BY <1>4, <2>1 DEF CellInv, Contexts, OneAttempt
<1> QED BY <1>7, <1>8, <1>9, <1>12, <1>13 DEF Contexts

LEMMA RollupContexts ==
    ASSUME IInv, CellInv, NEW r \in Records, Rollup(r)
    PROVE  Contexts'
<1> DEFINE t == TxOf[r]
           c0 == <<tier[r], value[r]>>
<1>1. r \in Servers /\ t \in Transactions
  BY ServerFacts DEF Rollup, IInv, Typed, ServersOnly
<1>2. counted[t] = 0 /\ counted'[t] = 1 /\ \A x \in Transactions \ {t} : counted'[x] = counted[x]
  BY RollupTables
<1>3. PICK p : pc' = [pc EXCEPT ![r] = p]
  BY DEF Rollup
<1>4. \A q \in Records : pc'[q] = IF q = r THEN p ELSE pc[q]
  BY <1>3 DEF IInv, Typed
<1>5. UNCHANGED <<dedup, stage, held, tier, value>>
  BY DEF Rollup
<1>6. \A x \in Transactions : place'[x] = IF x = t THEN c0 ELSE place[x]
  BY <1>1 DEF Rollup, CellInv, Shaped, ShapedStores
<1>7. \A a \in Attempts : ~ Has(t, a)
  <2>1. ~ (counted[t] > 0)
    BY <1>2
  <2> QED BY <1>1, <2>1 DEF CellInv, Contexts, OneAttempt
<1> USE CompanionFacts, ServerFacts
<1>8. \A q \in Companions : pc'[q] = pc[q]
  BY <1>1, <1>4
<1>9. OneCompanion'
  BY <1>5, <1>8 DEF CellInv, Contexts, OneCompanion
<1>10. StagedInPlace'
  <2> SUFFICES ASSUME NEW x \in Companions, EventOf[x] \notin dedup \/ pc[x] = "join",
                      stage[AttemptOf[x]].srv # None
               PROVE  InPlace(stage[AttemptOf[x]].srv)'
    BY <1>5, <1>8 DEF StagedInPlace
  <2>1. AttemptOf[x] \in Attempts /\ stage[AttemptOf[x]].srv \in Staged
    BY DEF CellInv, Shaped, ShapedStores
  <2>2. stage[AttemptOf[x]].srv.tx \in Transactions \ {t}
    BY <1>7, <2>1 DEF Has, Staged
  <2>3. InPlace(stage[AttemptOf[x]].srv)
    BY DEF CellInv, Contexts, StagedInPlace
  <2> QED BY <1>5, <1>6, <2>2, <2>3 DEF InPlace
<1>11. HeldInPlace'
  <2> SUFFICES ASSUME NEW x \in Companions, pc[x] \in Carrying
               PROVE  InPlace(held[x])'
    BY <1>8 DEF HeldInPlace
  <2>1. held[x] \in Staged
    BY DEF CellInv, Shaped, Ready
  <2>2. held[x].tx \in Transactions \ {t}
    BY <1>7, <2>1 DEF Has, Staged
  <2>3. InPlace(held[x])
    BY DEF CellInv, Contexts, HeldInPlace
  <2> QED BY <1>5, <1>6, <2>2, <2>3 DEF InPlace
<1>12. \A q \in Servers : pc[q] = "stage" => TxOf[q] # t
  <2> SUFFICES ASSUME NEW q \in Servers, pc[q] = "stage", TxOf[q] = t PROVE FALSE
    OBVIOUS
  <2>1. AttemptOf[q] \in Attempts
    BY DEF CellInv, Shaped, Ready
  <2> QED BY <1>7, <2>1 DEF Has
<1>13. RolledInPlace'
  <2> SUFFICES ASSUME NEW x \in Servers, pc'[x] = "stage"
               PROVE  /\ place'[TxOf[x]] = <<tier[x], value[x]>>
                      /\ \A a \in Attempts : stage[a].srv # None => stage[a].srv.tx # TxOf[x]
                      /\ \A q \in Companions : pc[q] \in Carrying => held[q].tx # TxOf[x]
                      /\ \A q \in Servers : pc'[q] = "stage" /\ TxOf[q] = TxOf[x] => q = x
    BY <1>5, <1>8 DEF RolledInPlace
  <2>1. CASE x = r
    <3>1. /\ \A a \in Attempts : stage[a].srv # None => stage[a].srv.tx # t
          /\ \A q \in Companions : pc[q] \in Carrying => held[q].tx # t
      BY <1>7 DEF Has
    <3> QED BY <1>1, <1>4, <1>6, <1>12, <2>1, <3>1
  <2>2. CASE x # r
    BY <1>1, <1>4, <1>6, <1>12, <2>2 DEF CellInv, Contexts, RolledInPlace
  <2> QED BY <2>1, <2>2
<1>14. counted'[t] > 0
  BY <1>2
<1>15. OneAttempt'
  <2> SUFFICES ASSUME NEW x \in Transactions, NEW a \in Attempts, Has(x, a)'
               PROVE  counted'[x] > 0 /\ \A b \in Attempts : Has(x, b)' => a = b
    BY DEF OneAttempt
  <2>1. CASE x = t
    <3>1. ASSUME NEW b \in Attempts, Has(t, b)' PROVE b = AttemptOf[r]
      <4>1. ~ \E q \in Companions : pc'[q] \in Carrying /\ held'[q].tx = t /\ AttemptOf[q] = b
        BY <1>5, <1>7, <1>8 DEF Has
      <4>2. ~ (stage'[b].srv # None /\ stage'[b].srv.tx = t)
        BY <1>5, <1>7 DEF Has
      <4>3. PICK q \in Servers : pc'[q] = "stage" /\ TxOf[q] = t /\ AttemptOf[q] = b
        BY <3>1, <4>1, <4>2 DEF Has
      <4>4. CASE q # r
        BY <1>4, <1>7, <4>3, <4>4 DEF Has
      <4> QED BY <4>3, <4>4
    <3> QED BY <1>14, <2>1, <3>1
  <2>2. CASE x # t
    <3>1. ASSUME NEW b \in Attempts, Has(x, b)' PROVE Has(x, b)
      BY <1>4, <1>5, <1>8, <2>2, <3>1 DEF Has
    <3> QED BY <1>2, <2>2, <3>1 DEF CellInv, Contexts, OneAttempt
  <2> QED BY <2>1, <2>2
<1> QED BY <1>9, <1>10, <1>11, <1>13, <1>15 DEF Contexts

LEMMA MarkIsApart == "mark mon" \notin Busy /\ "mark mon" # "stage"
BY Zenon DEF Busy, Carrying

LEMMA MarksAreApart ==
    \A q \in DOMAIN Marking : Marking[q].next \notin Busy /\ Marking[q].next # "stage"
<1>1. \A q \in DOMAIN Marking : Marking[q].next \in {"mark rev", "mark payer", "done"}
  BY DEF Marking
<1>2. \A p \in {"mark rev", "mark payer", "done"} : p \notin Busy /\ p # "stage"
  BY Zenon DEF Busy, Carrying
<1> QED BY <1>1, <1>2

LEMMA StageServerContexts ==
    ASSUME IInv, CellInv, NEW r \in Records, StageServer(r)
    PROVE  Contexts'
<1> DEFINE t == TxOf[r]
           a == AttemptOf[r]
           e == [tx |-> t, cell |-> <<tier[r], value[r]>>, rev |-> Normalized(t)]
<1>1. r \in Servers /\ a \in Attempts /\ pc[r] = "stage"
  BY DEF StageServer, CellInv, Shaped, Ready
<1>2. t \in Transactions /\ t # None
  BY <1>1, ServerFacts, ConstantsAssumption
<1>3. PICK p : pc' = [pc EXCEPT ![r] = p] /\ p # "stage"
  BY MarkIsApart, Zenon DEF StageServer
<1>4. \A q \in Records : pc'[q] = IF q = r THEN p ELSE pc[q]
  BY <1>3 DEF IInv, Typed
<1>5. UNCHANGED <<dedup, held, tier, value, counted, place>>
  BY DEF StageServer, history
<1>6. \A b \in Attempts : stage'[b].srv = IF b = a THEN e ELSE stage[b].srv
  BY DEF StageServer, CellInv, Shaped, ShapedStores
<1> HIDE DEF e
<1>7. e.tx = t /\ InPlace(e)
  BY <1>1 DEF CellInv, Contexts, RolledInPlace, InPlace, e
<1>8. Has(t, a)
  BY <1>1 DEF Has
<1> USE CompanionFacts, ServerFacts
<1>9. \A q \in Companions : pc'[q] = pc[q]
  BY <1>1, <1>4
<1>10. OneCompanion' /\ HeldInPlace'
  BY <1>5, <1>9 DEF CellInv, Contexts, OneCompanion, HeldInPlace, InPlace
<1>11. StagedInPlace'
  <2> SUFFICES ASSUME NEW x \in Companions, EventOf[x] \notin dedup \/ pc[x] = "join",
                      stage'[AttemptOf[x]].srv # None
               PROVE  InPlace(stage'[AttemptOf[x]].srv)
    BY <1>5, <1>9 DEF StagedInPlace, InPlace
  <2>1. CASE AttemptOf[x] = a
    BY <1>6, <1>7, <2>1
  <2>2. CASE AttemptOf[x] # a
    BY <1>6, <2>2 DEF CellInv, Contexts, StagedInPlace
  <2> QED BY <2>1, <2>2
<1>12. RolledInPlace'
  <2> SUFFICES ASSUME NEW x \in Servers, pc'[x] = "stage"
               PROVE  /\ place[TxOf[x]] = <<tier[x], value[x]>>
                      /\ \A b \in Attempts : stage'[b].srv # None => stage'[b].srv.tx # TxOf[x]
                      /\ \A q \in Companions : pc[q] \in Carrying => held[q].tx # TxOf[x]
                      /\ \A q \in Servers : pc'[q] = "stage" /\ TxOf[q] = TxOf[x] => q = x
    BY <1>5, <1>9 DEF RolledInPlace
  <2>1. pc[x] = "stage" /\ x # r
    BY <1>3, <1>4
  <2>2. TxOf[x] # t
    BY <1>1, <2>1 DEF CellInv, Contexts, RolledInPlace
  <2>3. \A b \in Attempts : stage'[b].srv # None => stage'[b].srv.tx # TxOf[x]
    BY <1>6, <1>7, <2>1, <2>2 DEF CellInv, Contexts, RolledInPlace
  <2>4. \A q \in Servers : pc'[q] = "stage" => pc[q] = "stage"
    BY <1>3, <1>4
  <2> QED BY <2>1, <2>3, <2>4 DEF CellInv, Contexts, RolledInPlace
<1>13. ASSUME NEW u \in Transactions, NEW b \in Attempts, Has(u, b)' PROVE Has(u, b)
  <2>1. CASE stage'[b].srv # None /\ stage'[b].srv.tx = u
    <3>1. b = a => u = t
      BY <1>6, <1>7, <2>1
    <3>2. b # a => Has(u, b)
      BY <1>6, <2>1 DEF Has
    <3> QED BY <1>8, <3>1, <3>2
  <2>2. CASE ~ (stage'[b].srv # None /\ stage'[b].srv.tx = u)
    BY <1>3, <1>4, <1>5, <1>9, <1>13, <2>2 DEF Has
  <2> QED BY <2>1, <2>2
<1>14. OneAttempt'
  BY <1>5, <1>13 DEF CellInv, Contexts, OneAttempt
<1> QED BY <1>10, <1>11, <1>12, <1>14 DEF Contexts

\* Another companion of the same purchase is a delivery that lost the window.
LEMMA SoleCompanion ==
    ASSUME OneContext, IInv, CellInv, NEW r \in Companions, pc[r] \in Busy,
           NEW x \in Companions, AttemptOf[x] = AttemptOf[r]
    PROVE  EventOf[x] \in dedup /\ (pc[x] \in Busy => x = r)
<1>1. EventOf[x] = EventOf[r]
  BY DEF OneContext
<1> QED BY <1>1 DEF CellInv, Contexts, OneCompanion

LEMMA MoveContexts ==
    ASSUME OneContext, IInv, CellInv, NEW r \in Records, Move(r)
    PROVE  Contexts'
<1> DEFINE t == held[r].tx
           a == AttemptOf[r]
<1>1. held[r] \in Staged /\ r \in Companions /\ pc[r] = "move"
  BY DEF Move, CellInv, Shaped, Ready, Servers, Carrying
<1> USE CompanionFacts, ServerFacts
<1>2. t \in Transactions /\ a \in Attempts
  BY <1>1 DEF Staged
<1>3. PICK p \in {"done", "restage"} : pc' = [pc EXCEPT ![r] = p]
  BY DEF Move
<1>4. \A q \in Records : pc'[q] = IF q = r THEN p ELSE pc[q]
  BY <1>3 DEF IInv, Typed
<1>5. /\ UNCHANGED <<dedup, stage, held, tier, value, counted>>
      /\ \A x \in Transactions \ {t} : place'[x] = place[x]
  BY MoveTables DEF Move
<1>6. Has(t, a) /\ pc[r] \in Carrying /\ pc[r] \in Busy
  BY <1>1 DEF Has, Carrying, Busy
<1>7. \A b \in Attempts : Has(t, b) => b = a
  BY <1>2, <1>6 DEF CellInv, Contexts, OneAttempt
<1>8. \A q \in Servers : pc'[q] = pc[q]
  BY <1>1, <1>4
<1>9. \A q \in Companions :
        /\ pc'[q] \in Carrying => q # r /\ pc[q] \in Carrying
        /\ pc'[q] = "join" => pc[q] = "join" /\ q # r
        /\ pc'[q] \in Busy => pc[q] \in Busy
  BY <1>3, <1>4, <1>6 DEF Carrying, Busy
<1>10. OneCompanion'
  BY <1>5, <1>9 DEF CellInv, Contexts, OneCompanion
<1>11. StagedInPlace'
  <2> SUFFICES ASSUME NEW x \in Companions,
                      EventOf[x] \notin dedup \/ (pc[x] = "join" /\ x # r),
                      stage[AttemptOf[x]].srv # None
               PROVE  InPlace(stage[AttemptOf[x]].srv)'
    BY <1>5, <1>9 DEF StagedInPlace
  <2> DEFINE e == stage[AttemptOf[x]].srv
  <2>1. e \in Staged /\ InPlace(e)
    BY DEF CellInv, Shaped, ShapedStores, Contexts, StagedInPlace
  <2>2. AttemptOf[x] # a
    BY <1>1, <1>6, SoleCompanion DEF Busy
  <2>3. e.tx \in Transactions \ {t}
    BY <1>7, <2>1, <2>2 DEF Has, Staged
  <2> QED BY <1>5, <2>1, <2>3 DEF InPlace
<1>12. HeldInPlace'
  <2> SUFFICES ASSUME NEW x \in Companions, pc[x] \in Carrying, x # r
               PROVE  InPlace(held[x])'
    BY <1>9 DEF HeldInPlace
  <2>1. held[x] \in Staged /\ InPlace(held[x])
    BY DEF CellInv, Shaped, Ready, Contexts, HeldInPlace
  <2>2. AttemptOf[x] # a
    BY <1>1, <1>6, SoleCompanion DEF Busy
  <2>3. held[x].tx \in Transactions \ {t}
    BY <1>7, <2>1, <2>2 DEF Has, Staged
  <2> QED BY <1>5, <2>1, <2>3 DEF InPlace
<1>13. RolledInPlace'
  <2> SUFFICES ASSUME NEW x \in Servers, pc[x] = "stage"
               PROVE  /\ place'[TxOf[x]] = <<tier[x], value[x]>>
                      /\ \A b \in Attempts : stage[b].srv # None => stage[b].srv.tx # TxOf[x]
                      /\ \A q \in Companions : pc'[q] \in Carrying => held[q].tx # TxOf[x]
                      /\ \A q \in Servers : pc[q] = "stage" /\ TxOf[q] = TxOf[x] => q = x
    BY <1>5, <1>8 DEF RolledInPlace
  <2>1. TxOf[x] # t
    BY <1>1, <1>6 DEF CellInv, Contexts, RolledInPlace
  <2> QED BY <1>5, <1>9, <2>1 DEF CellInv, Contexts, RolledInPlace
<1>14. ASSUME NEW u \in Transactions, NEW b \in Attempts, Has(u, b)' PROVE Has(u, b)
  BY <1>5, <1>8, <1>9, <1>14 DEF Has
<1>15. OneAttempt'
  BY <1>5, <1>14 DEF CellInv, Contexts, OneAttempt
<1> QED BY <1>10, <1>11, <1>12, <1>13, <1>15 DEF Contexts

LEMMA RestageContexts ==
    ASSUME OneContext, IInv, CellInv, NEW r \in Records, Restage(r)
    PROVE  Contexts'
<1> DEFINE a == AttemptOf[r]
<1>1. r \in Companions /\ pc[r] = "restage"
  BY DEF Restage, CellInv, Shaped, Ready, Servers
<1> USE CompanionFacts, ServerFacts
<1>2. PICK p : pc' = [pc EXCEPT ![r] = p] /\ p \notin Busy
  BY MarkIsApart, Zenon DEF Restage
<1>3. \A q \in Records : pc'[q] = IF q = r THEN p ELSE pc[q]
  BY <1>2 DEF IInv, Typed
<1>4. UNCHANGED <<dedup, held, tier, value, counted, place>>
  BY DEF Restage, history
<1>5. \A b \in Attempts : b # a => stage'[b] = stage[b]
  BY DEF Restage, CellInv, Shaped, ShapedStores
<1>6. \A b \in Attempts : stage'[b].srv # None =>
        stage[b].srv # None /\ stage'[b].srv.tx = stage[b].srv.tx
  <2>1. stage' = IF stage[a].srv = None THEN stage
                 ELSE [stage EXCEPT ![a].srv.cell = <<@[1], value[r]>>]
    BY Zenon DEF Restage
  <2>2. stage \in [Attempts -> [srv : Staged \cup {None}, cmp : Values \cup {None}]]
    BY DEF CellInv, Shaped, ShapedStores
  <2>3. a \in Attempts
    BY <1>1
  <2>4. CASE stage[a].srv = None
    BY <2>1, <2>4
  <2>5. CASE stage[a].srv # None
    <3>1. stage'[a].srv.tx = stage[a].srv.tx
      BY <2>1, <2>2, <2>3, <2>5 DEF Staged
    <3> QED BY <1>5, <2>5, <3>1
  <2> QED BY <2>4, <2>5
<1>7. \A q \in Servers : pc'[q] = pc[q]
  BY <1>1, <1>3
<1>8. \A q \in Companions : pc'[q] \in Busy => q # r /\ pc[q] \in Busy /\ pc'[q] = pc[q]
  BY <1>2, <1>3
<1>9. OneCompanion'
  BY <1>4, <1>8 DEF CellInv, Contexts, OneCompanion
<1>10. \A q \in Companions :
         /\ pc'[q] \in Carrying => pc[q] \in Carrying
         /\ pc'[q] = "join" => pc[q] = "join" /\ q # r
  BY <1>8 DEF Busy
<1>11. StagedInPlace'
  <2> SUFFICES ASSUME NEW x \in Companions,
                      EventOf[x] \notin dedup \/ (pc[x] = "join" /\ x # r),
                      stage'[AttemptOf[x]].srv # None
               PROVE  InPlace(stage'[AttemptOf[x]].srv)
    BY <1>4, <1>10 DEF StagedInPlace, InPlace
  <2>1. AttemptOf[x] # a
    BY <1>1, SoleCompanion DEF Busy
  <2>2. stage'[AttemptOf[x]] = stage[AttemptOf[x]]
    BY <1>5, <2>1
  <2> QED BY <2>2 DEF CellInv, Contexts, StagedInPlace
<1>12. HeldInPlace'
  BY <1>4, <1>10 DEF CellInv, Contexts, HeldInPlace, InPlace
<1>13. RolledInPlace'
  BY <1>4, <1>6, <1>7, <1>10 DEF CellInv, Contexts, RolledInPlace
<1>14. ASSUME NEW u \in Transactions, NEW b \in Attempts, Has(u, b)' PROVE Has(u, b)
  BY <1>4, <1>6, <1>7, <1>10, <1>14 DEF Has
<1>15. OneAttempt'
  BY <1>4, <1>14 DEF CellInv, Contexts, OneAttempt
<1> QED BY <1>9, <1>11, <1>12, <1>13, <1>15 DEF Contexts

LEMMA RecordMoves ==
    ASSUME IInv, CellInv, NEW r \in Records, NEW p, pc' = [pc EXCEPT ![r] = p],
           UNCHANGED <<dedup, place, counted>>,
           \A q \in Records \ {r} :
             held'[q] = held[q] /\ tier'[q] = tier[q] /\ value'[q] = value[q],
           r \in Companions =>
             /\ p \in Busy => pc[r] \in Busy /\ p # "join"
             /\ p \in Carrying => pc[r] \in Carrying /\ held'[r] = held[r],
           r \in Servers => p # "stage",
           \A a \in Attempts : stage'[a].srv = stage[a].srv
    PROVE  Contexts'
<1>1. \A q \in Records : pc'[q] = IF q = r THEN p ELSE pc[q]
  BY DEF IInv, Typed
<1>2. \A q \in Companions :
        /\ pc'[q] \in Busy => pc[q] \in Busy
        /\ pc'[q] = "join" => pc[q] = "join"
        /\ pc'[q] \in Carrying => pc[q] \in Carrying /\ held'[q] = held[q]
  <2> SUFFICES ASSUME NEW q \in Companions
               PROVE  /\ pc'[q] \in Busy => pc[q] \in Busy
                      /\ pc'[q] = "join" => pc[q] = "join"
                      /\ pc'[q] \in Carrying => pc[q] \in Carrying /\ held'[q] = held[q]
    OBVIOUS
  <2>1. CASE q = r
    BY <1>1, <2>1, CompanionFacts DEF Busy
  <2>2. CASE q # r
    BY <1>1, <2>2, CompanionFacts
  <2> QED BY <2>1, <2>2
<1>3. \A q \in Servers :
        pc'[q] = "stage" => pc[q] = "stage" /\ tier'[q] = tier[q] /\ value'[q] = value[q]
  BY <1>1, ServerFacts
<1> QED BY <1>2, <1>3, ContextsStay

\* The steps of a handler that leave stage, window and places as they are.
LEMMA QuietContexts ==
    ASSUME IInv, CellInv, NEW r \in Records, RecordStep(r) \/ RecordFail(r),
           ~Arrive(r), ~Join(r), ~Rollup(r), ~StageServer(r), ~Move(r), ~Restage(r)
    PROVE  Contexts'
<1> USE DEF Busy, Carrying
<1>s. ShapedHandlers
  BY DEF CellInv, Shaped
<1>t. tier \in [Records -> Tiers] /\ pc \in [Records -> Places]
  BY DEF IInv, Typed
<1>1. CASE CheckClaimed(r) \/ PreRead(r) \/ Commit(r)
  <2>1. r \in Servers /\ r \notin Companions
    BY <1>1 DEF CheckClaimed, PreRead, Commit, IInv, Typed, ServersOnly, Servers
  <2>2. PICK p : pc' = [pc EXCEPT ![r] = p] /\ p # "stage"
    BY <1>1 DEF CheckClaimed, PreRead, Commit
  <2>3. /\ UNCHANGED <<dedup, place, counted, stage>>
        /\ \A q \in Records \ {r} : held'[q] = held[q] /\ tier'[q] = tier[q]
               /\ value'[q] = value[q]
    BY <1>1, <1>t DEF CheckClaimed, PreRead, Commit, history
  <2> QED BY <2>1, <2>2, <2>3, RecordMoves
<1>2. CASE StageCompanion(r)
  <2>1. \A a \in Attempts : stage'[a].srv = stage[a].srv
    BY <1>2 DEF StageCompanion, CellInv, Shaped, ShapedStores
  <2>2. pc' = [pc EXCEPT ![r] = "done"] /\ UNCHANGED <<dedup, place, counted, held, tier, value>>
    BY <1>2 DEF StageCompanion, history
  <2> QED BY <2>1, <2>2, RecordMoves
<1>3. CASE ReadFloor(r)
  BY <1>3, RecordMoves DEF ReadFloor, history
<1>4. CASE CheckSeeded(r) \/ SeedHash(r)
  <2>1. pc[r] \in Carrying \ {"join"}
    BY <1>4 DEF CheckSeeded, SeedHash
  <2>2. PICK p \in {"floors", "context", "resolve", "seed"} : pc' = [pc EXCEPT ![r] = p]
    BY <1>4 DEF CheckSeeded, SeedHash, NextHash
  <2>3. UNCHANGED <<dedup, place, counted, held, tier, stage>>
    BY <1>4 DEF CheckSeeded, SeedHash, history
  <2>4. \A q \in Records \ {r} : value'[q] = value[q]
    BY <1>4, <1>s DEF CheckSeeded, SeedHash, NextHash, ShapedHandlers
  <2> QED BY <2>1, <2>2, <2>3, <2>4, RecordMoves
<1>5. CASE ReadContext(r)
  <2>1. r \in Servers /\ r \notin Companions
    BY <1>5 DEF ReadContext, IInv, Typed, ServersOnly, Servers
  <2>2. /\ pc' = [pc EXCEPT ![r] = "resolve"]
        /\ UNCHANGED <<dedup, place, counted, held, tier, stage>>
        /\ \A q \in Records \ {r} : value'[q] = value[q]
    BY <1>5, <1>s DEF ReadContext, history, ShapedHandlers
  <2> QED BY <2>1, <2>2, RecordMoves
<1>6. CASE Resolve(r)
  <2>1. PICK p \in {"rollup", "move"} : pc' = [pc EXCEPT ![r] = p]
    BY <1>6 DEF Resolve
  <2>2. pc[r] = "resolve" /\ UNCHANGED <<dedup, place, counted, held, tier, stage>>
    BY <1>6 DEF Resolve, history
  <2>3. \A q \in Records \ {r} : value'[q] = value[q]
    BY <1>6, <1>s DEF Resolve, ShapedHandlers
  <2> QED BY <2>1, <2>2, <2>3, RecordMoves
<1>7. CASE Mark(r)
  <2>1. \A q \in DOMAIN Marking : Marking[q].next \notin Busy /\ Marking[q].next # "stage"
    BY MarksAreApart
  <2>2. PICK p : pc' = [pc EXCEPT ![r] = p] /\ p \notin Busy /\ p # "stage"
    BY <1>7, <1>t, <2>1 DEF Mark
  <2>3. UNCHANGED <<dedup, place, counted, stage>>
    BY <1>7 DEF Mark, history
  <2>4. \A q \in Records \ {r} :
          held'[q] = held[q] /\ tier'[q] = tier[q] /\ value'[q] = value[q]
    BY <1>7, <1>s, <1>t DEF Mark, ShapedHandlers
  <2> QED BY <2>2, <2>3, <2>4, RecordMoves
<1>8. CASE RecordFail(r)
  BY <1>8, RecordMoves DEF RecordFail
<1> QED BY <1>1, <1>2, <1>3, <1>4, <1>5, <1>6, <1>7, <1>8 DEF RecordStep

LEMMA RecordContexts ==
    ASSUME OneContext, IInv, CellInv, NEW r \in Records, RecordStep(r) \/ RecordFail(r)
    PROVE  Contexts'
BY QuietContexts, ArriveContexts, JoinContexts, RollupContexts, StageServerContexts,
   MoveContexts, RestageContexts

LEMMA RecordCells ==
    ASSUME OneContext, IInv, CellInv, NEW r \in Records, RecordStep(r) \/ RecordFail(r)
    PROVE  CellInv'
<1>1. Tables' /\ DaysKnown' /\ SweepsKnown'
  BY QuietKeeps, SeedHashTables, SeedHashDays, RollupTables, MoveTables
<1> QED BY <1>1, RecordShaped, RecordSeeds, RecordContexts DEF CellInv

LEMMA InitCells == Init => CellInv
<1> SUFFICES ASSUME Init PROVE CellInv
  OBVIOUS
<1>p. \A r \in Records : pc[r] \in {"absent", "queued"}
  BY DEF Init
<1>1. Shaped
  <2>1. ShapedHandlers
    BY DEF Init, ShapedHandlers, Suffixes, ClientValues
  <2>2. ShapedStores
    BY ConstantsAssumption DEF Init, ShapedStores, NoStage, IsDay
  <2>3. ShapedSweeps
    BY DEF Init, ShapedSweeps, Idle, Domains
  <2>4. \A r \in Records : Ready(r)
    BY <1>p DEF Ready, Carrying
  <2> QED BY <2>1, <2>2, <2>3, <2>4 DEF Shaped
<1>2. SeedsInOrder
  BY <1>p, AllAhead DEF Init, SeedsInOrder, Past
<1>3. DaysKnown
  BY <1>p DEF Init, DaysKnown, DayKnown, Reading
<1>4. SweepsKnown
  BY DEF Init, SweepsKnown, Idle, Empty
<1>5. Tables
  <2>1. RolledUp = {}
    BY DEF Init, RolledUp
  <2>2. HotKnown
    BY <2>1, FS_EmptySet DEF Init, HotKnown
  <2>3. CellsHoldEachPurchaseOnce
    BY DEF Init, CellsHoldEachPurchaseOnce
  <2> QED BY <2>2, <2>3 DEF Tables
<1>6. Contexts
  <2>1. \A r \in Companions : pc[r] \notin Busy /\ pc[r] # "join"
    BY <1>p, CompanionFacts DEF Busy, Carrying
  <2>2. \A r \in Servers : pc[r] # "stage"
    BY <1>p, ServerFacts
  <2>3. \A a \in Attempts : stage[a].srv = None
    BY DEF Init, NoStage
  <2>4. OneCompanion /\ HeldInPlace /\ RolledInPlace
    BY <2>1, <2>2 DEF OneCompanion, HeldInPlace, RolledInPlace, Busy
  <2>5. StagedInPlace
    BY <2>3, CompanionFacts DEF StagedInPlace
  <2>6. \A t \in Transactions, a \in Attempts : ~ Has(t, a)
    BY <2>1, <2>2, <2>3 DEF Has, Busy
  <2> QED BY <2>4, <2>5, <2>6 DEF Contexts, OneAttempt
<1> QED BY <1>1, <1>2, <1>3, <1>4, <1>5, <1>6 DEF CellInv

LEMMA NextCells == OneContext /\ IInv /\ CellInv /\ [Next]_vars => CellInv'
<1> SUFFICES ASSUME OneContext, IInv, CellInv, [Next]_vars PROVE CellInv'
  OBVIOUS
<1>1. ASSUME NEW r \in Records, RecordStep(r) \/ RecordFail(r) PROVE CellInv'
  BY <1>1, RecordCells
<1>2. ASSUME NEW s \in Sweeps, SweepStep(s) \/ SweepFail(s) PROVE CellInv'
  BY <1>2, SweepKeeps
<1>3. CASE (\E a \in Attempts : Expire(a)) \/ Seal \/ UNCHANGED vars
  BY <1>3, OthersKeep
<1>4. CASE Crash
  BY <1>4, CrashCells
<1> QED BY <1>1, <1>2, <1>3, <1>4 DEF Next

\* Every purchase rolled up is in one cell with its money, once in the day total
\* and its payer once in the payer set, whatever handlers race through the seeds,
\* the rollup, the stage and the move, whatever dies between them and whatever is
\* delivered again, as long as an attempt has one companion (SERVER_ROLLUP_LUA,
\* MOVE_LUA and the seeds of monetization-hot-hook.ts).
THEOREM CellsCorrect ==
    ASSUME OneContext
    PROVE  Spec => []CellsHoldEachPurchaseOnce
<1>1. CellInv => CellsHoldEachPurchaseOnce
  BY DEF CellInv, Tables
<1>2. IInv /\ CellInv /\ [Next]_vars => CellInv'
  BY NextCells
<1> QED BY <1>1, <1>2, Invariant, InitCells, PTL DEF Spec

-----------------------------------------------------------------------------
(* The flush.  What is not in Postgres yet is owed: its domain is marked,  *)
(* or a handler has still to mark it, or a sweep has taken the mark and    *)
(* has still to read or to write.  A write is accepted because the sweep's *)
(* generation is above all that Postgres holds, which takes one sweep at a *)
(* time and a floor whose day total is not ahead of its cells: metaFloor   *)
(* looks at the cells alone.                                               *)

OneSweep == \A s, q \in Sweeps : s = q
FloorCovers == Stored.gen <= MaxGen(Stored)

\* What a handler still has to do before it marks a domain.
Unmarked == [d \in Domains |->
    {"stage", "restage", "mark mon"}
      \cup (CASE d = "mon" -> {}
              [] d = "rev" -> {"mark rev"}
              [] d = "payer" -> {"mark rev", "mark payer"})]

Owed(d) ==
    \/ d \in dirty
    \/ \E r \in Records : pc[r] \in Unmarked[d]
    \/ \E s \in Sweeps : spc[s] = <<d, "read">>

\* Until every hash carries the marker, nothing was there to flush.
NothingFlushed ==
    ~ (Hashes \subseteq seeded) =>
      /\ day = Stored /\ dirty = {}
      /\ \A r \in Records : /\ pc[r] \in Reading => floor[r] = Stored
                            /\ pc[r] \notin DOMAIN Marking
      /\ \A s \in Sweeps : spc[s][2] = "drain"

\* No row of the day is from a later generation than g.
GensUpTo(g) ==
    /\ day.gen \in Nat /\ day.gen <= g
    /\ \A c \in DOMAIN day.cells : day.cells[c].gen \in Nat /\ day.cells[c].gen <= g

GensInOrder ==
    /\ gen \in Nat
    /\ "meta" \in seeded => GensUpTo(gen)
    /\ \A s \in Sweeps : spc[s][2] = "write" =>
         snap[s].gen \in Nat /\ snap[s].gen <= gen /\ GensUpTo(snap[s].gen)

\* What is in the hash is owed, or it is what a sweep is about to write, or else
\* what Postgres holds.
CellsOwed ==
    "mon" \in seeded => \A c \in Cells :
      \/ Owed("mon")
      \/ \E s \in Sweeps : /\ spc[s] = <<"mon", "write">> /\ c \in rows[s]
                           /\ At(snap[s].cells, c) = At(cells, c)
      \/ /\ At(day.cells, c) = At(cells, c)
         /\ \A s \in Sweeps : ~ (spc[s] = <<"mon", "write">> /\ c \in rows[s])

TotalOwed ==
    "rev" \in seeded =>
      \/ Owed("rev")
      \/ \E s \in Sweeps : spc[s] = <<"rev", "write">> /\ snap[s].total = total
      \/ day.total = total /\ \A s \in Sweeps : spc[s] # <<"rev", "write">>

MembersOwed ==
    "payer" \in seeded =>
      \/ Owed("payer")
      \/ \E s \in Sweeps : spc[s] = <<"payer", "write">> /\ snap[s].members = payers
      \/ day.members = payers /\ \A s \in Sweeps : spc[s] # <<"payer", "write">>

\* The rows a sweep has still to write are in what it read.
RowsRead ==
    \A s \in Sweeps : spc[s] = <<"mon", "write">> => rows[s] \subseteq DOMAIN snap[s].cells

FlushInv ==
    /\ NothingFlushed /\ GensInOrder /\ RowsRead /\ failures \in Nat
    /\ failures = 0 => CellsOwed /\ TotalOwed /\ MembersOwed

\* A bounded set of numbers has a greatest one.
LEMMA Greatest ==
    ASSUME NEW n \in Nat, NEW S, S \subseteq 0 .. n, S # {}
    PROVE  Max(S) \in S /\ \A s \in S : Max(S) >= s
<1> DEFINE T == {n - s : s \in S}
           Below == {p \in Nat \X Nat : p[1] < p[2]}
<1>1. \A s \in S : s \in Nat /\ n - s \in Nat
  OBVIOUS
<1>2. T \subseteq Nat /\ T # {}
  BY <1>1
<1>3. IsWellFoundedOn(Below, Nat)
  BY NatLessThanWellFounded DEF OpToRel
<1> HIDE DEF Below
<1>4. \E x \in T : \A y \in T : ~(<<y, x>> \in Below)
  BY <1>2, <1>3, WFMin
<1>5. PICK x \in T : \A y \in T : ~(<<y, x>> \in Below)
  BY <1>4
<1>6. \A y \in T : ~(y < x)
  <2> TAKE y \in T
  <2>1. y \in Nat /\ x \in Nat
    BY <1>2
  <2>2. <<y, x>> \in Below <=> y < x
    BY <2>1 DEF Below
  <2> QED
    BY <1>5, <2>2
<1>7. PICK m \in S : x = n - m
  BY <1>5
<1>8. \A s \in S : n - s \in T
  OBVIOUS
<1>9. \A s \in S : m >= s
  BY <1>1, <1>6, <1>7, <1>8
<1> QED
  BY <1>9 DEF Max

LEMMA OwedFacts ==
    /\ \A d \in Domains : {"stage", "restage", "mark mon"} \subseteq Unmarked[d]
    /\ \A d \in Domains : Unmarked[d] \cap {"queued", "absent", "done"} = {}
    /\ \A d \in Domains : \A p \in DOMAIN Marking :
         p \in Unmarked[d] => Marking[p].domain = d \/ Marking[p].next \in Unmarked[d]
    /\ Unmarked["mon"] = {"stage", "restage", "mark mon"}
BY DEF Domains, Unmarked, Marking

\* A record's step leaves what is owed owed, unless it fails.
LEMMA RecordOwes ==
    ASSUME IInv, CellInv, NEW r \in Records, RecordStep(r), NEW d \in Domains, Owed(d)
    PROVE  Owed(d)'
<1>0. UNCHANGED spc /\ dirty \subseteq dirty'
  BY DEF RecordStep, CheckClaimed, PreRead, Commit, Arrive, Join, StageCompanion, ReadFloor,
         CheckSeeded, SeedHash, ReadContext, Resolve, Rollup, StageServer, Move, Restage, Mark,
         sweepers
<1>1. pc \in [Records -> Places]
  BY DEF IInv, Typed
<1>2. ASSUME pc[r] \in Unmarked[d]
      PROVE  pc'[r] \in Unmarked[d] \/ d \in dirty'
  <2>1. pc[r] \in {"stage", "restage"} \cup DOMAIN Marking
    BY <1>2 DEF Unmarked, Domains, Marking
  <2>2. CASE pc[r] \in {"stage", "restage"}
    <3>1. StageServer(r) \/ Restage(r)
      BY <2>2 DEF RecordStep, CheckClaimed, PreRead, Commit, Arrive, Join, StageCompanion,
                  ReadFloor, CheckSeeded, SeedHash, ReadContext, Resolve, Rollup, Move, Mark,
                  Marking
    <3>2. pc'[r] = "mark mon"
      BY <1>1, <3>1 DEF StageServer, Restage
    <3> QED BY <3>2, OwedFacts
  <2>3. CASE pc[r] \in DOMAIN Marking
    <3>1. Mark(r)
      BY <2>3 DEF RecordStep, CheckClaimed, PreRead, Commit, Arrive, Join, StageCompanion,
                  ReadFloor, CheckSeeded, SeedHash, ReadContext, Resolve, Rollup, StageServer,
                  Move, Restage, Marking
    <3>2. pc'[r] = Marking[pc[r]].next /\ dirty' = dirty \cup {Marking[pc[r]].domain}
      BY <1>1, <3>1 DEF Mark
    <3> QED BY <1>2, <2>3, <3>2, OwedFacts
  <2> QED BY <2>1, <2>2, <2>3
<1>3. \A q \in Records \ {r} : pc'[q] = pc[q]
  BY <1>1 DEF RecordStep, CheckClaimed, PreRead, Commit, Arrive, Join, StageCompanion, ReadFloor,
              CheckSeeded, NextHash, SeedHash, ReadContext, Resolve, Rollup, StageServer, Move,
              Restage, Mark
<1> QED BY <1>0, <1>2, <1>3 DEF Owed

\* A sweep's step leaves what is owed owed, unless it reads the domain.
LEMMA SweepOwes ==
    ASSUME IInv, CellInv, NEW s \in Sweeps, SweepStep(s), NEW d \in Domains, Owed(d),
           ~ (SweepRead(s) /\ spc[s][1] = d /\ d \in seeded)
    PROVE  Owed(d)'
<1>t. ShapedSweeps
  BY DEF CellInv, Shaped
<1>0. UNCHANGED pc
  BY SweepShaped DEF handlers
<1>1. \A q \in Sweeps \ {s} : spc'[q] = spc[q]
  BY <1>t DEF SweepStep, SweepDrain, SweepRead, SweepCell, SweepTotal, SweepMembers, EndOf,
              ShapedSweeps
<1>2. CASE \E r \in Records : pc[r] \in Unmarked[d]
  BY <1>0, <1>2 DEF Owed
<1>3. CASE d \in dirty
  <2>1. CASE SweepDrain(s)
    <3>1. CASE spc[s][1] = d
      <4>1. spc'[s] = <<d, "read">>
        BY <1>t, <1>3, <2>1, <3>1 DEF SweepDrain, ShapedSweeps
      <4> QED BY <4>1 DEF Owed
    <3>2. CASE spc[s][1] # d
      BY <1>3, <2>1, <3>2 DEF SweepDrain, Owed
    <3> QED BY <3>1, <3>2
  <2>2. CASE ~SweepDrain(s)
    <3>1. dirty \subseteq dirty'
      BY <2>2 DEF SweepStep, SweepRead, SweepCell, SweepTotal, SweepMembers
    <3> QED BY <1>3, <3>1 DEF Owed
  <2> QED BY <2>1, <2>2
<1>4. CASE \E q \in Sweeps : spc[q] = <<d, "read">>
  <2>1. PICK q \in Sweeps : spc[q] = <<d, "read">>
    BY <1>4
  <2>2. CASE q # s
    BY <1>1, <2>1, <2>2 DEF Owed
  <2>3. CASE q = s
    <3>1. SweepRead(s)
      BY <2>1, <2>3 DEF SweepStep, SweepDrain, SweepCell, SweepTotal, SweepMembers
    <3>2. d \in dirty'
      BY <2>1, <2>3, <3>1 DEF SweepRead
    <3> QED BY <3>2 DEF Owed
  <2> QED BY <2>2, <2>3
<1> QED BY <1>2, <1>3, <1>4 DEF Owed


\* A finite set of numbers has a greatest one.
LEMMA Bounded ==
    ASSUME NEW S, IsFiniteSet(S), NEW g \in [S -> Nat]
    PROVE  \E b \in Nat : \A x \in S : g[x] <= b
<1>1. PICK n \in Nat : ExistsBijection(1 .. n, S)
  BY FS_NatBijection
<1>2. PICK f \in [1 .. n -> S] : \A x \in S : \E i \in 1 .. n : f[i] = x
  BY <1>1 DEF ExistsBijection, Bijection, Surjection, Injection
<1> DEFINE Done(k) == \E b \in Nat : \A i \in 1 .. k : i <= n => g[f[i]] <= b
           Open == {k \in Nat : ~Done(k)}
           Below == {p \in Nat \X Nat : p[1] < p[2]}
<1>3. Done(0)
  OBVIOUS
<1>4. ASSUME NEW k \in Nat, Done(k) PROVE Done(k + 1)
  <2>1. PICK b \in Nat : \A i \in 1 .. k : i <= n => g[f[i]] <= b
    BY <1>4
  <2>2. CASE k + 1 <= n
    <3>1. g[f[k + 1]] \in Nat /\ \A i \in 1 .. k + 1 : i <= n => g[f[i]] \in Nat
      BY <2>2
    <3>2. ASSUME NEW i \in 1 .. k + 1, i <= n PROVE g[f[i]] <= b + g[f[k + 1]]
      <4>1. CASE i = k + 1
        BY <3>1, <4>1
      <4>2. CASE i # k + 1
        <5>1. i \in 1 .. k /\ g[f[i]] \in Nat /\ g[f[i]] <= b
          BY <2>1, <3>1, <3>2, <4>2
        <5> QED BY <3>1, <5>1
      <4> QED BY <4>1, <4>2
    <3>3. b + g[f[k + 1]] \in Nat
      BY <3>1
    <3> QED BY <3>2, <3>3
  <2>3. CASE ~ (k + 1 <= n)
    BY <2>1, <2>3
  <2> QED BY <2>2, <2>3
<1> HIDE DEF Done
<1>5. Open = {}
  <2> SUFFICES ASSUME Open # {} PROVE FALSE
    OBVIOUS
  <2>1. IsWellFoundedOn(Below, Nat)
    BY NatLessThanWellFounded DEF OpToRel
  <2> HIDE DEF Below
  <2>2. PICK k \in Open : \A j \in Open : ~(<<j, k>> \in Below)
    BY <2>1, WFMin
  <2>3. k # 0 /\ k - 1 \in Nat
    BY <1>3, <2>2
  <2>4. <<k - 1, k>> \in Below
    BY <2>2, <2>3 DEF Below
  <2>5. Done(k - 1)
    BY <2>2, <2>3, <2>4
  <2>6. Done((k - 1) + 1)
    BY <1>4, <2>3, <2>5
  <2>7. (k - 1) + 1 = k
    BY <2>2
  <2> QED BY <2>2, <2>6, <2>7
<1>6. Done(n)
  BY <1>5
<1>7. PICK b \in Nat : \A i \in 1 .. n : g[f[i]] <= b
  BY <1>6 DEF Done
<1> QED BY <1>2, <1>7

LEMMA MaxGenBounds ==
    /\ MaxGen(Stored) \in Nat
    /\ \A c \in DOMAIN Stored.cells :
         Stored.cells[c].gen \in Nat /\ Stored.cells[c].gen <= MaxGen(Stored)
<1> DEFINE D == DOMAIN Stored.cells
           g == [c \in D |-> Stored.cells[c].gen]
           S == {0} \cup {Stored.cells[c].gen : c \in D}
           Below == {p \in Nat \X Nat : p[1] < p[2]}
<1>1. \A c \in D : Stored.cells[c].gen \in Nat
  BY ConstantsAssumption DEF IsDay, IsTable
<1>d. IsFiniteSet(D) /\ g \in [D -> Nat]
  BY <1>1, ConstantsAssumption
<1>b. \E b \in Nat : \A c \in D : g[c] <= b
  <2> HIDE DEF D, g
  <2> QED BY <1>d, Bounded
<1>2. PICK b \in Nat : \A c \in D : g[c] <= b
  BY <1>b
<1>3. S \subseteq 0 .. b /\ S # {}
  <2>1. ASSUME NEW c \in D PROVE Stored.cells[c].gen \in 0 .. b
    <3>1. g[c] = Stored.cells[c].gen /\ Stored.cells[c].gen \in Nat
      BY <1>1
    <3>2. g[c] <= b
      BY <1>2
    <3> QED BY <3>1, <3>2
  <2> QED BY <2>1
<1> HIDE DEF S
<1>4. Max(S) \in S /\ \A x \in S : Max(S) >= x
  BY <1>3, Greatest
<1>5. Max(S) \in Nat /\ \A x \in S : x <= Max(S)
  <2>1. \A x \in S : x \in Nat
    BY <1>3
  <2> HIDE DEF Below
  <2> QED BY <1>4, <2>1
<1> QED BY <1>1, <1>5 DEF S, MaxGen

\* A handler that seeds has nothing read any more.
LEMMA SeedReads ==
    ASSUME IInv, CellInv, NEW r \in Records, SeedHash(r)
    PROVE  /\ \A q \in Records : pc'[q] \in Reading => pc[q] \in Reading /\ floor'[q] = floor[q]
           /\ \A q \in Records : pc'[q] \in DOMAIN Marking => pc[q] \in DOMAIN Marking
<1>1. /\ \A q \in Records \ {r} : pc'[q] = pc[q] /\ floor'[q] = floor[q]
      /\ pc'[r] \in {"floors", "context", "resolve"}
  BY DEF SeedHash, NextHash, IInv, Typed, CellInv, Shaped, ShapedHandlers
<1> QED BY <1>1 DEF Reading, Marking

\* A seed puts what the floor had into the hash: no difference to Postgres arises.
LEMMA SeedAdds ==
    ASSUME IInv, CellInv, NothingFlushed, NEW r \in Records, SeedHash(r)
    PROVE  /\ IF "mon" \in seeded THEN \A c : At(cells', c) = At(cells, c)
                                  ELSE "mon" \in seeded' => \A c : At(cells', c) = At(day.cells,
                                      c)
           /\ IF "rev" \in seeded THEN total' = total
                                  ELSE "rev" \in seeded' => total' = day.total
           /\ IF "payer" \in seeded THEN payers' = payers
                                    ELSE "payer" \in seeded' => payers' = day.members
           /\ "meta" \in seeded => gen' = gen
           /\ "meta" \notin seeded => gen' = gen \/ (gen' = MaxGen(Stored) /\ day = Stored)
           /\ "meta" \notin seeded /\ "meta" \in seeded' => gen' = MaxGen(Stored)
<1> DEFINE h == Head(todo[r])
<1>1. h \in Hashes /\ seeded' = seeded \cup {h}
  BY SuffixFacts DEF SeedHash, CellInv, Shaped, ShapedHandlers
<1>2. DayKnown(floor[r]) /\ pc[r] \in Reading
  BY DEF SeedHash, CellInv, DaysKnown, Reading
<1>3. ~ (Hashes \subseteq seeded) => day = Stored /\ floor[r] = Stored
  BY <1>2 DEF NothingFlushed
<1>h. HotKnown
  BY DEF CellInv, Tables
<1>4. IF "mon" \in seeded THEN \A c : At(cells', c) = At(cells, c)
                          ELSE "mon" \in seeded' => \A c : At(cells', c) = At(day.cells, c)
  <2>1. CASE "mon" \in seeded
    BY <1>2, <2>1 DEF SeedHash, DayKnown, Filled, At
  <2>2. CASE "mon" \notin seeded /\ h = "mon"
    <3>1. cells = Empty /\ floor[r].cells = day.cells
      BY <1>3, <1>h, <2>2 DEF HotKnown, Hashes
    <3>2. cells' = Filled(cells, floor[r].cells)
      BY <2>2 DEF SeedHash
    <3> QED BY <2>2, <3>1, <3>2 DEF Filled, At, Empty
  <2> QED BY <1>1, <2>1, <2>2
<1>5. IF "rev" \in seeded THEN total' = total ELSE "rev" \in seeded' => total' = day.total
  BY <1>1, <1>3 DEF SeedHash, Hashes
<1>6. IF "payer" \in seeded THEN payers' = payers
                            ELSE "payer" \in seeded' => payers' = day.members
  BY <1>1, <1>2, <1>3, <1>h DEF SeedHash, Hashes, DayKnown, HotKnown
<1>7. /\ "meta" \in seeded => gen' = gen
      /\ "meta" \notin seeded => gen' = gen \/ (gen' = MaxGen(Stored) /\ day = Stored)
      /\ "meta" \notin seeded /\ "meta" \in seeded' => gen' = MaxGen(Stored)
  BY <1>1, <1>3 DEF SeedHash, Hashes
<1> QED BY <1>4, <1>5, <1>6, <1>7

Compared == CellsOwed /\ TotalOwed /\ MembersOwed

\* What a step keeps that changes neither the day nor what is hot.
LEMMA ComparedStays ==
    ASSUME Compared, NothingFlushed, UNCHANGED <<day, spc, snap, rows>>,
           \A d \in Domains : Owed(d) => Owed(d)',
           "mon" \in seeded' => IF "mon" \in seeded THEN \A c \in Cells : At(cells',
               c) = At(cells, c)
                                ELSE \A c \in Cells : At(cells', c) = At(day.cells, c),
           "rev" \in seeded' => IF "rev" \in seeded THEN total' = total ELSE total' = day.total,
           "payer" \in seeded' => IF "payer" \in seeded THEN payers' = payers
                                  ELSE payers' = day.members
    PROVE  Compared'
<1>d. "mon" \in Domains /\ "rev" \in Domains /\ "payer" \in Domains
  BY DEF Domains
<1>n. ("mon" \notin seeded \/ "rev" \notin seeded \/ "payer" \notin seeded)
        => \A s \in Sweeps : spc[s][2] = "drain"
  BY DEF NothingFlushed, Hashes
<1>1. CellsOwed'
  <2> SUFFICES ASSUME "mon" \in seeded', NEW c \in Cells, ~Owed("mon")'
               PROVE  \/ \E s \in Sweeps : /\ spc[s] = <<"mon", "write">> /\ c \in rows[s]
                                           /\ At(snap[s].cells, c) = At(cells', c)
                      \/ /\ At(day.cells, c) = At(cells', c)
                         /\ \A s \in Sweeps : ~ (spc[s] = <<"mon", "write">> /\ c \in rows[s])
    BY DEF CellsOwed
  <2>1. CASE "mon" \in seeded
    <3>1. At(cells', c) = At(cells, c) /\ ~Owed("mon")
      BY <1>d, <2>1
    <3> QED BY <2>1, <3>1 DEF Compared, CellsOwed
  <2>2. CASE "mon" \notin seeded
    BY <1>n, <2>2
  <2> QED BY <2>1, <2>2
<1>2. TotalOwed'
  BY <1>d, <1>n DEF Compared, TotalOwed
<1>3. MembersOwed'
  BY <1>d, <1>n DEF Compared, MembersOwed
<1> QED BY <1>1, <1>2, <1>3 DEF Compared

\* Rollup and move: the handler has still to mark all three domains.
LEMMA HandlerOwes ==
    ASSUME NEW r \in Records, pc'[r] \in {"stage", "restage", "mark mon"}
    PROVE  Compared'
<1>1. \A d \in Domains : Owed(d)'
  BY OwedFacts DEF Owed
<1>2. Owed("mon")' /\ Owed("rev")' /\ Owed("payer")'
  BY <1>1 DEF Domains
<1> QED BY <1>2 DEF Compared, CellsOwed, TotalOwed, MembersOwed

LEMMA RecordCompared ==
    ASSUME IInv, CellInv, NothingFlushed, Compared, NEW r \in Records, RecordStep(r)
    PROVE  Compared'
<1>1. CASE SeedHash(r)
  <2>1. UNCHANGED <<day, spc, snap, rows>>
    BY <1>1 DEF SeedHash, sweepers
  <2> QED BY <1>1, <2>1, SeedAdds, RecordOwes, ComparedStays
<1>2. CASE Rollup(r)
  <2>1. pc'[r] \in {"stage", "mark mon"}
    BY <1>2 DEF Rollup, IInv, Typed
  <2> QED BY <2>1, HandlerOwes
<1>3. CASE Move(r)
  <2>1. CASE pc'[r] = "restage"
    BY <2>1, HandlerOwes
  <2>2. CASE pc'[r] # "restage"
    <3>1. UNCHANGED <<cells, total, payers, seeded, day, spc, snap, rows>>
      BY <1>3, <2>2 DEF Move, IInv, Typed, sweepers
    <3> QED BY <3>1, RecordOwes, ComparedStays
  <2> QED BY <2>1, <2>2
<1>4. CASE ~SeedHash(r) /\ ~Rollup(r) /\ ~Move(r)
  <2>1. UNCHANGED <<cells, total, payers, seeded, day, spc, snap, rows>>
    BY <1>4, QuietRecord
  <2> QED BY <2>1, RecordOwes, ComparedStays
<1> QED BY <1>1, <1>2, <1>3, <1>4

\* A sweep that has something in hand works behind the seeds.
LEMMA SweepSeeded ==
    ASSUME NothingFlushed, NEW s \in Sweeps, spc[s][2] # "drain"
    PROVE  Hashes \subseteq seeded
BY DEF NothingFlushed

\* What an upsert of a cell, of a total and of the members does.
LEMMA CellWrites ==
    ASSUME CellInv, GensInOrder, NEW s \in Sweeps, SweepCell(s)
    PROVE  /\ spc[s] = <<"mon", "write">>
           /\ \E c \in rows[s] :
                /\ day'.total = day.total /\ day'.gen = day.gen /\ day'.members = day.members
                /\ DOMAIN day'.cells = DOMAIN day.cells \cup {c}
                /\ day'.cells[c] = CellRow(snap[s], c)
                /\ \A x \in DOMAIN day.cells \ {c} : day'.cells[x] = day.cells[x]
                /\ rows' = [rows EXCEPT ![s] = rows[s] \ {c}]
                /\ IF rows[s] = {c} THEN EndOf(s) ELSE UNCHANGED <<spc, snap>>
<1>t. ShapedStores
  BY DEF CellInv, Shaped
<1>1. PICK c \in rows[s] :
         /\ day' = IF c \in DOMAIN day.cells /\ ~Accepts(snap[s].gen, day.cells[c].gen)
                   THEN day
                   ELSE [day EXCEPT !.cells = [x \in DOMAIN @ \cup {c} |->
                           IF x = c THEN CellRow(snap[s], c) ELSE @[x]]]
         /\ rows' = [rows EXCEPT ![s] = @ \ {c}]
         /\ IF rows[s] = {c} THEN EndOf(s) ELSE UNCHANGED <<spc, snap>>
  BY DEF SweepCell
<1>2. spc[s] = <<"mon", "write">>
  BY DEF SweepCell
<1>3. ~ (c \in DOMAIN day.cells /\ ~Accepts(snap[s].gen, day.cells[c].gen))
  BY <1>2 DEF GensInOrder, GensUpTo, Accepts
<1>4. day' = [day EXCEPT !.cells = [x \in DOMAIN day.cells \cup {c} |->
                           IF x = c THEN CellRow(snap[s], c) ELSE day.cells[x]]]
  BY <1>1, <1>3
<1>5. /\ day'.total = day.total /\ day'.gen = day.gen /\ day'.members = day.members
      /\ day'.cells = [x \in DOMAIN day.cells \cup {c} |->
                           IF x = c THEN CellRow(snap[s], c) ELSE day.cells[x]]
  BY <1>4, <1>t DEF ShapedStores
<1>6. /\ DOMAIN day'.cells = DOMAIN day.cells \cup {c}
      /\ day'.cells[c] = CellRow(snap[s], c)
      /\ \A x \in DOMAIN day.cells \ {c} : day'.cells[x] = day.cells[x]
  BY <1>5
<1> QED BY <1>1, <1>2, <1>5, <1>6

LEMMA TotalWrites ==
    ASSUME CellInv, GensInOrder, NEW s \in Sweeps, SweepTotal(s)
    PROVE  /\ spc[s] = <<"rev", "write">> /\ EndOf(s) /\ UNCHANGED rows
           /\ day'.total = snap[s].total /\ day'.gen = snap[s].gen
           /\ day'.cells = day.cells /\ day'.members = day.members
<1>1. spc[s] = <<"rev", "write">> /\ EndOf(s) /\ UNCHANGED rows
  BY DEF SweepTotal
<1>2. Accepts(snap[s].gen, day.gen)
  BY <1>1 DEF GensInOrder, GensUpTo, Accepts
<1> QED BY <1>1, <1>2 DEF SweepTotal, CellInv, Shaped, ShapedStores

LEMMA MembersWrite ==
    ASSUME CellInv, NEW s \in Sweeps, SweepMembers(s)
    PROVE  /\ spc[s] = <<"payer", "write">> /\ EndOf(s) /\ UNCHANGED rows
           /\ day'.members = day.members \cup snap[s].members
           /\ day'.total = day.total /\ day'.gen = day.gen /\ day'.cells = day.cells
BY DEF SweepMembers, CellInv, Shaped, ShapedStores

\* The sweep's place after its last write.
LEMMA AfterEnd ==
    ASSUME CellInv, NEW s \in Sweeps, EndOf(s) \/ spc' = [spc EXCEPT ![s] = After[spc[s][1]]]
    PROVE  spc'[s][2] = "drain" /\ \A q \in Sweeps \ {s} : spc'[q] = spc[q]
<1>1. After[spc[s][1]] \in Domains \X {"drain"}
  BY SweepFacts DEF CellInv, Shaped
<1>2. spc' = [spc EXCEPT ![s] = After[spc[s][1]]]
  BY DEF EndOf
<1> QED BY <1>1, <1>2 DEF CellInv, Shaped, ShapedSweeps

\* A read that finds something to write.
LEMMA ReadToWrite ==
    ASSUME CellInv, NEW s \in Sweeps, SweepRead(s), spc'[s][2] = "write"
    PROVE  /\ spc[s][1] \in seeded /\ spc'[s] = <<spc[s][1], "write">>
           /\ snap'[s] = [cells |-> cells, gen |-> gen, total |-> total, members |-> payers]
           /\ rows'[s] = IF spc[s][1] = "mon" THEN DOMAIN cells ELSE {}
<1>1. spc' # [spc EXCEPT ![s] = After[spc[s][1]]]
  <2> SUFFICES ASSUME spc' = [spc EXCEPT ![s] = After[spc[s][1]]] PROVE FALSE
    OBVIOUS
  <2> QED BY AfterEnd
<1> QED BY <1>1 DEF SweepRead, CellInv, Shaped, ShapedSweeps

LEMMA NothingFlushedStays ==
    ASSUME IInv, CellInv, NothingFlushed, [Next]_vars
    PROVE  NothingFlushed'
<1> SUFFICES ASSUME ~ (Hashes \subseteq seeded'), seeded \subseteq seeded'
             PROVE  /\ day' = Stored /\ dirty' = {}
                    /\ \A r \in Records : /\ pc'[r] \in Reading => floor'[r] = Stored
                                          /\ pc'[r] \notin DOMAIN Marking
                    /\ \A s \in Sweeps : spc'[s][2] = "drain"
  <2>1. seeded \subseteq seeded'
    <3>1. ASSUME NEW r \in Records, RecordStep(r) \/ RecordFail(r) PROVE seeded \subseteq seeded'
      <4>1. CASE SeedHash(r) \/ Rollup(r) \/ Move(r)
        BY <4>1 DEF SeedHash, Rollup, Move
      <4> QED BY <3>1, <4>1, QuietRecord
    <3>2. ASSUME NEW s \in Sweeps, SweepStep(s) \/ SweepFail(s) PROVE seeded \subseteq seeded'
      BY <3>2, SweepShaped
    <3>3. CASE (\E a \in Attempts : Expire(a)) \/ Seal \/ Crash \/ UNCHANGED vars
      BY <3>3 DEF Expire, Seal, Crash, vars, hotDay
    <3> QED BY <3>1, <3>2, <3>3 DEF Next
  <2> QED BY <2>1 DEF NothingFlushed
<1>0. ~ (Hashes \subseteq seeded)
  OBVIOUS
<1>1. /\ day = Stored /\ dirty = {}
      /\ \A r \in Records : /\ pc[r] \in Reading => floor[r] = Stored
                            /\ pc[r] \notin DOMAIN Marking /\ pc[r] \notin Past
      /\ \A s \in Sweeps : spc[s][2] = "drain"
  BY <1>0 DEF NothingFlushed, CellInv, SeedsInOrder
<1>2. ASSUME NEW r \in Records, RecordStep(r) \/ RecordFail(r)
      PROVE  /\ day' = Stored /\ dirty' = {}
             /\ \A q \in Records : /\ pc'[q] \in Reading => floor'[q] = Stored
                                   /\ pc'[q] \notin DOMAIN Marking
             /\ \A s \in Sweeps : spc'[s][2] = "drain"
  <2>1. ~Rollup(r) /\ ~Move(r) /\ ~StageServer(r) /\ ~Restage(r) /\ ~Mark(r)
    BY <1>1 DEF Rollup, Move, StageServer, Restage, Mark, Past
  <2>2. UNCHANGED <<day, spc>>
    <3>1. CASE SeedHash(r)
      BY <3>1 DEF SeedHash, sweepers
    <3> QED BY <1>2, <2>1, <3>1, QuietRecord
  <2>3. \A q \in Records : pc'[q] \in Reading => floor'[q] = Stored
    BY <1>1, <1>2, <2>1, SeedReads, QuietRecord
  <2>4. UNCHANGED dirty
    BY <1>2, <2>1 DEF RecordStep, RecordFail, CheckClaimed, PreRead, Commit, Arrive, Join,
         StageCompanion, ReadFloor, CheckSeeded, SeedHash, ReadContext, Resolve
  <2>5. \A q \in Records : pc'[q] \notin DOMAIN Marking
    <3>1. CASE SeedHash(r)
      BY <1>1, <3>1, SeedReads
    <3>2. CASE ~SeedHash(r)
      <4>0. DOMAIN Marking = {"mark mon", "mark rev", "mark payer"}
        BY DEF Marking
      <4>1. \E p : pc' = [pc EXCEPT ![r] = p] /\ p \notin DOMAIN Marking
        <5>1. CASE CheckSeeded(r)
          <6>1. \E p \in {"seed", "floors", "context", "resolve"} : pc' = [pc EXCEPT ![r] = p]
            BY <5>1 DEF CheckSeeded, NextHash
          <6> QED BY <4>0, <6>1
        <5>2. CASE CheckClaimed(r) \/ PreRead(r) \/ Commit(r) \/ Arrive(r) \/ RecordFail(r)
          BY <4>0, <5>2 DEF CheckClaimed, PreRead, Commit, Arrive, RecordFail
        <5>3. CASE Join(r) \/ StageCompanion(r) \/ ReadFloor(r) \/ ReadContext(r) \/ Resolve(r)
          <6>1. \E p \in {"wait", "done", "floors", "check", "resolve", "rollup", "move"} :
                  pc' = [pc EXCEPT ![r] = p]
            BY <5>3 DEF Join, StageCompanion, ReadFloor, ReadContext, Resolve
          <6> QED BY <4>0, <6>1
        <5> QED BY <1>2, <2>1, <3>2, <5>1, <5>2, <5>3 DEF RecordStep
      <4> QED BY <1>1, <4>1 DEF IInv, Typed
    <3> QED BY <3>1, <3>2
  <2> QED BY <1>1, <2>2, <2>3, <2>4, <2>5
<1>3. ASSUME NEW s \in Sweeps, SweepStep(s) \/ SweepFail(s)
      PROVE  /\ UNCHANGED <<pc, floor, day>> /\ dirty' = {}
             /\ \A q \in Sweeps : spc'[q][2] = "drain"
  <2>1. UNCHANGED <<pc, floor>>
    BY <1>3, SweepShaped DEF handlers
  <2>2. SweepDrain(s) \/ SweepFail(s)
    BY <1>1, <1>3 DEF SweepStep, SweepRead, SweepCell, SweepTotal, SweepMembers
  <2>3. UNCHANGED day /\ dirty' = {}
    BY <1>1, <2>2 DEF SweepDrain, SweepFail
  <2>4. spc' = [spc EXCEPT ![s] = After[spc[s][1]]] \/ spc' = [spc EXCEPT ![s] = Idle]
    BY <1>1, <2>2 DEF SweepDrain, SweepFail
  <2>5. \A q \in Sweeps : spc'[q][2] = "drain"
    BY <1>1, <2>4, AfterEnd DEF Idle, CellInv, Shaped, ShapedSweeps
  <2> QED BY <2>1, <2>3, <2>5
<1>4. CASE Crash
  BY <1>1, <1>4, CrashLeaves DEF Crash, Idle, Reading, Marking
<1>5. CASE (\E a \in Attempts : Expire(a)) \/ Seal \/ UNCHANGED vars
  BY <1>1, <1>5 DEF Expire, Seal, vars, handlers, sweepers
<1> QED BY <1>1, <1>2, <1>3, <1>4, <1>5 DEF Next

\* Where generations stay as they are, or only grow.
LEMMA GensStay ==
    ASSUME CellInv, GensInOrder, UNCHANGED <<day, spc, snap>>, gen' \in Nat, gen <= gen',
           "meta" \in seeded' => "meta" \in seeded
    PROVE  GensInOrder'
<1>1. \A g : GensUpTo(g)' <=> GensUpTo(g)
  BY DEF GensUpTo
<1>2. "meta" \in seeded' => GensUpTo(gen)'
  BY DEF GensInOrder, GensUpTo
<1> QED BY <1>2 DEF GensInOrder, GensUpTo

\* A sweep that is not writing has nothing to compare.
LEMMA GensOfSweep ==
    ASSUME CellInv, GensInOrder, NEW s \in Sweeps, UNCHANGED <<gen, seeded, day>>,
           spc'[s][2] # "write",
           \A q \in Sweeps \ {s} : spc'[q] = spc[q] /\ snap'[q] = snap[q]
    PROVE  GensInOrder'
BY DEF GensInOrder, GensUpTo

LEMMA SweepGens ==
    ASSUME OneSweep, IInv, CellInv, NothingFlushed, GensInOrder, NEW s \in Sweeps,
           SweepStep(s) \/ SweepFail(s)
    PROVE  GensInOrder'
<1>1. UNCHANGED <<gen, seeded>>
  BY SweepShaped DEF SweepStep, SweepDrain, SweepRead, SweepCell, SweepTotal, SweepMembers,
                     SweepFail, hotDay
<1>s. \A q \in Sweeps : q = s
  BY DEF OneSweep
<1>2. CASE UNCHANGED day /\ spc'[s][2] # "write"
  BY <1>1, <1>2, <1>s, GensOfSweep
<1>3. CASE SweepDrain(s)
  <2>1. spc'[s][2] # "write"
    BY <1>3, AfterEnd DEF SweepDrain, CellInv, Shaped, ShapedSweeps
  <2> QED BY <1>2, <1>3, <2>1 DEF SweepDrain
<1>4. CASE SweepFail(s)
  <2>1. spc'[s][2] # "write"
    BY <1>4 DEF SweepFail, CellInv, Shaped, ShapedSweeps, Idle
  <2> QED BY <1>2, <1>4, <2>1 DEF SweepFail
<1>5. CASE SweepRead(s)
  <2>0. UNCHANGED day
    BY <1>5 DEF SweepRead
  <2>1. CASE spc'[s][2] = "write"
    <3>1. snap'[s].gen = gen /\ spc[s][2] # "drain"
      BY <1>5, <2>1, ReadToWrite DEF SweepRead
    <3>2. GensUpTo(gen) /\ gen \in Nat
      BY <3>1, SweepSeeded DEF GensInOrder, Hashes
    <3> QED BY <1>1, <1>s, <2>0, <3>1, <3>2 DEF GensInOrder, GensUpTo
  <2> QED BY <1>2, <2>0, <2>1
<1>6. ASSUME SweepCell(s) \/ SweepTotal(s) \/ SweepMembers(s)
      PROVE  GensInOrder'
  <2>1. spc[s][2] = "write" /\ "meta" \in seeded
    BY <1>6, SweepSeeded DEF SweepCell, SweepTotal, SweepMembers, Hashes
  <2>2. /\ snap[s].gen \in Nat /\ snap[s].gen <= gen /\ gen \in Nat
        /\ GensUpTo(snap[s].gen)
    BY <2>1 DEF GensInOrder
  <2> DEFINE g == snap[s].gen
  <2>3. /\ day'.gen \in Nat /\ day'.gen <= g
        /\ \A x \in DOMAIN day'.cells : day'.cells[x].gen \in Nat /\ day'.cells[x].gen <= g
    <3>1. CASE SweepCell(s)
      <4>1. PICK c \in rows[s] :
                /\ day'.gen = day.gen
                /\ DOMAIN day'.cells = DOMAIN day.cells \cup {c}
                /\ day'.cells[c] = CellRow(snap[s], c)
                /\ \A x \in DOMAIN day.cells \ {c} : day'.cells[x] = day.cells[x]
        BY <3>1, CellWrites
      <4>2. day'.cells[c].gen = g
        BY <4>1 DEF CellRow
      <4> QED BY <2>2, <4>1, <4>2 DEF GensUpTo
    <3>2. CASE SweepTotal(s)
      <4>1. day'.gen = g /\ day'.cells = day.cells
        BY <3>2, TotalWrites
      <4> QED BY <2>2, <4>1 DEF GensUpTo
    <3>3. CASE SweepMembers(s)
      <4>1. day'.gen = day.gen /\ day'.cells = day.cells
        BY <3>3, MembersWrite
      <4> QED BY <2>2, <4>1 DEF GensUpTo
    <3> QED BY <1>6, <3>1, <3>2, <3>3
  <2>4. /\ day'.gen <= gen
        /\ \A x \in DOMAIN day'.cells : day'.cells[x].gen <= gen
    <3> HIDE DEF g
    <3>1. g \in Nat /\ g <= gen /\ gen \in Nat
      BY <2>2 DEF g
    <3> QED BY <2>3, <3>1
  <2>5. spc'[s][2] = "write" => snap'[s] = snap[s]
    <3>1. EndOf(s) \/ UNCHANGED snap
      BY <1>6, CellWrites, TotalWrites, MembersWrite
    <3> QED BY <3>1, AfterEnd
  <2> QED BY <1>1, <1>s, <2>2, <2>3, <2>4, <2>5 DEF GensInOrder, GensUpTo
<1> QED BY <1>3, <1>4, <1>5, <1>6 DEF SweepStep

\* The generation of a day that was lost starts above every row of the day.
LEMMA GensStart ==
    ASSUME Stored.gen <= MaxGen(Stored), day = Stored
    PROVE  GensUpTo(MaxGen(Stored))
BY MaxGenBounds, ConstantsAssumption DEF GensUpTo, IsDay

LEMMA NextGens ==
    ASSUME OneSweep, Stored.gen <= MaxGen(Stored), IInv, CellInv, NothingFlushed, GensInOrder,
           [Next]_vars
    PROVE  GensInOrder'
<1>1. ASSUME NEW r \in Records, RecordStep(r) \/ RecordFail(r)
      PROVE  GensInOrder'
  <2>1. CASE SeedHash(r)
    <3>1. UNCHANGED <<day, spc, snap>>
      BY <2>1 DEF SeedHash, sweepers
    <3>2. CASE "meta" \notin seeded /\ "meta" \in seeded'
      <4>1. gen' = MaxGen(Stored) /\ day = Stored /\ \A s \in Sweeps : spc[s][2] = "drain"
        BY <2>1, <3>2, SeedAdds DEF NothingFlushed, Hashes
      <4>2. GensUpTo(gen') /\ gen' \in Nat
        BY <4>1, GensStart, MaxGenBounds
      <4> QED BY <3>1, <4>1, <4>2 DEF GensInOrder, GensUpTo
    <3>3. CASE "meta" \in seeded
      BY <2>1, <3>1, <3>3, SeedAdds, GensStay DEF GensInOrder
    <3>4. CASE "meta" \notin seeded'
      <4>1. "meta" \notin seeded /\ Head(todo[r]) # "meta"
        BY <2>1, <3>4 DEF SeedHash
      <4>2. gen' = gen
        BY <2>1, <4>1 DEF SeedHash
      <4> QED BY <3>1, <3>4, <4>2, GensStay DEF GensInOrder
    <3> QED BY <3>2, <3>3, <3>4
  <2>2. CASE Move(r)
    <3>1. UNCHANGED <<day, spc, snap, seeded>> /\ (gen' = gen \/ gen' = gen + 1)
      BY <2>2 DEF Move, sweepers
    <3> QED BY <3>1, GensStay DEF GensInOrder
  <2>3. CASE Rollup(r)
    <3>1. UNCHANGED <<day, spc, snap, seeded, gen>>
      BY <2>3 DEF Rollup, sweepers
    <3> QED BY <3>1, GensStay DEF GensInOrder
  <2>4. CASE ~SeedHash(r) /\ ~Rollup(r) /\ ~Move(r)
    <3>1. UNCHANGED <<day, spc, snap, seeded>>
      BY <1>1, <2>4, QuietRecord
    <3>2. UNCHANGED gen
      BY <1>1, <2>4 DEF RecordStep, RecordFail, CheckClaimed, PreRead, Commit, Arrive, Join,
           StageCompanion, ReadFloor, CheckSeeded, ReadContext, Resolve, StageServer, Restage,
           Mark, hotDay
    <3> QED BY <3>1, <3>2, GensStay DEF GensInOrder
  <2> QED BY <2>1, <2>2, <2>3, <2>4
<1>2. ASSUME NEW s \in Sweeps, SweepStep(s) \/ SweepFail(s) PROVE GensInOrder'
  BY <1>2, SweepGens
<1>3. CASE Crash
  <2>1. UNCHANGED <<day, gen, seeded>> /\ \A s \in Sweeps : spc'[s][2] # "write"
    BY <1>3, CrashLeaves DEF Crash, Idle, hotDay
  <2> QED BY <2>1 DEF GensInOrder, GensUpTo
<1>4. CASE (\E a \in Attempts : Expire(a)) \/ Seal \/ UNCHANGED vars
  <2>1. UNCHANGED <<day, gen, seeded, spc, snap>>
    BY <1>4 DEF Expire, Seal, vars, hotDay, sweepers
  <2> QED BY <2>1, GensStay DEF GensInOrder
<1> QED BY <1>1, <1>2, <1>3, <1>4 DEF Next

LEMMA RowsReadStays ==
    ASSUME IInv, CellInv, RowsRead, [Next]_vars
    PROVE  RowsRead'
<1>1. CASE UNCHANGED <<spc, snap, rows>>
  BY <1>1 DEF RowsRead
<1>2. ASSUME NEW r \in Records, RecordStep(r) \/ RecordFail(r) PROVE UNCHANGED <<spc, snap,
                                                                                 rows>>
  <2>1. CASE SeedHash(r) \/ Rollup(r) \/ Move(r)
    BY <2>1 DEF SeedHash, Rollup, Move, sweepers
  <2> QED BY <1>2, <2>1, QuietRecord
<1>3. ASSUME NEW s \in Sweeps, SweepStep(s) \/ SweepFail(s) PROVE RowsRead'
  <2>1. \A q \in Sweeps \ {s} : spc'[q] = spc[q] /\ snap'[q] = snap[q] /\ rows'[q] = rows[q]
    BY <1>3 DEF SweepStep, SweepDrain, SweepRead, SweepCell, SweepTotal, SweepMembers, SweepFail,
                EndOf, CellInv, Shaped, ShapedSweeps
  <2>2. spc'[s] = <<"mon", "write">> => rows'[s] \subseteq DOMAIN snap'[s].cells
    <3> SUFFICES ASSUME spc'[s] = <<"mon", "write">>, spc'[s][1] = "mon", spc'[s][2] = "write"
                 PROVE  rows'[s] \subseteq DOMAIN snap'[s].cells
      OBVIOUS
    <3>1. CASE SweepRead(s)
      BY <3>1, ReadToWrite
    <3>2. CASE SweepCell(s)
      <4>1. ~EndOf(s)
        BY AfterEnd
      <4>2. UNCHANGED snap /\ spc[s] = <<"mon", "write">> /\ rows'[s] \subseteq rows[s]
        BY <3>2, <4>1 DEF SweepCell, CellInv, Shaped, ShapedSweeps
      <4> QED BY <4>2 DEF RowsRead
    <3>3. ~SweepTotal(s) /\ ~SweepMembers(s)
      BY AfterEnd DEF SweepTotal, SweepMembers
    <3>4. ~SweepDrain(s) /\ ~SweepFail(s)
      BY AfterEnd DEF SweepDrain, SweepFail, Idle, CellInv, Shaped, ShapedSweeps
    <3> QED BY <1>3, <3>1, <3>2, <3>3, <3>4 DEF SweepStep
  <2> QED BY <2>1, <2>2 DEF RowsRead
<1>4. CASE Crash
  BY <1>4, CrashLeaves DEF RowsRead, Idle
<1>5. CASE (\E a \in Attempts : Expire(a)) \/ Seal \/ UNCHANGED vars
  BY <1>1, <1>5 DEF Expire, Seal, vars, sweepers
<1> QED BY <1>1, <1>2, <1>3, <1>4, <1>5 DEF Next

\* A read of a domain takes over what was owed.
LEMMA ReadTakes ==
    ASSUME CellInv, NEW s \in Sweeps, SweepRead(s), spc[s][1] \in seeded
    PROVE  \/ /\ spc'[s] = <<spc[s][1], "write">>
              /\ snap'[s] = [cells |-> cells, gen |-> gen, total |-> total, members |-> payers]
              /\ rows'[s] = IF spc[s][1] = "mon" THEN DOMAIN cells ELSE {}
           \/ spc[s][1] = "mon" /\ cells = Empty /\ spc'[s][2] = "drain"
<1>1. CASE spc[s][1] = "mon" /\ cells = Empty
  <2>1. spc' = [spc EXCEPT ![s] = After[spc[s][1]]]
    BY <1>1 DEF SweepRead
  <2> QED BY <1>1, <2>1, AfterEnd
<1>2. CASE ~ (spc[s][1] = "mon" /\ cells = Empty)
  BY <1>2 DEF SweepRead, CellInv, Shaped, ShapedSweeps
<1> QED BY <1>1, <1>2

\* The steps of a sweep that do not write leave the day.
LEMMA OnlyWritesWrite ==
    ASSUME CellInv, GensInOrder, NEW s \in Sweeps, SweepStep(s)
    PROVE  /\ ~SweepCell(s) => day'.cells = day.cells
           /\ ~SweepTotal(s) => day'.total = day.total
           /\ ~SweepMembers(s) => day'.members = day.members
           /\ spc[s] = <<"mon", "write">> => SweepCell(s)
           /\ spc[s] = <<"rev", "write">> => SweepTotal(s)
           /\ spc[s] = <<"payer", "write">> => SweepMembers(s)
           /\ spc'[s][2] = "write" => SweepRead(s) \/ SweepCell(s)
<1>1. /\ spc[s] = <<"mon", "write">> => SweepCell(s)
      /\ spc[s] = <<"rev", "write">> => SweepTotal(s)
      /\ spc[s] = <<"payer", "write">> => SweepMembers(s)
  <2>1. spc[s][2] = "write" => SweepCell(s) \/ SweepTotal(s) \/ SweepMembers(s)
    BY DEF SweepStep, SweepDrain, SweepRead
  <2>2. /\ SweepCell(s) => spc[s][1] = "mon"
        /\ SweepTotal(s) => spc[s][1] = "rev"
        /\ SweepMembers(s) => spc[s][1] = "payer"
    BY DEF SweepCell, SweepTotal, SweepMembers
  <2> QED BY <2>1, <2>2
<1>2. SweepDrain(s) \/ SweepRead(s) => UNCHANGED day
  BY DEF SweepDrain, SweepRead
<1>3. spc'[s][2] = "write" => SweepRead(s) \/ SweepCell(s)
  BY AfterEnd DEF SweepStep, SweepDrain, SweepTotal, SweepMembers, CellInv, Shaped, ShapedSweeps
<1> QED BY <1>1, <1>2, <1>3, CellWrites, TotalWrites, MembersWrite DEF SweepStep

LEMMA SweepCellsOwed ==
    ASSUME OneSweep, IInv, CellInv, GensInOrder, RowsRead, CellsOwed,
           NEW s \in Sweeps, SweepStep(s)
    PROVE  CellsOwed'
<1> SUFFICES ASSUME "mon" \in seeded, NEW c \in Cells, ~Owed("mon")', cells' = cells
             PROVE  \/ /\ spc'[s] = <<"mon", "write">> /\ c \in rows'[s]
                       /\ At(snap'[s].cells, c) = At(cells, c)
                    \/ /\ At(day'.cells, c) = At(cells, c)
                       /\ ~ (spc'[s] = <<"mon", "write">> /\ c \in rows'[s])
  <2>1. UNCHANGED <<cells, seeded>>
    BY SweepShaped
  <2> QED BY <2>1 DEF CellsOwed, OneSweep
<1>d. "mon" \in Domains
  BY DEF Domains
<1>1. CASE SweepRead(s) /\ spc[s][1] = "mon"
  <2>1. UNCHANGED day /\ DOMAIN day.cells \subseteq DOMAIN cells
    BY <1>1 DEF SweepRead, CellInv, DaysKnown, DayKnown
  <2>2. c \notin DOMAIN cells => At(day.cells, c) = At(cells, c)
    BY <2>1 DEF At
  <2>3. \/ /\ spc'[s] = <<"mon", "write">> /\ snap'[s].cells = cells /\ rows'[s] = DOMAIN cells
        \/ cells = Empty /\ spc'[s][2] = "drain"
    BY <1>1, ReadTakes
  <2> QED BY <2>1, <2>2, <2>3 DEF Empty
<1>2. CASE ~ (SweepRead(s) /\ spc[s][1] = "mon")
  <2>1. ~Owed("mon")
    BY <1>2, <1>d, SweepOwes
  <2>2. \/ /\ spc[s] = <<"mon", "write">> /\ c \in rows[s]
           /\ At(snap[s].cells, c) = At(cells, c)
        \/ /\ At(day.cells, c) = At(cells, c)
           /\ ~ (spc[s] = <<"mon", "write">> /\ c \in rows[s])
    BY <2>1 DEF CellsOwed, OneSweep
  <2>3. CASE SweepCell(s)
    <3>1. PICK x \in rows[s] :
                /\ DOMAIN day'.cells = DOMAIN day.cells \cup {x}
                /\ day'.cells[x] = CellRow(snap[s], x)
                /\ \A y \in DOMAIN day.cells \ {x} : day'.cells[y] = day.cells[y]
                /\ rows' = [rows EXCEPT ![s] = rows[s] \ {x}]
                /\ IF rows[s] = {x} THEN EndOf(s) ELSE UNCHANGED <<spc, snap>>
      BY <2>3, CellWrites
    <3>2. spc[s] = <<"mon", "write">> /\ x \in DOMAIN snap[s].cells
      BY <2>3, <3>1, CellWrites DEF RowsRead
    <3>3. rows'[s] = rows[s] \ {x}
      BY <3>1 DEF CellInv, Shaped, ShapedSweeps
    <3>4. CASE x = c
      <4>1. At(day'.cells, c) = At(snap[s].cells, c)
        BY <3>1, <3>2, <3>4 DEF At, CellRow
      <4> QED BY <2>2, <3>1, <3>2, <3>3, <3>4, <4>1
    <3>5. CASE x # c
      <4>1. At(day'.cells, c) = At(day.cells, c)
        BY <3>1, <3>5 DEF At
      <4>2. c \in rows[s] => UNCHANGED <<spc, snap>>
        BY <3>1, <3>5
      <4> QED BY <2>2, <3>2, <3>3, <3>5, <4>1, <4>2
    <3> QED BY <3>4, <3>5
  <2>4. CASE ~SweepCell(s)
    <3>1. day'.cells = day.cells /\ spc[s] # <<"mon", "write">>
      BY <2>4, OnlyWritesWrite
    <3>2. spc'[s] # <<"mon", "write">>
      <4> SUFFICES ASSUME spc'[s] = <<"mon", "write">>, spc'[s][1] = "mon", spc'[s][2] = "write"
                   PROVE  FALSE
        OBVIOUS
      <4>1. SweepRead(s)
        BY <2>4, OnlyWritesWrite
      <4>2. spc[s][1] = "mon"
        BY <4>1, ReadToWrite
      <4> QED BY <1>2, <4>1, <4>2
    <3> QED BY <2>2, <3>1, <3>2
  <2> QED BY <2>3, <2>4
<1> QED BY <1>1, <1>2

LEMMA SweepTotalOwed ==
    ASSUME OneSweep, IInv, CellInv, GensInOrder, TotalOwed, NEW s \in Sweeps, SweepStep(s)
    PROVE  TotalOwed'
<1> SUFFICES ASSUME "rev" \in seeded, ~Owed("rev")', total' = total
             PROVE  \/ spc'[s] = <<"rev", "write">> /\ snap'[s].total = total
                    \/ day'.total = total /\ spc'[s] # <<"rev", "write">>
  <2>1. UNCHANGED <<total, seeded>>
    BY SweepShaped
  <2> QED BY <2>1 DEF TotalOwed, OneSweep
<1>d. "rev" \in Domains
  BY DEF Domains
<1>1. CASE SweepRead(s) /\ spc[s][1] = "rev"
  BY <1>1, ReadTakes
<1>2. CASE ~ (SweepRead(s) /\ spc[s][1] = "rev")
  <2>1. ~Owed("rev")
    BY <1>2, <1>d, SweepOwes
  <2>2. \/ spc[s] = <<"rev", "write">> /\ snap[s].total = total
        \/ day.total = total /\ spc[s] # <<"rev", "write">>
    BY <2>1 DEF TotalOwed, OneSweep
  <2>3. spc'[s] # <<"rev", "write">>
    <3> SUFFICES ASSUME spc'[s] = <<"rev", "write">>, spc'[s][1] = "rev", spc'[s][2] = "write"
                 PROVE  FALSE
      OBVIOUS
    <3>1. CASE SweepRead(s)
      BY <1>2, <3>1, ReadToWrite
    <3>2. CASE SweepCell(s)
      <4>1. spc[s] = <<"mon", "write">> /\ (EndOf(s) \/ UNCHANGED spc)
        BY <3>2, CellWrites
      <4> QED BY <4>1, AfterEnd
    <3> QED BY <3>1, <3>2, OnlyWritesWrite
  <2>4. day'.total = IF SweepTotal(s) THEN snap[s].total ELSE day.total
    BY TotalWrites, OnlyWritesWrite
  <2>5. SweepTotal(s) <=> spc[s] = <<"rev", "write">>
    BY TotalWrites, OnlyWritesWrite
  <2> QED BY <2>2, <2>3, <2>4, <2>5
<1> QED BY <1>1, <1>2

LEMMA SweepMembersOwed ==
    ASSUME OneSweep, IInv, CellInv, GensInOrder, MembersOwed, NEW s \in Sweeps, SweepStep(s)
    PROVE  MembersOwed'
<1> SUFFICES ASSUME "payer" \in seeded, ~Owed("payer")', payers' = payers
             PROVE  \/ spc'[s] = <<"payer", "write">> /\ snap'[s].members = payers
                    \/ day'.members = payers /\ spc'[s] # <<"payer", "write">>
  <2>1. UNCHANGED <<payers, seeded>>
    BY SweepShaped
  <2> QED BY <2>1 DEF MembersOwed, OneSweep
<1>d. "payer" \in Domains
  BY DEF Domains
<1>1. CASE SweepRead(s) /\ spc[s][1] = "payer"
  BY <1>1, ReadTakes
<1>2. CASE ~ (SweepRead(s) /\ spc[s][1] = "payer")
  <2>1. ~Owed("payer")
    BY <1>2, <1>d, SweepOwes
  <2>2. \/ spc[s] = <<"payer", "write">> /\ snap[s].members = payers
        \/ day.members = payers /\ spc[s] # <<"payer", "write">>
    BY <2>1 DEF MembersOwed, OneSweep
  <2>3. spc'[s] # <<"payer", "write">>
    <3> SUFFICES ASSUME spc'[s] = <<"payer", "write">>, spc'[s][1] = "payer",
                        spc'[s][2] = "write"
                 PROVE  FALSE
      OBVIOUS
    <3>1. CASE SweepRead(s)
      BY <1>2, <3>1, ReadToWrite
    <3>2. CASE SweepCell(s)
      <4>1. spc[s] = <<"mon", "write">> /\ (EndOf(s) \/ UNCHANGED spc)
        BY <3>2, CellWrites
      <4> QED BY <4>1, AfterEnd
    <3> QED BY <3>1, <3>2, OnlyWritesWrite
  <2>4. day'.members = IF SweepMembers(s) THEN day.members \cup snap[s].members ELSE day.members
    BY MembersWrite, OnlyWritesWrite
  <2>5. SweepMembers(s) <=> spc[s] = <<"payer", "write">>
    BY MembersWrite, OnlyWritesWrite
  <2>6. day.members \subseteq payers
    BY DEF CellInv, DaysKnown, DayKnown
  <2> QED BY <2>2, <2>3, <2>4, <2>5, <2>6
<1> QED BY <1>1, <1>2

LEMMA InitFlush == Init => FlushInv
<1> SUFFICES ASSUME Init PROVE FlushInv
  OBVIOUS
<1>1. \A r \in Records : pc[r] \in {"absent", "queued"}
  BY DEF Init
<1>2. NothingFlushed
  BY <1>1 DEF Init, NothingFlushed, Reading, Marking, Idle
<1>3. GensInOrder /\ RowsRead
  BY DEF Init, GensInOrder, RowsRead, Idle
<1>4. CellsOwed /\ TotalOwed /\ MembersOwed
  BY DEF Init, CellsOwed, TotalOwed, MembersOwed
<1> QED BY <1>2, <1>3, <1>4 DEF FlushInv, Init

LEMMA NextFlush ==
    ASSUME OneSweep, FloorCovers, IInv, CellInv, FlushInv, [Next]_vars
    PROVE  FlushInv'
<1>1. NothingFlushed' /\ GensInOrder' /\ RowsRead'
  BY NothingFlushedStays, NextGens, RowsReadStays DEF FlushInv, FloorCovers
<1>2. failures' \in Nat /\ (failures' = failures \/ failures' = failures + 1)
  <2>1. ASSUME NEW r \in Records, RecordStep(r) PROVE failures' = failures
    BY <2>1 DEF RecordStep, CheckClaimed, PreRead, Commit, Arrive, Join, StageCompanion,
         ReadFloor, CheckSeeded, SeedHash, ReadContext, Resolve, Rollup, StageServer, Move,
         Restage, Mark, history
  <2>2. ASSUME NEW s \in Sweeps, SweepStep(s) PROVE failures' = failures
    BY <2>2 DEF SweepStep, SweepDrain, SweepRead, SweepCell, SweepTotal, SweepMembers, history
  <2>3. ASSUME (\E a \in Attempts : Expire(a)) \/ Seal \/ UNCHANGED vars
            PROVE failures' = failures
    BY <2>3 DEF Expire, Seal, vars, history
  <2>4. ASSUME \/ Crash
               \/ \E r \in Records : RecordFail(r)
               \/ \E s \in Sweeps : SweepFail(s)
        PROVE  failures' = failures + 1
    BY <2>4 DEF Crash, RecordFail, SweepFail
  <2> QED BY <2>1, <2>2, <2>3, <2>4 DEF Next, FlushInv
<1>3. ASSUME failures' = 0 PROVE Compared'
  <2>1. failures = 0 /\ ~Crash /\ (\A r \in Records : ~RecordFail(r))
            /\ \A s \in Sweeps : ~SweepFail(s)
    BY <1>2, <1>3 DEF FlushInv, Crash, RecordFail, SweepFail
  <2>2. Compared
    BY <2>1 DEF FlushInv, Compared
  <2>3. ASSUME NEW r \in Records, RecordStep(r) PROVE Compared'
    BY <2>2, <2>3, RecordCompared DEF FlushInv
  <2>4. ASSUME NEW s \in Sweeps, SweepStep(s) PROVE Compared'
    BY <2>2, <2>4, SweepCellsOwed, SweepTotalOwed, SweepMembersOwed DEF FlushInv, Compared
  <2>5. ASSUME (\E a \in Attempts : Expire(a)) \/ Seal \/ UNCHANGED vars PROVE Compared'
    <3>1. UNCHANGED <<day, spc, snap, rows, pc, dirty, cells, total, payers, seeded>>
      BY <2>5 DEF Expire, Seal, vars, hotDay, handlers, sweepers
    <3>2. \A d \in Domains : Owed(d) => Owed(d)'
      BY <3>1 DEF Owed
    <3> QED BY <2>2, <3>1, <3>2, ComparedStays DEF FlushInv
  <2> QED BY <2>1, <2>3, <2>4, <2>5, <2>2 DEF Next
<1> QED BY <1>1, <1>2, <1>3 DEF FlushInv, Compared

\* With nothing under way and nothing owed, Postgres holds what is accounted for.
LEMMA FlushedIsAccounted ==
    ASSUME IInv, CellInv, FlushInv
    PROVE  Converged
<1> SUFFICES ASSUME failures = 0, Quiet
             PROVE  /\ \A c \in Cells : At(day.cells, c) = Accounted(c)
                    /\ day.total = Stored.total + Worth(RolledUp)
                    /\ day.members = Stored.members \cup {UserOf[t] : t \in RolledUp}
  BY DEF Converged
<1>1. ASSUME NEW d \in Domains PROVE ~Owed(d)
  <2>1. \A r \in Records : pc[r] \notin Unmarked[d]
    BY OwedFacts DEF Quiet
  <2>2. \A s \in Sweeps : spc[s] # <<d, "read">>
    BY DEF Quiet, Idle
  <2> QED BY <2>1, <2>2 DEF Owed, Quiet
<1>2. ~Owed("mon") /\ ~Owed("rev") /\ ~Owed("payer")
  BY <1>1 DEF Domains
<1>3. \A s \in Sweeps : spc[s][2] = "drain"
  BY DEF Quiet, Idle
<1>4. CASE Hashes \subseteq seeded
  <2>1. "mon" \in seeded /\ "rev" \in seeded /\ "payer" \in seeded
    BY <1>4 DEF Hashes
  <2>2. /\ \A c \in Cells : At(day.cells, c) = At(cells, c)
        /\ day.total = total /\ day.members = payers
    BY <1>2, <1>3, <2>1 DEF FlushInv, CellsOwed, TotalOwed, MembersOwed
  <2> QED BY <2>1, <2>2 DEF CellInv, Tables, CellsHoldEachPurchaseOnce
<1>5. CASE ~ (Hashes \subseteq seeded)
  <2>1. day = Stored
    BY <1>5 DEF FlushInv, NothingFlushed
  <2>2. RolledUp = {} /\ \A c \in Cells : Accounted(c) = At(Stored.cells, c)
    BY <1>5, NothingYet
  <2>3. Worth({}) = 0 /\ Stored.total \in Int
    BY WorthEmpty, StoredFacts
  <2> QED BY <2>1, <2>2, <2>3
<1> QED BY <1>4, <1>5

\* When nothing failed and nothing is under way, Postgres holds the floor and every
\* purchase since, each in its last cell, however handlers interleave with a sweep
\* (flush-merge of monetization_cell and payer_day, metaFloor).
THEOREM FlushConverges ==
    ASSUME OneContext, OneSweep, FloorCovers
    PROVE  Spec => []Converged
<1>1. IInv /\ CellInv /\ [Next]_vars => CellInv'
  BY NextCells
<1>2. IInv /\ CellInv /\ FlushInv /\ [Next]_vars => FlushInv'
  BY NextFlush
<1>3. IInv /\ CellInv /\ FlushInv => Converged
  BY FlushedIsAccounted
<1> QED BY <1>1, <1>2, <1>3, Invariant, InitCells, InitFlush, PTL DEF Spec

-----------------------------------------------------------------------------
(* The companion that comes late.  Its purchase takes its value when it    *)
(* has moved, and nobody touches that again: another delivery is stopped   *)
(* by the window, another companion of the attempt there is none, and the  *)
(* row was rolled up before it was staged.                                 *)

\* Server rows of one attempt are deliveries of one transaction.
OnePurchase ==
    \A q, w \in Servers :
      AttemptOf[q] # None /\ AttemptOf[q] = AttemptOf[w] => TxOf[q] = TxOf[w]

\* The row that is known under an attempt is of that attempt.
RowOf(t, a) == \E w \in Servers : AttemptOf[w] = a /\ TxOf[w] = t

RowsOfAttempts ==
    /\ \A a \in Attempts : stage[a].srv # None => RowOf(stage[a].srv.tx, a)
    /\ \A r \in Companions : pc[r] \in Carrying => RowOf(held[r].tx, AttemptOf[r])

\* A companion resolves and moves with the value it came with.
OwnValue ==
    \A r \in Companions :
      /\ pc[r] = "resolve" => value[r] = ValueOf[r]
      /\ pc[r] = "move" /\ ValueOf[r] # None => value[r] \in {ValueOf[r], "other"}

\* While nothing fails, the window knows the events of those that have come.
WindowKnows ==
    \A e \in dedup : \E q \in Companions : EventOf[q] = e /\ pc[q] \notin {"absent", "queued"}

LateStaged == \A r \in late : r \in Companions /\ stage[AttemptOf[r]].srv # None

Moved == {"restage", "mark mon", "mark rev", "mark payer", "done"}

\* Every row of the attempt that was rolled up is in a cell of the companion.
Enriched(r) ==
    \A w \in Servers : AttemptOf[w] = AttemptOf[r] /\ counted[TxOf[w]] > 0
                         => place[TxOf[w]][2] \in {ValueOf[r], "other"}

\* The companion got through the window alone, and goes on to the move.
AheadAt(r) ==
    /\ EventOf[r] \in dedup
    /\ \A q \in Companions \ {r} : EventOf[q] = EventOf[r] => pc[q] \in {"absent", "queued",
           "done"}
    /\ pc[r] \in {"join"} \cup Carrying \cup Moved
    /\ pc[r] \in Moved /\ ValueOf[r] # None => Enriched(r)

LateAhead == \A r \in late : AheadAt(r)

LateInv ==
    /\ RowsOfAttempts /\ OwnValue /\ LateStaged /\ failures \in Nat
    /\ failures = 0 => WindowKnows
    /\ failures = 0 /\ ~sealed => LateAhead

\* Where a step of a handler takes it, and what it takes along.
LEMMA StepsOn ==
    ASSUME IInv, NEW x \in Records, RecordStep(x)
    PROVE  /\ \A q \in Records \ {x} : pc'[q] = pc[q]
           /\ pc'[x] \notin {"absent", "queued"}
<1>1. PICK p : pc' = [pc EXCEPT ![x] = p] /\ p \notin {"absent", "queued"}
  <2>1. CASE Mark(x)
    <3>1. pc' = [pc EXCEPT ![x] = Marking[pc[x]].next] /\ pc[x] \in DOMAIN Marking
      BY <2>1 DEF Mark
    <3>2. Marking[pc[x]].next \in {"mark rev", "mark payer", "done"}
      BY <3>1 DEF Marking
    <3> QED BY <3>1, <3>2
  <2>2. CASE CheckClaimed(x) \/ PreRead(x) \/ Commit(x) \/ Arrive(x) \/ Join(x)
             \/ StageCompanion(x)
    BY <2>2 DEF CheckClaimed, PreRead, Commit, Arrive, Join, StageCompanion
  <2>3. CASE ReadFloor(x) \/ CheckSeeded(x) \/ SeedHash(x) \/ ReadContext(x) \/ Resolve(x)
    <3>1. \E p \in {"check", "seed", "floors", "context", "resolve", "rollup", "move"} :
            pc' = [pc EXCEPT ![x] = p]
      BY <2>3 DEF ReadFloor, CheckSeeded, SeedHash, NextHash, ReadContext, Resolve
    <3> QED BY <3>1
  <2>4. CASE Rollup(x) \/ StageServer(x) \/ Move(x) \/ Restage(x)
    <3>1. \E p \in {"mark mon", "stage", "done", "restage"} : pc' = [pc EXCEPT ![x] = p]
      BY <2>4, Zenon DEF Rollup, StageServer, Move, Restage
    <3> QED BY <3>1
  <2> QED BY <2>1, <2>2, <2>3, <2>4 DEF RecordStep
<1> QED BY <1>1 DEF IInv, Typed

\* What a handler does to the stage: it never takes a row away, and the row it
\* puts there is of the attempt.
LEMMA StageKeeps ==
    ASSUME IInv, CellInv, NEW x \in Records, RecordStep(x), NEW a \in Attempts
    PROVE  /\ stage[a].srv # None => stage'[a].srv # None
           /\ stage'[a].srv # None =>
                \/ stage[a].srv # None /\ stage'[a].srv.tx = stage[a].srv.tx
                \/ RowOf(stage'[a].srv.tx, a)
<1>0. stage \in [Attempts -> [srv : Staged \cup {None}, cmp : Values \cup {None}]]
  BY DEF CellInv, Shaped, ShapedStores
<1>n. None \notin Staged
  BY ConstantsAssumption
<1>1. CASE StageServer(x)
  <2> DEFINE e == [tx |-> TxOf[x], cell |-> <<tier[x], value[x]>>, rev |-> Normalized(TxOf[x])]
  <2>1. x \in Servers /\ AttemptOf[x] \in Attempts
    BY <1>1 DEF StageServer, CellInv, Shaped, Ready
  <2>2. stage'[a].srv = IF a = AttemptOf[x] THEN e ELSE stage[a].srv
    BY <1>0, <1>1 DEF StageServer
  <2>3. e \in Staged
    <3>1. TxOf[x] \in Transactions
      BY <2>1, ServerFacts
    <3>2. tier[x] \in Tiers /\ value[x] \in ClientValues
      BY <1>1 DEF StageServer, IInv, Typed, CellInv, Shaped, Ready
    <3> QED BY <3>1, <3>2, NormalizedType DEF Staged, Cells
  <2>4. e.tx = TxOf[x]
    OBVIOUS
  <2> HIDE DEF e
  <2>5. CASE a = AttemptOf[x]
    BY <1>n, <2>1, <2>2, <2>3, <2>4, <2>5 DEF RowOf
  <2>6. CASE a # AttemptOf[x]
    BY <2>2, <2>6
  <2> QED BY <2>5, <2>6
<1>2. CASE Restage(x)
  <2> DEFINE b == AttemptOf[x]
  <2>1. x \in Companions /\ b \in Attempts
    BY <1>2, CompanionFacts DEF Restage, CellInv, Shaped, Ready, Servers
  <2>2. stage' = IF stage[b].srv = None THEN stage
                 ELSE [stage EXCEPT ![b].srv.cell = <<@[1], value[x]>>]
    BY <1>2, Zenon DEF Restage
  <2>3. CASE stage[b].srv = None
    BY <2>2, <2>3
  <2>4. CASE stage[b].srv # None
    <3>1. stage[b].srv \in Staged
      BY <1>0, <2>1, <2>4
    <3> DEFINE e == [stage[b].srv EXCEPT !.cell = <<@[1], value[x]>>]
    <3>2. stage' = [stage EXCEPT ![b].srv = e]
      BY <2>2, <2>4
    <3>3. e = [tx |-> stage[b].srv.tx, cell |-> <<stage[b].srv.cell[1], value[x]>>,
               rev |-> stage[b].srv.rev]
      BY <3>1 DEF Staged
    <3>4. e \in Staged
      <4>1. stage[b].srv.cell[1] \in Tiers /\ stage[b].srv.tx \in Transactions
            /\ stage[b].srv.rev \in Nat
        BY <3>1 DEF Staged, Cells
      <4>2. value[x] \in ClientValues
        BY <1>2 DEF Restage, CellInv, Shaped, Ready
      <4> QED BY <3>3, <4>1, <4>2 DEF Staged, Cells
    <3>5. e.tx = stage[b].srv.tx
      BY <3>3
    <3> HIDE DEF e
    <3>6. stage'[a].srv = IF a = b THEN e ELSE stage[a].srv
      BY <1>0, <2>1, <3>2
    <3> QED BY <1>n, <2>4, <3>4, <3>5, <3>6
  <2> QED BY <2>3, <2>4
<1>3. CASE StageCompanion(x)
  BY <1>0, <1>3 DEF StageCompanion
<1>4. CASE ~StageServer(x) /\ ~Restage(x) /\ ~StageCompanion(x)
  <2>1. UNCHANGED stage
    BY <1>4 DEF RecordStep, CheckClaimed, PreRead, Commit, Arrive, Join, ReadFloor, CheckSeeded,
           SeedHash, ReadContext, Resolve, Rollup, Move, Mark
  <2> QED BY <2>1
<1> QED BY <1>1, <1>2, <1>3, <1>4

\* What a companion carries it has read in the stage, or carried before.
LEMMA HeldKeeps ==
    ASSUME IInv, CellInv, NEW x \in Records, RecordStep(x), NEW q \in Companions,
           pc'[q] \in Carrying
    PROVE  \/ pc[q] \in Carrying /\ held'[q] = held[q]
           \/ stage[AttemptOf[q]].srv # None /\ held'[q] = stage[AttemptOf[q]].srv
<1>0. q \in Records /\ q \notin Servers
  BY CompanionFacts
<1>s. held \in [Records -> Staged \cup {None}] /\ pc \in [Records -> Places]
  BY DEF CellInv, Shaped, ShapedHandlers, IInv, Typed
<1>1. CASE Join(x)
  <2>1. held' = [held EXCEPT ![x] = stage[AttemptOf[x]].srv]
    BY <1>1 DEF Join
  <2>2. PICK p \in {"wait", "done", "floors"} :
          pc' = [pc EXCEPT ![x] = p] /\ (p = "floors" => stage[AttemptOf[x]].srv # None)
    BY <1>1 DEF Join
  <2>3. CASE q = x
    BY <1>0, <1>s, <2>1, <2>2, <2>3 DEF Carrying
  <2>4. CASE q # x
    BY <1>0, <1>s, <2>1, <2>2, <2>4
  <2> QED BY <2>3, <2>4
<1>2. CASE Mark(x)
  <2>1. PICK p : pc' = [pc EXCEPT ![x] = p] /\ p \notin Carrying
    BY <1>2, <1>s, MarksAreApart DEF Mark, Busy
  <2>2. q # x
    BY <1>s, <2>1
  <2> QED BY <1>0, <1>2, <1>s, <2>1, <2>2 DEF Mark
<1>3. CASE ~Join(x) /\ ~Mark(x)
  <2>1. UNCHANGED held
    BY <1>3 DEF RecordStep, CheckClaimed, PreRead, Commit, Arrive, StageCompanion, ReadFloor,
           CheckSeeded, SeedHash, ReadContext, Resolve, Rollup, StageServer, Move, Restage
  <2>2. CASE q # x
    BY <1>0, <2>1, <2>2, StepsOn
  <2>3. CASE q = x
    <3>1. ~CheckClaimed(x) /\ ~PreRead(x) /\ ~Commit(x) /\ ~ReadContext(x) /\ ~Rollup(x)
          /\ ~StageServer(x)
      BY <1>0, <2>3 DEF CheckClaimed, PreRead, Commit, ReadContext, Rollup, StageServer, IInv,
             Typed, ServersOnly, CellInv, Shaped, Ready
    <3>2. ~Arrive(x) /\ ~StageCompanion(x) /\ ~Move(x) /\ ~Restage(x)
      BY <1>s, <2>3 DEF Arrive, StageCompanion, Move, Restage, Carrying
    <3>3. ReadFloor(x) \/ CheckSeeded(x) \/ SeedHash(x) \/ Resolve(x)
      BY <1>3, <3>1, <3>2 DEF RecordStep
    <3>4. pc[x] \in Carrying
      BY <3>3 DEF ReadFloor, CheckSeeded, SeedHash, Resolve, Carrying
    <3> QED BY <2>1, <2>3, <3>4
  <2> QED BY <2>2, <2>3
<1> QED BY <1>1, <1>2, <1>3

LEMMA RecordRows ==
    ASSUME IInv, CellInv, RowsOfAttempts, NEW x \in Records, RecordStep(x)
    PROVE  RowsOfAttempts'
<1>1. ASSUME NEW a \in Attempts, stage'[a].srv # None PROVE RowOf(stage'[a].srv.tx, a)
  BY <1>1, StageKeeps DEF RowsOfAttempts
<1>2. ASSUME NEW q \in Companions, pc'[q] \in Carrying PROVE RowOf(held'[q].tx, AttemptOf[q])
  BY <1>2, HeldKeeps, CompanionFacts DEF RowsOfAttempts
<1> QED BY <1>1, <1>2 DEF RowsOfAttempts, RowOf

\* The value a companion is at when it resolves it, and what it makes of it.
LEMMA RecordValues ==
    ASSUME IInv, CellInv, OwnValue, NEW x \in Records, RecordStep(x)
    PROVE  OwnValue'
<1> SUFFICES ASSUME NEW r \in Companions
             PROVE  /\ pc'[r] = "resolve" => value'[r] = ValueOf[r]
                    /\ pc'[r] = "move" /\ ValueOf[r] # None => value'[r] \in {ValueOf[r],
                           "other"}
  BY DEF OwnValue
<1>0. r \in Records /\ r \notin Servers
  BY CompanionFacts
<1>s. value \in [Records -> ClientValues \cup {None}] /\ pc \in [Records -> Places]
  BY DEF CellInv, Shaped, ShapedHandlers, IInv, Typed
<1>v. \A q \in Records \ {x} : value'[q] = value[q]
  <2>1. CASE CheckSeeded(x) \/ SeedHash(x)
    BY <2>1, <1>s DEF CheckSeeded, SeedHash, NextHash
  <2>2. CASE ReadContext(x) \/ Resolve(x) \/ Mark(x)
    BY <2>2, <1>s DEF ReadContext, Resolve, Mark
  <2>3. CASE ~CheckSeeded(x) /\ ~SeedHash(x) /\ ~ReadContext(x) /\ ~Resolve(x) /\ ~Mark(x)
    <3>1. UNCHANGED value
      BY <2>3 DEF RecordStep, CheckClaimed, PreRead, Commit, Arrive, Join, StageCompanion,
             ReadFloor, Rollup, StageServer, Move, Restage
    <3> QED BY <3>1
  <2> QED BY <2>1, <2>2, <2>3
<1>1. CASE x # r
  BY <1>0, <1>1, <1>v, StepsOn DEF OwnValue
<1>2. CASE x = r
  <2>1. CASE CheckSeeded(x) \/ SeedHash(x)
    <3>1. pc'[x] = "resolve" => NextHash(x)
      BY <2>1, <1>s DEF CheckSeeded, SeedHash
    <3>2. pc'[x] = "resolve" => Len(todo[x]) = 1
      BY <3>1, <1>s DEF NextHash
    <3>3. pc'[x] # "move"
      BY <2>1, <1>s DEF CheckSeeded, SeedHash, NextHash
    <3> QED BY <1>2, <1>s, <3>1, <3>2, <3>3 DEF NextHash
  <2>2. CASE Resolve(x)
    <3>1. pc'[x] # "resolve" /\ pc[x] = "resolve" /\ value'[x] = Resolved(x)
      BY <2>2, <1>s DEF Resolve
    <3>2. value[x] = ValueOf[x]
      BY <1>2, <3>1 DEF OwnValue
    <3> QED BY <1>2, <3>1, <3>2 DEF Resolved, Guarded
  <2>3. CASE Mark(x)
    <3>1. pc'[x] \in {"mark rev", "mark payer", "done"}
      BY <2>3, <1>s DEF Mark, Marking
    <3> QED BY <1>2, <3>1
  <2>4. CASE ~CheckSeeded(x) /\ ~SeedHash(x) /\ ~Resolve(x) /\ ~Mark(x)
    <3>1. ~ReadContext(x)
      BY <1>0, <1>2 DEF ReadContext, IInv, Typed, ServersOnly
    <3>2. pc'[x] \notin {"resolve", "move"}
      BY <2>4, <3>1, <1>s DEF RecordStep, CheckClaimed, PreRead, Commit, Arrive, Join,
             StageCompanion, ReadFloor, Rollup, StageServer, Move, Restage
    <3> QED BY <1>2, <3>2
  <2> QED BY <2>1, <2>2, <2>3, <2>4
<1> QED BY <1>1, <1>2

\* The window and the companions that are late change when one arrives.
LEMMA ArrivalsOnly ==
    ASSUME NEW x \in Records, RecordStep(x)
    PROVE  /\ ~Arrive(x) => UNCHANGED <<dedup, late>>
           /\ UNCHANGED <<sealed, failures>>
<1>1. CASE CheckClaimed(x) \/ PreRead(x) \/ Commit(x) \/ Arrive(x) \/ Join(x)
           \/ StageCompanion(x) \/ ReadFloor(x) \/ CheckSeeded(x)
  BY <1>1 DEF CheckClaimed, PreRead, Commit, Arrive, Join, StageCompanion, ReadFloor,
         CheckSeeded, history
<1>2. CASE SeedHash(x) \/ ReadContext(x) \/ Resolve(x) \/ Rollup(x) \/ StageServer(x) \/ Move(x)
           \/ Restage(x) \/ Mark(x)
  BY <1>2 DEF SeedHash, ReadContext, Resolve, Rollup, StageServer, Move, Restage, Mark, history
<1> QED BY <1>1, <1>2 DEF RecordStep

LEMMA RecordWindow ==
    ASSUME OneContext, IInv, WindowKnows, NEW x \in Records, RecordStep(x)
    PROVE  WindowKnows'
<1> SUFFICES ASSUME NEW e \in dedup'
             PROVE  \E q \in Companions : EventOf[q] = e /\ pc'[q] \notin {"absent", "queued"}
  BY DEF WindowKnows
<1>1. ASSUME NEW q \in Companions, pc[q] \notin {"absent", "queued"}
      PROVE  pc'[q] \notin {"absent", "queued"}
  BY <1>1, CompanionFacts, StepsOn
<1>2. CASE e \in dedup
  BY <1>1, <1>2 DEF WindowKnows
<1>3. CASE e \notin dedup
  <2>1. Arrive(x)
    BY <1>3, ArrivalsOnly
  <2>2. x \in Companions /\ e = EventOf[x]
    BY <1>3, <2>1 DEF Arrive
  <2> QED BY <2>2, StepsOn
<1> QED BY <1>2, <1>3

LEMMA RecordLateStaged ==
    ASSUME IInv, CellInv, LateStaged, NEW x \in Records, RecordStep(x)
    PROVE  LateStaged'
<1> SUFFICES ASSUME NEW r \in late'
             PROVE  r \in Companions /\ stage'[AttemptOf[r]].srv # None
  BY DEF LateStaged
<1>1. r \in Companions /\ stage[AttemptOf[r]].srv # None
  <2>1. CASE r \in late
    BY <2>1 DEF LateStaged
  <2>2. CASE r \notin late
    BY <2>2, ArrivalsOnly DEF Arrive, ComesLate
  <2> QED BY <2>1, <2>2
<1>2. AttemptOf[r] \in Attempts
  BY <1>1, CompanionFacts
<1> QED BY <1>1, <1>2, StageKeeps

\* The rows of a late companion's attempt are the one that is staged: it was
\* rolled up, and only this companion may touch it.
LEMMA LateRows ==
    ASSUME OneContext, OnePurchase, CellInv, RowsOfAttempts, LateStaged,
           NEW r \in late, NEW w \in Servers, AttemptOf[w] = AttemptOf[r]
    PROVE  /\ r \in Companions /\ Has(TxOf[w], AttemptOf[r])
           /\ counted[TxOf[w]] > 0
           /\ \A b \in Attempts : Has(TxOf[w], b) => b = AttemptOf[r]
<1> DEFINE a == AttemptOf[r]
           t == TxOf[w]
<1>1. r \in Companions /\ stage[a].srv # None
  BY DEF LateStaged
<1>2. a \in Attempts /\ a # None /\ t \in Transactions
  BY <1>1, ConstantsAssumption, CompanionFacts, ServerFacts
<1>3. PICK q \in Servers : AttemptOf[q] = a /\ TxOf[q] = stage[a].srv.tx
  BY <1>1, <1>2 DEF RowsOfAttempts, RowOf
<1>4. stage[a].srv.tx = t
  BY <1>2, <1>3 DEF OnePurchase
<1>5. Has(t, a)
  BY <1>1, <1>4 DEF Has
<1>6. counted[t] > 0 /\ \A b \in Attempts : Has(t, b) => a = b
  BY <1>2, <1>5 DEF CellInv, Contexts, OneAttempt
<1> QED BY <1>1, <1>5, <1>6

\* Nobody but the companion moves the purchase, and no rollup counts it again.
LEMMA OthersLeaveIt ==
    ASSUME OneContext, OnePurchase, IInv, CellInv, RowsOfAttempts, LateStaged,
           NEW r \in late, AheadAt(r), NEW x \in Records \ {r}, RecordStep(x),
           NEW w \in Servers, AttemptOf[w] = AttemptOf[r]
    PROVE  place'[TxOf[w]] = place[TxOf[w]]
<1> DEFINE t == TxOf[w]
<1>0. t \in Transactions /\ r \in Companions /\ counted[t] > 0
  BY LateRows, ServerFacts
<1>p. place \in [Transactions -> Cells \cup {None}]
  BY DEF CellInv, Shaped, ShapedStores
<1>1. CASE Rollup(x)
  <2>1. x \in Servers /\ counted[TxOf[x]] = 0
    BY <1>1 DEF Rollup, IInv, Typed, ServersOnly, OneWinner, Won
  <2>2. TxOf[x] # t
    BY <1>0, <2>1
  <2> QED BY <1>0, <1>1, <1>p, <2>2 DEF Rollup
<1>2. CASE Move(x)
  <2>1. x \in Companions /\ held[x] \in Staged /\ pc[x] = "move"
    BY <1>2 DEF Move, CellInv, Shaped, Ready, Servers, Carrying
  <2>2. held[x].tx # t
    <3> SUFFICES ASSUME held[x].tx = t PROVE FALSE
      OBVIOUS
    <3>1. Has(t, AttemptOf[x])
      BY <2>1 DEF Has, Carrying
    <3>2. AttemptOf[x] = AttemptOf[r]
      BY <2>1, <3>1, LateRows, CompanionFacts
    <3>3. EventOf[x] = EventOf[r]
      BY <1>0, <2>1, <3>2 DEF OneContext
    <3> QED BY <2>1, <3>3 DEF AheadAt
  <2> QED BY <1>0, <1>2, <1>p, <2>2 DEF Move
<1>3. CASE ~Rollup(x) /\ ~Move(x)
  <2>1. UNCHANGED place
    BY <1>3 DEF RecordStep, CheckClaimed, PreRead, Commit, Arrive, Join, StageCompanion,
        ReadFloor,
           CheckSeeded, SeedHash, ReadContext, Resolve, StageServer, Restage, Mark, history
  <2> QED BY <2>1
<1> QED BY <1>1, <1>2, <1>3

\* Steps of another handler.
LEMMA OthersAhead ==
    ASSUME OneContext, OnePurchase, IInv, CellInv, RowsOfAttempts, LateStaged,
           NEW r \in late, AheadAt(r), NEW x \in Records \ {r}, RecordStep(x)
    PROVE  AheadAt(r)'
<1>0. r \in Companions /\ r \in Records
  BY CompanionFacts DEF LateStaged
<1>1. EventOf[r] \in dedup'
  BY ArrivalsOnly DEF AheadAt, Arrive
<1>2. ASSUME NEW q \in Companions \ {r}, EventOf[q] = EventOf[r]
      PROVE  pc'[q] \in {"absent", "queued", "done"}
  <2>1. CASE q # x
    BY <1>2, <2>1, CompanionFacts, StepsOn DEF AheadAt
  <2>2. CASE q = x
    <3>1. pc[x] \in {"absent", "queued", "done"} /\ x \notin Servers
      BY <1>2, <2>2, CompanionFacts DEF AheadAt
    <3>2. Arrive(x)
      <4>1. ~CheckClaimed(x) /\ ~PreRead(x) /\ ~Commit(x) /\ ~Join(x) /\ ~StageCompanion(x)
            /\ ~ReadFloor(x) /\ ~CheckSeeded(x) /\ ~SeedHash(x)
        BY <3>1 DEF CheckClaimed, PreRead, Commit, Join, StageCompanion, ReadFloor, CheckSeeded,
               SeedHash
      <4>2. ~ReadContext(x) /\ ~Resolve(x) /\ ~Rollup(x) /\ ~StageServer(x) /\ ~Move(x)
            /\ ~Restage(x) /\ ~Mark(x)
        BY <3>1 DEF ReadContext, Resolve, Rollup, StageServer, Move, Restage, Mark, Marking
      <4> QED BY <4>1, <4>2 DEF RecordStep
    <3>3. TxOf[x] = None /\ EventOf[x] \in dedup
      BY <1>2, <2>2 DEF AheadAt, OneContext
    <3>4. pc' = [pc EXCEPT ![x] = "done"]
      BY <3>2, <3>3 DEF Arrive
    <3> QED BY <2>2, <3>4 DEF IInv, Typed
  <2> QED BY <2>1, <2>2
<1>3. pc'[r] = pc[r]
  BY <1>0, StepsOn
<1>4. ASSUME Enriched(r) PROVE Enriched(r)'
  BY <1>4, LateRows, OthersLeaveIt DEF Enriched
<1> QED BY <1>1, <1>2, <1>3, <1>4 DEF AheadAt

\* Its own steps, up to the move.
LEMMA OwnAhead ==
    ASSUME OneContext, OnePurchase, IInv, CellInv, RowsOfAttempts, LateStaged, OwnValue, ~sealed,
           NEW r \in late, AheadAt(r), RecordStep(r)
    PROVE  AheadAt(r)'
<1>0. /\ r \in Companions /\ r \in Records /\ r \notin Servers
      /\ AttemptOf[r] \in Attempts /\ stage[AttemptOf[r]].srv # None
  BY CompanionFacts DEF LateStaged
<1>s. pc \in [Records -> Places] /\ place \in [Transactions -> Cells \cup {None}]
  BY DEF IInv, Typed, CellInv, Shaped, ShapedStores
<1>n. ~CheckClaimed(r) /\ ~PreRead(r) /\ ~Commit(r) /\ ~ReadContext(r) /\ ~Rollup(r)
      /\ ~StageServer(r) /\ ~Arrive(r) /\ ~StageCompanion(r)
  <2>1. pc[r] \in {"join"} \cup Carrying \cup Moved
    BY DEF AheadAt
  <2> QED BY <1>0, <2>1 DEF CheckClaimed, PreRead, Commit, ReadContext, Rollup, StageServer,
          Arrive,
             StageCompanion, Carrying, Moved
<1>1. EventOf[r] \in dedup'
  BY <1>n, <1>0, ArrivalsOnly DEF AheadAt
<1>2. \A q \in Companions \ {r} : EventOf[q] = EventOf[r] => pc'[q] \in {"absent", "queued",
          "done"}
  BY <1>0, CompanionFacts, StepsOn DEF AheadAt
<1>3. CASE Join(r) \/ ReadFloor(r) \/ CheckSeeded(r) \/ SeedHash(r) \/ Resolve(r)
  <2>1. pc'[r] \in Carrying
    BY <1>0, <1>3, <1>s DEF Join, ReadFloor, CheckSeeded, SeedHash, NextHash, Resolve, Carrying
  <2> QED BY <1>1, <1>2, <2>1 DEF AheadAt, Carrying, Moved
<1>4. CASE Move(r)
  <2> DEFINE t == held[r].tx
             from == held[r].cell
             to == <<from[1], value[r]>>
  <2>1. held[r] \in Staged /\ pc[r] = "move" /\ InPlace(held[r])
    BY <1>0, <1>4 DEF Move, CellInv, Shaped, Ready, Contexts, HeldInPlace, Carrying
  <2>2. pc'[r] \in {"done", "restage"}
    BY <1>4, <1>s, <1>0 DEF Move
  <2>3. t \in Transactions /\ from \in Cells /\ place[t] = from
    BY <2>1 DEF Staged, InPlace
  <2>4. place'[t] = to
    BY <1>4, <1>s, <2>3 DEF Move
  <2>5. ASSUME ValueOf[r] # None PROVE Enriched(r)'
    <3>1. value[r] \in {ValueOf[r], "other"}
      BY <1>0, <2>1, <2>5 DEF OwnValue
    <3>2. ASSUME NEW w \in Servers, AttemptOf[w] = AttemptOf[r] PROVE TxOf[w] = t
      <4>1. PICK q \in Servers : AttemptOf[q] = AttemptOf[r] /\ TxOf[q] = t
        BY <1>0, <2>1 DEF RowsOfAttempts, RowOf, Carrying
      <4>2. AttemptOf[r] # None
        BY <1>0, ConstantsAssumption
      <4> QED BY <3>2, <4>1, <4>2 DEF OnePurchase
    <3>3. to[2] = value[r]
      OBVIOUS
    <3> QED BY <2>4, <3>1, <3>2, <3>3 DEF Enriched
  <2> QED BY <1>1, <1>2, <2>2, <2>5 DEF AheadAt, Moved
<1>5. CASE Restage(r) \/ Mark(r)
  <2>1. pc[r] \in Moved /\ pc'[r] \in Moved
    <3>1. CASE Restage(r)
      BY <1>0, <1>s, <3>1 DEF Restage, Moved
    <3>2. CASE Mark(r)
      BY <1>0, <1>s, <3>2 DEF Mark, Marking, Moved
    <3> QED BY <1>5, <3>1, <3>2
  <2>2. UNCHANGED <<place, counted>>
    BY <1>5 DEF Restage, Mark, history
  <2> QED BY <1>1, <1>2, <2>1, <2>2 DEF AheadAt, Enriched
<1> QED BY <1>n, <1>3, <1>4, <1>5 DEF RecordStep

\* The first delivery of an event gets through the window.
LEMMA FirstAhead ==
    ASSUME OneContext, IInv, WindowKnows, NEW r \in Records, Arrive(r), ComesLate(r)
    PROVE  AheadAt(r)'
<1>1. r \in Companions /\ pc[r] = "queued" /\ TxOf[r] = None
  BY DEF Arrive, OneContext
<1>2. EventOf[r] \notin dedup
  <2> SUFFICES ASSUME NEW q \in Companions, EventOf[q] = EventOf[r],
                      pc[q] \notin {"absent", "queued"}
               PROVE  FALSE
    BY DEF WindowKnows
  <2> QED BY <1>1 DEF ComesLate
<1>3. pc' = [pc EXCEPT ![r] = "join"] /\ dedup' = dedup \cup {EventOf[r]}
  BY <1>1, <1>2 DEF Arrive
<1>4. \A q \in Records : pc'[q] = IF q = r THEN "join" ELSE pc[q]
  BY <1>3 DEF IInv, Typed
<1>5. \A q \in Companions \ {r} : EventOf[q] = EventOf[r] => pc'[q] \in {"absent", "queued",
          "done"}
  BY <1>4, CompanionFacts DEF ComesLate
<1>6. "join" \notin Moved
  BY DEF Moved
<1> QED BY <1>3, <1>4, <1>5, <1>6 DEF AheadAt

LEMMA RecordAhead ==
    ASSUME OneContext, OnePurchase, IInv, CellInv, RowsOfAttempts, LateStaged, OwnValue,
           WindowKnows, LateAhead, ~sealed, NEW x \in Records, RecordStep(x)
    PROVE  LateAhead'
<1> SUFFICES ASSUME NEW r \in late' PROVE AheadAt(r)'
  BY DEF LateAhead
<1>1. CASE r \in late
  <2>1. AheadAt(r)
    BY <1>1 DEF LateAhead
  <2>2. CASE x = r
    BY <1>1, <2>1, <2>2, OwnAhead
  <2>3. CASE x # r
    BY <1>1, <2>1, <2>3, OthersAhead
  <2> QED BY <2>2, <2>3
<1>2. CASE r \notin late
  <2>1. Arrive(x)
    BY <1>2, ArrivalsOnly
  <2>2. r = x /\ ComesLate(x)
    BY <1>2, <2>1 DEF Arrive
  <2> QED BY <2>1, <2>2, FirstAhead
<1> QED BY <1>1, <1>2

\* What the invariant speaks of, when no handler steps and no companion comes.
LEMMA LateStays ==
    ASSUME LateInv, UNCHANGED <<dedup, pc, held, value, counted, place, failures>>,
           sealed => sealed', late' \subseteq late,
           \A a \in Attempts : stage'[a].srv # None => stage'[a] = stage[a],
           \A r \in late' : stage'[AttemptOf[r]] = stage[AttemptOf[r]]
    PROVE  LateInv'
<1>1. RowsOfAttempts' /\ OwnValue' /\ (WindowKnows => WindowKnows')
  BY DEF LateInv, RowsOfAttempts, RowOf, OwnValue, WindowKnows
<1>2. LateStaged'
  BY DEF LateInv, LateStaged
<1>3. LateAhead => LateAhead'
  BY DEF LateAhead, AheadAt, Enriched
<1> QED BY <1>1, <1>2, <1>3 DEF LateInv

\* After a failure little is left to say.
LEMMA LateFails ==
    ASSUME LateInv, failures' = failures + 1,
           UNCHANGED <<stage, held, value, late>>,
           \A r \in Companions : pc'[r] \in Carrying => pc'[r] = pc[r]
    PROVE  LateInv'
<1>1. failures' \in Nat /\ failures' # 0
  BY DEF LateInv
<1>2. RowsOfAttempts'
  BY DEF LateInv, RowsOfAttempts, RowOf
<1>3. OwnValue'
  BY DEF LateInv, OwnValue, Carrying
<1>4. LateStaged'
  BY DEF LateInv, LateStaged
<1> QED BY <1>1, <1>2, <1>3, <1>4 DEF LateInv

LEMMA InitLate == Init => LateInv
<1> SUFFICES ASSUME Init PROVE LateInv
  OBVIOUS
<1>1. \A r \in Companions : pc[r] \in {"queued", "absent"}
  BY CompanionFacts DEF Init
<1>2. RowsOfAttempts /\ OwnValue
  BY <1>1 DEF Init, RowsOfAttempts, OwnValue, NoStage, Carrying
<1>3. LateStaged /\ WindowKnows /\ LateAhead /\ failures \in Nat
  BY DEF Init, LateStaged, WindowKnows, LateAhead
<1> QED BY <1>2, <1>3 DEF LateInv

LEMMA RecordLate ==
    ASSUME OneContext, OnePurchase, IInv, CellInv, LateInv, NEW x \in Records, RecordStep(x)
    PROVE  LateInv'
<1>1. UNCHANGED <<sealed, failures>>
  BY ArrivalsOnly
<1>2. RowsOfAttempts' /\ OwnValue' /\ LateStaged'
  BY RecordRows, RecordValues, RecordLateStaged DEF LateInv
<1>3. failures = 0 => WindowKnows'
  BY RecordWindow DEF LateInv
<1>4. failures = 0 /\ ~sealed => LateAhead'
  BY RecordAhead DEF LateInv
<1> QED BY <1>1, <1>2, <1>3, <1>4 DEF LateInv

LEMMA NextLate ==
    OneContext /\ OnePurchase /\ IInv /\ CellInv /\ LateInv /\ [Next]_vars => LateInv'
<1> SUFFICES ASSUME OneContext, OnePurchase, IInv, CellInv, LateInv, [Next]_vars
             PROVE  LateInv'
  OBVIOUS
<1>p. pc \in [Records -> Places]
  BY DEF IInv, Typed
<1>1. ASSUME NEW x \in Records, RecordStep(x) PROVE LateInv'
  BY <1>1, RecordLate
<1>2. ASSUME NEW x \in Records, RecordFail(x) PROVE LateInv'
  <2>1. \A r \in Companions : pc'[r] \in Carrying => pc'[r] = pc[r]
    BY <1>2, <1>p, CompanionFacts DEF RecordFail, Carrying
  <2>2. failures' = failures + 1 /\ UNCHANGED <<stage, held, value, late>>
    BY <1>2 DEF RecordFail
  <2> QED BY <2>1, <2>2, LateFails
<1>3. ASSUME NEW s \in Sweeps, SweepStep(s) PROVE LateInv'
  <2>1. UNCHANGED <<stage, sealed, late, dedup, pc, held, value, counted, place, failures>>
    BY <1>3 DEF SweepStep, SweepDrain, SweepRead, SweepCell, SweepTotal, SweepMembers, history,
           handlers
  <2> QED BY <2>1, LateStays
<1>4. ASSUME NEW s \in Sweeps, SweepFail(s) PROVE LateInv'
  <2>1. failures' = failures + 1 /\ UNCHANGED <<stage, pc, held, value, late>>
    BY <1>4 DEF SweepFail, handlers
  <2> QED BY <2>1, LateFails
<1>5. ASSUME NEW a \in Attempts, Expire(a) PROVE LateInv'
  <2>1. /\ stage' = [stage EXCEPT ![a] = NoStage] /\ late' = {r \in late : AttemptOf[r] # a}
        /\ UNCHANGED <<sealed, dedup, pc, held, value, counted, place, failures>>
    BY <1>5 DEF Expire, handlers
  <2>2. \A b \in Attempts : stage'[b] = IF b = a THEN NoStage ELSE stage[b]
    BY <2>1 DEF CellInv, Shaped, ShapedStores
  <2>3. \A r \in late' : AttemptOf[r] \in Attempts /\ AttemptOf[r] # a
    BY <2>1, CompanionFacts DEF LateInv, LateStaged
  <2> QED BY <2>1, <2>2, <2>3, LateStays DEF NoStage
<1>6. CASE Seal
  <2>1. /\ sealed' = TRUE
        /\ UNCHANGED <<stage, late, dedup, pc, held, value, counted, place, failures>>
    BY <1>6 DEF Seal, history, handlers
  <2> QED BY <2>1, LateStays
<1>7. CASE Crash
  <2>1. failures' = failures + 1 /\ UNCHANGED <<stage, held, value, late>>
    BY <1>7 DEF Crash
  <2>2. \A r \in Companions : pc'[r] \in Carrying => pc'[r] = pc[r]
    BY <1>7, CompanionFacts DEF Crash, Carrying
  <2> QED BY <2>1, <2>2, LateFails
<1>8. CASE UNCHANGED vars
  <2>1. UNCHANGED <<stage, sealed, late, dedup, pc, held, value, counted, place, failures>>
    BY <1>8 DEF vars, history, handlers
  <2> QED BY <2>1, LateStays
<1> QED BY <1>1, <1>2, <1>3, <1>4, <1>5, <1>6, <1>7, <1>8 DEF Next

\* A companion that comes when its row is counted and staged gives the purchase
\* its value: LateCompanionEnriches.
THEOREM LateEnriches ==
    ASSUME OneContext, OnePurchase
    PROVE  Spec => []LateCompanionEnriches
<1>1. LateInv => LateCompanionEnriches
  <2> SUFFICES ASSUME LateInv, failures = 0, ~sealed, NEW r \in late, ValueOf[r] # None,
                      \A q \in Companions : EventOf[q] = EventOf[r] => pc[q] \in {"absent",
                          "done"},
                      NEW q \in Servers, counted[TxOf[q]] > 0, AttemptOf[q] = AttemptOf[r]
               PROVE  place[TxOf[q]][2] \in {ValueOf[r], "other"}
    BY DEF LateCompanionEnriches, RolledUp
  <2>1. AheadAt(r) /\ r \in Companions
    BY DEF LateInv, LateAhead, LateStaged
  <2>2. pc[r] = "done"
    BY <2>1 DEF AheadAt, Carrying, Moved
  <2> QED BY <2>1, <2>2 DEF AheadAt, Moved, Enriched
<1>2. IInv /\ CellInv /\ [Next]_vars => CellInv'
  BY NextCells
<1>3. IInv /\ CellInv /\ LateInv /\ [Next]_vars => LateInv'
  BY NextLate
<1> QED BY <1>1, <1>2, <1>3, Invariant, InitCells, InitLate, PTL DEF Spec

-----------------------------------------------------------------------------
(* Sums of any terms, as the sizes of sets of units.                       *)

UnitsOf(w, S) == UNION {{x} \X (1 .. w[x]) : x \in S}
SumOf(w, S) == Cardinality(UnitsOf(w, S))

\* What holds of the empty set and of one element more holds of a finite set: a
\* smallest subset of which it does not hold does not exist.
LEMMA OneByOne ==
    ASSUME NEW S, IsFiniteSet(S), NEW Good, {} \in Good,
           \A T \in SUBSET S : \A x \in S \ T : T \in Good => T \cup {x} \in Good
    PROVE  S \in Good
<1> DEFINE Bad == {T \in SUBSET S : T \notin Good}
<1>1. ASSUME Bad # {} PROVE FALSE
  <2>1. Bad \subseteq FiniteSubsetsOf(S)
    BY FS_Subset DEF FiniteSubsetsOf
  <2>2. PICK T \in Bad : \A U \in Bad : <<U, T>> \notin StrictSubsetOrdering(S)
    <3> HIDE DEF Bad
    <3> QED BY <1>1, <2>1, WFMin, FS_StrictSubsetOrderingWellFounded, Zenon
  <2>3. PICK x : x \in T
    BY <2>2
  <2>4. <<T \ {x}, T>> \in StrictSubsetOrdering(S)
    BY <2>3 DEF StrictSubsetOrdering
  <2>5. T \ {x} \in Good /\ T \ {x} \in SUBSET S
    BY <2>2, <2>4
  <2>6. (T \ {x}) \cup {x} = T /\ x \in S \ (T \ {x})
    BY <2>3
  <2>7. PICK R : R = T \ {x}
    OBVIOUS
  <2>8. R \cup {x} \in Good
    BY <2>5, <2>6, <2>7
  <2> QED BY <2>2, <2>6, <2>7, <2>8
<1> QED BY <1>1

LEMMA SumType ==
    ASSUME NEW S, IsFiniteSet(S), NEW w, \A x \in S : w[x] \in Nat
    PROVE  IsFiniteSet(UnitsOf(w, S)) /\ SumOf(w, S) \in Nat
<1> DEFINE Part == {{x} \X (1 .. w[x]) : x \in S}
           f == [x \in S |-> {x} \X (1 .. w[x])]
<1>1. f \in Surjection(S, Part)
  BY DEF Surjection
<1>2. IsFiniteSet(Part)
  BY <1>1, FS_Surjection
<1>3. ASSUME NEW p \in Part PROVE IsFiniteSet(p)
  <2>1. PICK x \in S : p = {x} \X (1 .. w[x])
    OBVIOUS
  <2>2. PICK n \in Nat : n = w[x]
    OBVIOUS
  <2>3. IsFiniteSet(1 .. n)
    BY FS_Interval
  <2>4. IsFiniteSet({x} \X (1 .. n))
    BY <2>3, FS_Singleton, FS_Product
  <2> QED BY <2>1, <2>2, <2>4
<1>4. IsFiniteSet(UNION Part)
  BY <1>2, <1>3, FS_UNION
<1> QED BY <1>4, FS_CardinalityType DEF UnitsOf, SumOf

LEMMA SumEmpty == \A w : SumOf(w, {}) = 0
BY FS_EmptySet DEF UnitsOf, SumOf

\* Terms that are the same on a set, and the parts of a set.
LEMMA SumSame ==
    ASSUME NEW S, NEW w, NEW v, \A x \in S : w[x] = v[x]
    PROVE  SumOf(w, S) = SumOf(v, S)
<1>1. UnitsOf(w, S) = UnitsOf(v, S)
  BY DEF UnitsOf
<1> QED BY <1>1 DEF SumOf

LEMMA SumUnion ==
    ASSUME NEW S, NEW T, IsFiniteSet(S), IsFiniteSet(T), S \cap T = {},
           NEW w, \A x \in S \cup T : w[x] \in Nat
    PROVE  SumOf(w, S \cup T) = SumOf(w, S) + SumOf(w, T)
<1>1. UnitsOf(w, S \cup T) = UnitsOf(w, S) \cup UnitsOf(w, T)
  BY DEF UnitsOf
<1>2. UnitsOf(w, S) \cap UnitsOf(w, T) = {}
  BY DEF UnitsOf
<1>3. /\ IsFiniteSet(UnitsOf(w, S)) /\ SumOf(w, S) \in Nat
      /\ IsFiniteSet(UnitsOf(w, T)) /\ SumOf(w, T) \in Nat
  BY SumType
<1>4. Cardinality(UnitsOf(w, S) \cup UnitsOf(w, T)) = SumOf(w, S) + SumOf(w, T) - Cardinality({})
  BY <1>2, <1>3, FS_Union DEF SumOf
<1>5. Cardinality({}) = 0
  BY FS_EmptySet
<1>6. SumOf(w, S \cup T) = Cardinality(UnitsOf(w, S) \cup UnitsOf(w, T))
  BY <1>1 DEF SumOf
<1> QED BY <1>3, <1>4, <1>5, <1>6

LEMMA SumOne ==
    ASSUME NEW w, NEW x, w[x] \in Nat
    PROVE  SumOf(w, {x}) = w[x]
<1>1. PICK n \in Nat : n = w[x]
  OBVIOUS
<1>2. UnitsOf(w, {x}) = {x} \X (1 .. n)
  BY <1>1 DEF UnitsOf
<1>3. IsFiniteSet({x}) /\ Cardinality({x}) = 1
  BY FS_Singleton
<1>4. IsFiniteSet(1 .. n) /\ Cardinality(1 .. n) = n
  BY FS_Interval
<1>5. Cardinality({x} \X (1 .. n)) = 1 * n
  BY <1>3, <1>4, FS_Product, ZenonT(60)
<1>6. SumOf(w, {x}) = 1 * n
  BY <1>2, <1>5 DEF SumOf
<1> QED BY <1>1, <1>6

LEMMA SumAdds ==
    ASSUME NEW S, IsFiniteSet(S), NEW w, NEW x, x \notin S, \A y \in S \cup {x} : w[y] \in Nat
    PROVE  SumOf(w, S \cup {x}) = SumOf(w, S) + w[x]
<1>1. IsFiniteSet({x}) /\ S \cap {x} = {} /\ w[x] \in Nat
  BY FS_Singleton
<1>2. SumOf(w, S \cup {x}) = SumOf(w, S) + SumOf(w, {x})
  BY <1>1, SumUnion
<1> QED BY <1>1, <1>2, SumOne

\* Terms that are 0 add nothing.
LEMMA SumZero ==
    ASSUME NEW S, NEW w, \A x \in S : w[x] = 0
    PROVE  SumOf(w, S) = 0
<1>1. \A x \in S : {x} \X (1 .. w[x]) = {}
  OBVIOUS
<1>2. UnitsOf(w, S) = {}
  BY <1>1 DEF UnitsOf
<1> QED BY <1>2, FS_EmptySet DEF SumOf

LEMMA SumDrops ==
    ASSUME NEW S, IsFiniteSet(S), NEW T \in SUBSET S, NEW w, \A x \in S : w[x] \in Nat,
           \A x \in S \ T : w[x] = 0
    PROVE  SumOf(w, S) = SumOf(w, T)
<1>1. IsFiniteSet(T) /\ IsFiniteSet(S \ T) /\ T \cap (S \ T) = {} /\ T \cup (S \ T) = S
  BY FS_Subset
<1>2. SumOf(w, S \ T) = 0
  BY SumZero
<1>3. PICK R : R = S \ T
  OBVIOUS
<1>4. SumOf(w, T \cup R) = SumOf(w, T) + SumOf(w, R)
  BY <1>1, <1>3, SumUnion
<1>5. SumOf(w, T) \in Nat
  BY <1>1, SumType
<1>6. SumOf(w, S) = SumOf(w, T) + 0
  BY <1>1, <1>2, <1>3, <1>4
<1> QED BY <1>5, <1>6

\* Term by term.
LEMMA SumPlus ==
    ASSUME NEW S, IsFiniteSet(S), NEW w, NEW a, NEW b,
           \A x \in S : a[x] \in Nat /\ b[x] \in Nat /\ w[x] = a[x] + b[x]
    PROVE  SumOf(w, S) = SumOf(a, S) + SumOf(b, S)
<1> DEFINE Good == {T \in SUBSET S : SumOf(w, T) = SumOf(a, T) + SumOf(b, T)}
<1>1. {} \in Good
  BY SumEmpty
<1>2. ASSUME NEW T \in SUBSET S, NEW x \in S \ T, T \in Good PROVE T \cup {x} \in Good
  <2>1. IsFiniteSet(T)
    BY FS_Subset
  <2>2. \A y \in T \cup {x} : w[y] \in Nat /\ a[y] \in Nat /\ b[y] \in Nat
    OBVIOUS
  <2>3. /\ SumOf(w, T \cup {x}) = SumOf(w, T) + w[x]
        /\ SumOf(a, T \cup {x}) = SumOf(a, T) + a[x]
        /\ SumOf(b, T \cup {x}) = SumOf(b, T) + b[x]
    <3>1. SumOf(w, T \cup {x}) = SumOf(w, T) + w[x]
      <4>1. x \notin T /\ \A y \in T \cup {x} : w[y] \in Nat
        BY <2>2
      <4> HIDE DEF Good
      <4> QED BY ONLY <2>1, <4>1, SumAdds
    <3>2. SumOf(a, T \cup {x}) = SumOf(a, T) + a[x]
      <4>1. x \notin T /\ \A y \in T \cup {x} : a[y] \in Nat
        BY <2>2
      <4> HIDE DEF Good
      <4> QED BY ONLY <2>1, <4>1, SumAdds
    <3>3. SumOf(b, T \cup {x}) = SumOf(b, T) + b[x]
      <4>1. x \notin T /\ \A y \in T \cup {x} : b[y] \in Nat
        BY <2>2
      <4> HIDE DEF Good
      <4> QED BY ONLY <2>1, <4>1, SumAdds
    <3> QED BY <3>1, <3>2, <3>3
  <2>4. SumOf(w, T) \in Nat /\ SumOf(a, T) \in Nat /\ SumOf(b, T) \in Nat
    BY <2>1, <2>2, SumType
  <2>5. SumOf(w, T) = SumOf(a, T) + SumOf(b, T) /\ w[x] = a[x] + b[x]
    BY <1>2
  <2>6. a[x] \in Nat /\ b[x] \in Nat /\ T \cup {x} \in SUBSET S
    OBVIOUS
  <2>7. SumOf(w, T \cup {x}) = SumOf(a, T \cup {x}) + SumOf(b, T \cup {x})
    BY <2>3, <2>4, <2>5, <2>6
  <2> QED BY <2>6, <2>7
<1> HIDE DEF Good
<1>3. S \in Good
  BY <1>1, <1>2, OneByOne
<1> QED BY <1>3 DEF Good

\* One term grows.
LEMMA SumGrows ==
    ASSUME NEW S, IsFiniteSet(S), NEW w, NEW x \in S, NEW n \in Nat, NEW v,
           \A y \in S : w[y] \in Nat, v[x] = w[x] + n, \A y \in S : y # x => v[y] = w[y]
    PROVE  SumOf(v, S) = SumOf(w, S) + n
<1> DEFINE d == [y \in S |-> IF y = x THEN n ELSE 0]
<1>1. \A y \in S : w[y] \in Nat /\ d[y] \in Nat /\ v[y] = w[y] + d[y]
  OBVIOUS
<1>2. d[x] = n /\ \A y \in S \ {x} : d[y] = 0
  OBVIOUS
<1> HIDE DEF d
<1>3. SumOf(v, S) = SumOf(w, S) + SumOf(d, S)
  BY <1>1, SumPlus
<1>4. SumOf(d, S) = SumOf(d, {x})
  BY <1>1, <1>2, SumDrops
<1>5. SumOf(d, {x}) = n
  BY <1>2, SumOne
<1> QED BY <1>3, <1>4, <1>5

\* The sums over the classes of a set add up to the sum over the set.
LEMMA SumOfClasses ==
    ASSUME NEW S, IsFiniteSet(S), NEW K, IsFiniteSet(K), NEW w, \A x \in S : w[x] \in Nat,
           NEW g, \A x \in S : g[x] \in K
    PROVE  SumOf([k \in K |-> SumOf(w, {x \in S : g[x] = k})], K) = SumOf(w, S)
<1> DEFINE Class(T, k) == {x \in T : g[x] = k}
           By(T) == [k \in K |-> SumOf(w, Class(T, k))]
           Good == {T \in SUBSET S : SumOf(By(T), K) = SumOf(w, T)}
<1>1. {} \in Good
  <2>1. \A k \in K : By({})[k] = 0
    BY SumEmpty
  <2>2. SumOf(By({}), K) = 0
    <3> HIDE DEF By
    <3> QED BY <2>1, SumZero
  <2> QED BY <2>2, SumEmpty
<1>2. ASSUME NEW T \in SUBSET S, NEW x \in S \ T, T \in Good PROVE T \cup {x} \in Good
  <2>1. IsFiniteSet(T) /\ g[x] \in K /\ w[x] \in Nat /\ T \cup {x} \in SUBSET S
    BY FS_Subset
  <2>2. ASSUME NEW k \in K
        PROVE  By(T)[k] \in Nat /\ By(T \cup {x})[k] = IF k = g[x] THEN By(T)[k] + w[x] ELSE By(T)[k]
    <3>1. /\ IsFiniteSet(Class(T, k)) /\ x \notin Class(T, k)
          /\ \A y \in Class(T, k) \cup {x} : w[y] \in Nat
      BY <2>1, FS_Subset
    <3>2. Class(T \cup {x}, k) = IF k = g[x] THEN Class(T, k) \cup {x} ELSE Class(T, k)
      OBVIOUS
    <3> HIDE DEF Class
    <3>3. SumOf(w, Class(T, k)) \in Nat
      BY <3>1, SumType
    <3>4. SumOf(w, Class(T, k) \cup {x}) = SumOf(w, Class(T, k)) + w[x]
      BY <3>1, SumAdds
    <3> QED BY <3>2, <3>3, <3>4
  <2> HIDE DEF By
  <2>3. SumOf(By(T \cup {x}), K) = SumOf(By(T), K) + w[x]
    <3>1. PICK c \in K, n \in Nat : c = g[x] /\ n = w[x]
      BY <2>1
    <3>2. PICK was, is : was = By(T) /\ is = By(T \cup {x})
      OBVIOUS
    <3>3. /\ \A k \in K : was[k] \in Nat /\ (k # c => is[k] = was[k])
          /\ is[c] = was[c] + n
      BY <2>2, <3>1, <3>2
    <3>4. SumOf(is, K) = SumOf(was, K) + n
      BY <3>3, SumGrows
    <3> QED BY <3>1, <3>2, <3>4
  <2>4. SumOf(w, T \cup {x}) = SumOf(w, T) + w[x]
    BY <2>1, SumAdds
  <2>5. SumOf(By(T), K) = SumOf(w, T)
    BY <1>2
  <2>6. SumOf(By(T \cup {x}), K) = SumOf(w, T \cup {x})
    BY <2>3, <2>4, <2>5
  <2> QED BY <2>1, <2>6
<1> HIDE DEF Good
<1>3. S \in Good
  BY <1>1, <1>2, OneByOne
<1> QED BY <1>3 DEF Good

\* Terms all above a bound, or all below it.
LEMMA SumAbove ==
    ASSUME NEW S, IsFiniteSet(S), NEW w, NEW m \in Nat, \A x \in S : w[x] \in Nat /\ w[x] >= m
    PROVE  SumOf(w, S) >= Cardinality(S) * m
<1> DEFINE Good == {T \in SUBSET S : SumOf(w, T) >= Cardinality(T) * m}
<1>1. {} \in Good
  BY SumEmpty, FS_EmptySet
<1>2. ASSUME NEW T \in SUBSET S, NEW x \in S \ T, T \in Good PROVE T \cup {x} \in Good
  <2>1. IsFiniteSet(T) /\ Cardinality(T) \in Nat
    BY FS_Subset, FS_CardinalityType
  <2>2. Cardinality(T \cup {x}) = Cardinality(T) + 1
    BY <2>1, FS_AddElement
  <2>3. SumOf(w, T \cup {x}) = SumOf(w, T) + w[x] /\ SumOf(w, T) \in Nat
    BY <2>1, SumAdds, SumType
  <2>4. SumOf(w, T) >= Cardinality(T) * m /\ w[x] >= m /\ w[x] \in Nat
    BY <1>2
  <2>5. (Cardinality(T) + 1) * m = Cardinality(T) * m + m /\ Cardinality(T) * m \in Nat
    BY <2>1
  <2>6. SumOf(w, T \cup {x}) >= Cardinality(T \cup {x}) * m
    BY <2>2, <2>3, <2>4, <2>5
  <2> QED BY <2>6
<1> HIDE DEF Good
<1>3. S \in Good
  BY <1>1, <1>2, OneByOne
<1> QED BY <1>3 DEF Good

LEMMA SumBelow ==
    ASSUME NEW S, IsFiniteSet(S), NEW w, NEW m \in Nat, \A x \in S : w[x] \in Nat /\ w[x] <= m
    PROVE  SumOf(w, S) <= Cardinality(S) * m
<1> DEFINE Good == {T \in SUBSET S : SumOf(w, T) <= Cardinality(T) * m}
<1>1. {} \in Good
  BY SumEmpty, FS_EmptySet
<1>2. ASSUME NEW T \in SUBSET S, NEW x \in S \ T, T \in Good PROVE T \cup {x} \in Good
  <2>1. IsFiniteSet(T) /\ Cardinality(T) \in Nat
    BY FS_Subset, FS_CardinalityType
  <2>2. Cardinality(T \cup {x}) = Cardinality(T) + 1
    BY <2>1, FS_AddElement
  <2>3. SumOf(w, T \cup {x}) = SumOf(w, T) + w[x] /\ SumOf(w, T) \in Nat
    BY <2>1, SumAdds, SumType
  <2>4. SumOf(w, T) <= Cardinality(T) * m /\ w[x] <= m /\ w[x] \in Nat
    BY <1>2
  <2>5. (Cardinality(T) + 1) * m = Cardinality(T) * m + m /\ Cardinality(T) * m \in Nat
    BY <2>1
  <2>6. SumOf(w, T \cup {x}) <= Cardinality(T \cup {x}) * m
    BY <2>2, <2>3, <2>4, <2>5
  <2> QED BY <2>6
<1> HIDE DEF Good
<1>3. S \in Good
  BY <1>1, <1>2, OneByOne
<1> QED BY <1>3 DEF Good

\* What a recursion that chooses one element after the other comes to.
RecFold(f, v, S) ==
    f = [T \in SUBSET S |-> IF T = {} THEN 0 ELSE v[T] + f[T \ {CHOOSE x \in T : TRUE}]]

LEMMA RecIsSum ==
    ASSUME NEW S, IsFiniteSet(S), NEW w, \A x \in S : w[x] \in Nat,
           NEW v, \A T \in SUBSET S : T # {} => v[T] = w[CHOOSE x \in T : TRUE]
    PROVE  /\ \E f : RecFold(f, v, S)
           /\ \A f : RecFold(f, v, S) => f[S] = SumOf(w, S)
<1> DEFINE sum == [T \in SUBSET S |-> SumOf(w, T)]
           pick(T) == CHOOSE x \in T : TRUE
<1>1. ASSUME NEW T \in SUBSET S, T # {}
      PROVE  /\ pick(T) \in T /\ T \ {pick(T)} \in SUBSET S
             /\ SumOf(w, T) = v[T] + SumOf(w, T \ {pick(T)})
  <2>1. PICK x : x = pick(T)
    OBVIOUS
  <2>2. x \in T
    BY <1>1, <2>1
  <2>3. PICK R : R = T \ {x}
    OBVIOUS
  <2>4. IsFiniteSet(R) /\ x \notin R /\ R \cup {x} = T /\ R \in SUBSET S
    BY <2>2, <2>3, FS_Subset
  <2>5. SumOf(w, R \cup {x}) = SumOf(w, R) + w[x]
    BY <2>4, SumAdds
  <2>6. SumOf(w, R) \in Nat /\ w[x] \in Nat
    BY <2>4, SumType
  <2>7. v[T] = w[x]
    BY <1>1, <2>1
  <2>8. SumOf(w, T) = SumOf(w, R) + w[x]
    BY <2>4, <2>5
  <2>9. SumOf(w, T) = v[T] + SumOf(w, R)
    BY <2>6, <2>7, <2>8
  <2> QED BY <2>1, <2>2, <2>3, <2>4, <2>9
<1>2. RecFold(sum, v, S)
  BY <1>1, SumEmpty DEF RecFold
<1>3. ASSUME NEW f, RecFold(f, v, S) PROVE f[S] = SumOf(w, S)
  <2> DEFINE Bad == {T \in SUBSET S : f[T] # SumOf(w, T)}
  <2>1. ASSUME Bad # {} PROVE FALSE
    <3>1. Bad \subseteq FiniteSubsetsOf(S)
      BY FS_Subset DEF FiniteSubsetsOf
    <3>2. PICK T \in Bad : \A U \in Bad : <<U, T>> \notin StrictSubsetOrdering(S)
      <4> HIDE DEF Bad
      <4> QED BY <2>1, <3>1, WFMin, FS_StrictSubsetOrderingWellFounded, Zenon
    <3>3. T # {}
      BY <1>3, <3>2, SumEmpty DEF RecFold
    <3>4. PICK R \in SUBSET S : R = T \ {pick(T)}
      OBVIOUS
    <3>5. <<R, T>> \in StrictSubsetOrdering(S)
      BY <1>1, <3>3, <3>4 DEF StrictSubsetOrdering
    <3>6. f[R] = SumOf(w, R)
      BY <3>2, <3>5
    <3>7. f[T] = v[T] + f[R] /\ SumOf(w, T) = v[T] + SumOf(w, R)
      BY <1>1, <1>3, <3>3, <3>4 DEF RecFold
    <3> QED BY <3>2, <3>6, <3>7
  <2> QED BY <2>1
<1> QED BY <1>2, <1>3

-----------------------------------------------------------------------------
(* The revenue pages.  The hash of today is never behind the day total it  *)
(* was flushed to, since a sweep writes what it read of a figure that only *)
(* grows; what is rolled up was not there before; and it stays in a cell.  *)

TotalBehind ==
    /\ day.total \in Int
    /\ "rev" \notin seeded => total = 0
    /\ "rev" \in seeded => day.total <= total
    /\ \A s \in Sweeps : spc[s] = <<"rev", "write">> =>
         snap[s].total \in Int /\ snap[s].total <= total

NewOnly ==
    /\ \A t \in Before : t \in claimed /\ counted[t] = 0
    /\ \A r \in Servers : pc[r] \in Won => TxOf[r] \notin Before

CellsPlaced ==
    /\ \A t \in RolledUp : place[t] \in Cells
    /\ DOMAIN cells \subseteq Cells

PageInv == TotalBehind /\ NewOnly /\ CellsPlaced

LEMMA InitPage == Init => PageInv
<1> SUFFICES ASSUME Init PROVE PageInv
  OBVIOUS
<1>1. \A r \in Servers : pc[r] \in {"absent", "queued"}
  BY ServerFacts DEF Init
<1>2. TotalBehind
  BY StoredFacts DEF Init, TotalBehind, Idle
<1>3. NewOnly
  BY <1>1, ConstantsAssumption DEF Init, NewOnly, Won
<1>4. CellsPlaced
  BY DEF Init, CellsPlaced, RolledUp, Empty
<1> QED BY <1>2, <1>3, <1>4 DEF PageInv

\* While the hash is seeded it is the floor and what was rolled up.
LEMMA TotalFacts ==
    ASSUME IInv, CellInv
    PROVE  /\ RolledUp \in SUBSET Transactions /\ IsFiniteSet(RolledUp)
           /\ Worth(RolledUp) \in Nat
           /\ "rev" \in seeded => total \in Int
<1>1. RolledUp \in SUBSET Transactions /\ IsFiniteSet(RolledUp)
  BY DEF RolledUp, CellInv, Tables, HotKnown
<1>2. Worth(RolledUp) \in Nat
  BY <1>1, WorthType
<1> QED BY <1>1, <1>2, StoredFacts DEF CellInv, Tables, CellsHoldEachPurchaseOnce

\* A step that is no sweep's, with the hash not shrinking.
LEMMA TotalStays ==
    ASSUME IInv, CellInv, TotalBehind, UNCHANGED <<day, seeded>>, "rev" \in seeded => total' \in Int /\ total <= total',
           "rev" \notin seeded => total' = total,
           \A s \in Sweeps : spc'[s] = <<"rev", "write">> => spc[s] = <<"rev", "write">> /\ snap'[s] = snap[s]
    PROVE  TotalBehind'
<1>1. day.total \in Int /\ ("rev" \in seeded => total \in Int)
  BY TotalFacts DEF TotalBehind
<1>2. \A s \in Sweeps : spc[s] = <<"rev", "write">> => "rev" \in seeded
  BY DEF CellInv, SweepsKnown
<1>3. \A s \in Sweeps : spc'[s] = <<"rev", "write">> => snap'[s].total \in Int /\ snap'[s].total <= total'
  <2> TAKE s \in Sweeps
  <2> HAVE spc'[s] = <<"rev", "write">>
  <2>1. /\ snap'[s] = snap[s] /\ snap[s].total \in Int /\ snap[s].total <= total
        /\ total \in Int /\ total' \in Int /\ total <= total'
    BY <1>1, <1>2 DEF TotalBehind
  <2> QED BY <2>1
<1> QED BY <1>1, <1>3 DEF TotalBehind

LEMMA SweepTotalBehind ==
    ASSUME IInv, CellInv, TotalBehind, NEW s \in Sweeps, SweepStep(s) \/ SweepFail(s)
    PROVE  TotalBehind'
<1>u. UNCHANGED <<cells, total, payers, seeded>>
  BY SweepShaped
<1>s. ShapedSweeps /\ ShapedStores
  BY DEF CellInv, Shaped
<1>t. "rev" \in seeded => total \in Int
  BY TotalFacts
<1>w. \A q \in Sweeps : spc[q] = <<"rev", "write">> => "rev" \in seeded
  BY DEF CellInv, SweepsKnown
<1>d. After[spc[s][1]] \in Domains \X {"drain"} /\ Idle \in Domains \X {"drain"}
  BY <1>s, SweepFacts
<1>1. ASSUME \A q \in Sweeps : spc'[q] = <<"rev", "write">> => spc[q] = <<"rev", "write">> /\ snap'[q] = snap[q],
             day'.total = day.total
      PROVE  TotalBehind'
  BY <1>1, <1>u DEF TotalBehind
<1>2. CASE SweepDrain(s) \/ SweepFail(s)
  <2>1. spc'[s][2] # "write" /\ \A q \in Sweeps \ {s} : spc'[q] = spc[q]
    BY <1>2, <1>s, <1>d DEF SweepDrain, SweepFail, ShapedSweeps
  <2>2. UNCHANGED <<snap, day>>
    BY <1>2 DEF SweepDrain, SweepFail
  <2> QED BY <1>1, <2>1, <2>2
<1>3. CASE SweepRead(s)
  <2>1. CASE spc'[s][2] = "write"
    <3>1. /\ spc[s][1] \in seeded /\ spc'[s] = <<spc[s][1], "write">> /\ snap'[s].total = total
      BY <1>3, <2>1, ReadToWrite
    <3>2. \A q \in Sweeps \ {s} : spc'[q] = spc[q] /\ snap'[q] = snap[q]
      BY <1>3, <1>s DEF SweepRead, ShapedSweeps
    <3>3. UNCHANGED day
      BY <1>3 DEF SweepRead
    <3>4. spc'[s] = <<"rev", "write">> => "rev" \in seeded
      BY <3>1
    <3> QED BY <1>t, <1>u, <3>1, <3>2, <3>3, <3>4 DEF TotalBehind
  <2>2. CASE spc'[s][2] # "write"
    <3>1. \A q \in Sweeps \ {s} : spc'[q] = spc[q] /\ snap'[q] = snap[q]
      BY <1>3, <1>s DEF SweepRead, ShapedSweeps
    <3>2. UNCHANGED day
      BY <1>3 DEF SweepRead
    <3> QED BY <1>1, <2>2, <3>1, <3>2
  <2> QED BY <2>1, <2>2
<1>4. CASE SweepCell(s)
  <2>1. spc[s] = <<"mon", "write">> /\ (EndOf(s) \/ UNCHANGED <<spc, snap>>) /\ day'.total = day.total
    BY <1>4, <1>s DEF SweepCell, ShapedStores
  <2>2. CASE EndOf(s)
    <3>1. spc'[s][2] # "write" /\ \A q \in Sweeps \ {s} : spc'[q] = spc[q] /\ snap'[q] = snap[q]
      BY <1>s, <1>d, <2>2 DEF EndOf, ShapedSweeps
    <3> QED BY <1>1, <2>1, <3>1
  <2>3. CASE UNCHANGED <<spc, snap>>
    BY <1>1, <2>1, <2>3
  <2> QED BY <2>1, <2>2, <2>3
<1>5. CASE SweepTotal(s) \/ SweepMembers(s)
  <2>1. spc'[s][2] # "write" /\ \A q \in Sweeps \ {s} : spc'[q] = spc[q] /\ snap'[q] = snap[q]
    BY <1>5, <1>s, <1>d DEF SweepTotal, SweepMembers, EndOf, ShapedSweeps
  <2>2. CASE SweepTotal(s) /\ day' # day
    <3>1. spc[s] = <<"rev", "write">> /\ day'.total = snap[s].total
      BY <1>s, <2>2 DEF SweepTotal, ShapedStores
    <3>2. snap[s].total \in Int /\ snap[s].total <= total /\ "rev" \in seeded
      BY <1>w, <3>1 DEF TotalBehind
    <3> QED BY <1>u, <2>1, <3>1, <3>2 DEF TotalBehind
  <2>3. CASE SweepMembers(s) \/ day' = day
    <3>1. day'.total = day.total
      BY <1>s, <2>3 DEF SweepMembers, ShapedStores
    <3> QED BY <1>1, <2>1, <3>1
  <2> QED BY <1>5, <2>2, <2>3
<1> QED BY <1>2, <1>3, <1>4, <1>5 DEF SweepStep

LEMMA RecordTotalBehind ==
    ASSUME IInv, CellInv, TotalBehind, NEW r \in Records, RecordStep(r) \/ RecordFail(r)
    PROVE  TotalBehind'
<1>1. CASE SeedHash(r)
  <2> DEFINE h == Head(todo[r])
  <2>1. /\ seeded' = seeded \cup {h} /\ UNCHANGED <<day, spc, snap, rows>>
        /\ total' = IF h = "rev" /\ h \notin seeded THEN floor[r].total ELSE total
    BY <1>1 DEF SeedHash, sweepers
  <2>2. CASE h = "rev" /\ h \notin seeded
    <3>1. DayKnown(floor[r]) /\ DayKnown(day)
      BY <1>1 DEF SeedHash, CellInv, DaysKnown, Reading
    <3>2. total' = Stored.total /\ day.total = Stored.total
      BY <2>1, <2>2, <3>1 DEF DayKnown
    <3>3. \A s \in Sweeps : spc[s] # <<"rev", "write">>
      BY <2>2 DEF CellInv, SweepsKnown
    <3> QED BY <2>1, <2>2, <3>2, <3>3, StoredFacts DEF TotalBehind
  <2>3. CASE ~(h = "rev" /\ h \notin seeded)
    BY <2>1, <2>3 DEF TotalBehind
  <2> QED BY <2>2, <2>3
<1>2. CASE Rollup(r)
  <2>1. TxOf[r] \in Transactions /\ UNCHANGED <<day, seeded, spc, snap, rows>>
    BY <1>2, ServerFacts DEF Rollup, IInv, Typed, ServersOnly, sweepers
  <2>2. Normalized(TxOf[r]) \in Nat /\ total' = total + Normalized(TxOf[r])
    BY <1>2, <2>1, NormalizedType DEF Rollup
  <2>3. "rev" \in seeded /\ total \in Int
    BY <1>2, TotalFacts DEF Rollup, CellInv, SeedsInOrder, Past, Hashes
  <2> QED BY <2>1, <2>2, <2>3, TotalStays
<1>3. CASE Move(r)
  <2>1. UNCHANGED <<day, seeded, total, spc, snap, rows>>
    BY <1>3 DEF Move, sweepers
  <2> QED BY <2>1, TotalFacts, TotalStays
<1>4. CASE ~SeedHash(r) /\ ~Rollup(r) /\ ~Move(r)
  <2>1. UNCHANGED <<day, seeded, total, spc, snap, rows>>
    BY <1>4, QuietRecord
  <2> QED BY <2>1, TotalFacts, TotalStays
<1> QED BY <1>1, <1>2, <1>3, <1>4

\* Only the commit brings a server row onto the way to the rollup.
LEMMA WonFrom ==
    ASSUME IInv, NEW r \in Servers, RecordStep(r) \/ RecordFail(r), ~Commit(r), pc'[r] \in Won
    PROVE  pc[r] \in Won
<1>0. pc \in [Records -> Places] /\ r \in Records
  BY ServerFacts DEF IInv, Typed
<1>1. CASE Mark(r)
  <2>1. pc' = [pc EXCEPT ![r] = Marking[pc[r]].next] /\ pc[r] \in DOMAIN Marking
    BY <1>1 DEF Mark
  <2>2. Marking[pc[r]].next \in {"mark rev", "mark payer", "done"}
    BY <2>1 DEF Marking
  <2>3. Marking[pc[r]].next \notin Won
    BY <2>2 DEF Won
  <2> QED BY <1>0, <2>1, <2>3
<1>2. CASE CheckClaimed(r) \/ PreRead(r) \/ Arrive(r) \/ Join(r) \/ StageCompanion(r) \/ RecordFail(r)
  BY <1>0, <1>2 DEF CheckClaimed, PreRead, Arrive, Join, StageCompanion, RecordFail, Won, Servers,
                    IInv, Typed
<1>3. CASE ReadFloor(r) \/ CheckSeeded(r) \/ SeedHash(r) \/ ReadContext(r) \/ Resolve(r)
  BY <1>0, <1>3 DEF ReadFloor, CheckSeeded, SeedHash, ReadContext, Resolve, Won
<1>4. CASE Rollup(r) \/ StageServer(r) \/ Move(r) \/ Restage(r)
  <2>1. \E p \in {"mark mon", "stage", "done", "restage"} : pc' = [pc EXCEPT ![r] = p]
    BY <1>4, Zenon DEF Rollup, StageServer, Move, Restage
  <2> QED BY <1>0, <2>1 DEF Won
<1> QED BY <1>1, <1>2, <1>3, <1>4 DEF RecordStep

LEMMA RecordNewOnly ==
    ASSUME IInv, CellInv, NewOnly, NEW r \in Records, RecordStep(r) \/ RecordFail(r)
    PROVE  NewOnly'
<1>0. pc \in [Records -> Places] /\ counted \in [Transactions -> Nat] /\ Before \subseteq Transactions
  BY ConstantsAssumption DEF IInv, Typed
<1>1. \A t \in Before : t \in claimed'
  <2>1. claimed \subseteq claimed'
    BY DEF RecordStep, CheckClaimed, PreRead, Commit, Book, Arrive, Join, StageCompanion, ReadFloor, CheckSeeded,
           SeedHash, ReadContext, Resolve, Rollup, StageServer, Move, Restage, Mark, RecordFail, ledger
  <2> QED BY <2>1 DEF NewOnly
<1>2. \A t \in Before : counted'[t] = 0
  <2>1. CASE Rollup(r)
    <3>1. r \in Servers /\ pc[r] \in Won /\ counted' = [counted EXCEPT ![TxOf[r]] = @ + 1]
      BY <2>1 DEF Rollup, IInv, Typed, ServersOnly, Won
    <3> QED BY <1>0, <3>1, ServerFacts DEF NewOnly
  <2>2. CASE ~Rollup(r)
    <3>1. UNCHANGED counted
      BY <2>2 DEF RecordStep, CheckClaimed, PreRead, Commit, Arrive, Join, StageCompanion, ReadFloor, CheckSeeded,
             SeedHash, ReadContext, Resolve, StageServer, Move, Restage, Mark, RecordFail, history
    <3> QED BY <3>1 DEF NewOnly
  <2> QED BY <2>1, <2>2
<1>3. \A q \in Servers : pc'[q] \in Won => TxOf[q] \notin Before
  <2>1. \A q \in Servers \ {r} : pc'[q] = pc[q]
    <3>1. \A q \in Records \ {r} : pc'[q] = pc[q]
      BY <1>0, StepsOn DEF RecordFail
    <3> QED BY <3>1, ServerFacts
  <2>2. ASSUME r \in Servers, pc'[r] \in Won PROVE TxOf[r] \notin Before
    <3>1. CASE Commit(r)
      <4>1. TxOf[r] \notin claimed
        BY <1>0, <2>2, <3>1 DEF Commit, Won
      <4> QED BY <4>1 DEF NewOnly
    <3>2. CASE ~Commit(r)
      <4>1. pc[r] \in Won
        BY <2>2, <3>2, WonFrom
      <4> QED BY <2>2, <4>1 DEF NewOnly
    <3> QED BY <3>1, <3>2
  <2> QED BY <2>1, <2>2 DEF NewOnly
<1> QED BY <1>1, <1>2, <1>3 DEF NewOnly

LEMMA RecordPlaced ==
    ASSUME IInv, CellInv, CellsPlaced, NEW r \in Records, RecordStep(r) \/ RecordFail(r)
    PROVE  CellsPlaced'
<1>1. CASE SeedHash(r)
  <2>1. UNCHANGED <<counted, place>> /\ (cells' = Filled(cells, floor[r].cells) \/ cells' = cells)
    BY <1>1 DEF SeedHash, history
  <2>2. DOMAIN floor[r].cells \subseteq Cells
    <3>1. DayKnown(floor[r])
      BY <1>1 DEF SeedHash, CellInv, DaysKnown, Reading
    <3>2. DOMAIN Stored.cells \subseteq Cells
      BY ConstantsAssumption DEF IsDay, IsTable
    <3> QED BY <3>1, <3>2 DEF DayKnown, CellsPlaced
  <2>3. DOMAIN cells' \subseteq Cells
    BY <2>1, <2>2 DEF Filled, CellsPlaced
  <2> QED BY <2>1, <2>3 DEF CellsPlaced, RolledUp
<1>2. CASE Rollup(r)
  <2> DEFINE c == <<tier[r], value[r]>>
             t == TxOf[r]
  <2>1. c \in Cells /\ t \in Transactions
    BY <1>2, ServerFacts DEF Rollup, CellInv, Shaped, Ready, IInv, Typed, ServersOnly, Cells
  <2>2. /\ place' = [place EXCEPT ![t] = c] /\ cells' = Added(cells, c, 1, Normalized(t))
        /\ \A x \in Transactions \ {t} : counted'[x] = counted[x]
    BY <1>2, RollupTables DEF Rollup
  <2>3. \A x \in Transactions : place'[x] = IF x = t THEN c ELSE place[x]
    BY <2>1, <2>2 DEF CellInv, Shaped, ShapedStores
  <2> HIDE DEF c, t
  <2>4. \A x \in RolledUp' : place'[x] \in Cells
    BY <2>1, <2>2, <2>3 DEF RolledUp, CellsPlaced
  <2>5. DOMAIN cells' \subseteq Cells
    BY <2>1, <2>2 DEF Added, CellsPlaced
  <2> QED BY <2>4, <2>5 DEF CellsPlaced
<1>3. CASE Move(r)
  <2> DEFINE from == held[r].cell
             to == <<from[1], value[r]>>
             t == held[r].tx
  <2>1. held[r] \in Staged /\ value[r] \in ClientValues
    BY <1>3 DEF Move, CellInv, Shaped, Ready, Servers, Carrying
  <2>2. from \in Cells /\ to \in Cells /\ t \in Transactions /\ UNCHANGED counted
    BY <1>3, <2>1 DEF Staged, Cells, Move
  <2>3. \/ UNCHANGED <<cells, place>>
        \/ /\ cells' = Added(Added(cells, from, -1, held[r].rev), to, 1, held[r].rev)
           /\ place' = [place EXCEPT ![t] = to]
    BY <1>3 DEF Move
  <2> HIDE DEF from, to, t
  <2>4. \A x \in Transactions : place'[x] = place[x] \/ place'[x] = to
    BY <2>2, <2>3 DEF CellInv, Shaped, ShapedStores
  <2>5. \A x \in RolledUp' : place'[x] \in Cells
    BY <2>2, <2>4 DEF RolledUp, CellsPlaced
  <2>6. DOMAIN cells' \subseteq Cells
    BY <2>2, <2>3 DEF Added, CellsPlaced
  <2> QED BY <2>5, <2>6 DEF CellsPlaced
<1>4. CASE ~SeedHash(r) /\ ~Rollup(r) /\ ~Move(r)
  <2>1. UNCHANGED <<cells, place, counted>>
    BY <1>4, QuietRecord
  <2> QED BY <2>1 DEF CellsPlaced, RolledUp
<1> QED BY <1>1, <1>2, <1>3, <1>4

LEMMA NextPage ==
    ASSUME IInv, CellInv, PageInv, [Next]_vars
    PROVE  PageInv'
<1>0. TotalBehind /\ NewOnly /\ CellsPlaced
  BY DEF PageInv
<1>1. ASSUME NEW r \in Records, RecordStep(r) \/ RecordFail(r) PROVE PageInv'
  BY <1>0, <1>1, RecordTotalBehind, RecordNewOnly, RecordPlaced DEF PageInv
<1>2. ASSUME NEW s \in Sweeps, SweepStep(s) \/ SweepFail(s) PROVE PageInv'
  <2>1. UNCHANGED <<pc, claimed, counted, place, cells>>
    <3>1. UNCHANGED <<handlers, place, counted, cells>>
      BY <1>2, SweepShaped
    <3>2. UNCHANGED ledger
      BY <1>2 DEF SweepStep, SweepDrain, SweepRead, SweepCell, SweepTotal, SweepMembers, SweepFail
    <3> QED BY <3>1, <3>2 DEF handlers, ledger
  <2>2. NewOnly' /\ CellsPlaced'
    BY <1>0, <2>1 DEF NewOnly, CellsPlaced, RolledUp
  <2> QED BY <1>0, <1>2, <2>2, SweepTotalBehind DEF PageInv
<1>3. CASE (\E a \in Attempts : Expire(a)) \/ Seal \/ UNCHANGED vars
  <2>1. UNCHANGED <<pc, claimed, counted, place, cells, day, total, seeded, spc, snap>>
    BY <1>3 DEF Expire, Seal, vars, ledger, hotDay, handlers, sweepers, history
  <2> QED BY <1>0, <2>1 DEF PageInv, TotalBehind, NewOnly, CellsPlaced, RolledUp
<1>4. CASE Crash
  <2>1. UNCHANGED <<claimed, counted, place, cells, day, total, seeded>>
    BY <1>4 DEF Crash, ledger, hotDay
  <2>2. \A r \in Servers : pc'[r] \notin Won
    BY <1>4, CrashLeaves, ServerFacts DEF Won
  <2>3. \A s \in Sweeps : spc'[s] # <<"rev", "write">>
    BY <1>4 DEF Crash, Idle
  <2> QED BY <1>0, <2>1, <2>2, <2>3 DEF PageInv, TotalBehind, NewOnly, CellsPlaced, RolledUp
<1> QED BY <1>1, <1>2, <1>3, <1>4 DEF Next

-----------------------------------------------------------------------------
(* The spends of the month add up to the purchases in the table.           *)

LEMMA WorthIsSum ==
    ASSUME NEW S \in SUBSET Transactions, IsFiniteSet(S),
           NEW w, \A t \in S : w[t] = Normalized(t)
    PROVE  Worth(S) = SumOf(w, S)
<1>1. Units(S) = UnitsOf(w, S)
  BY DEF Units, UnitsOf
<1> QED BY <1>1, WorthIsSize DEF SumOf

LEMMA WorthUnion ==
    ASSUME NEW S \in SUBSET Transactions, NEW T \in SUBSET Transactions, S \cap T = {},
           IsFiniteSet(S), IsFiniteSet(T)
    PROVE  Worth(S \cup T) = Worth(S) + Worth(T)
<1> DEFINE w == [t \in Transactions |-> Normalized(t)]
<1>1. \A t \in Transactions : w[t] = Normalized(t) /\ w[t] \in Nat
  BY NormalizedType
<1> HIDE DEF w
<1>2. IsFiniteSet(S \cup T)
  BY FS_Union
<1>3. Worth(S) = SumOf(w, S) /\ Worth(T) = SumOf(w, T)
  BY <1>1, WorthIsSum
<1>4. Worth(S \cup T) = SumOf(w, S \cup T)
  BY <1>1, <1>2, WorthIsSum
<1>5. SumOf(w, S \cup T) = SumOf(w, S) + SumOf(w, T)
  BY <1>1, SumUnion
<1> QED BY <1>3, <1>4, <1>5

SpendFold(f, us) ==
    f = [T \in SUBSET us |->
           IF T = {} THEN 0 ELSE period[CHOOSE u \in T : TRUE] + f[T \ {CHOOSE u \in T : TRUE}]]

LEMMA SpendIsFold ==
    ASSUME NEW us, \E f : SpendFold(f, us)
    PROVE  \E f : SpendFold(f, us) /\ Spend(us) = f[us]
<1>1. \E f : Spend(us) = f[us] /\ f = CHOOSE h : SpendFold(h, us)
  BY DEF Spend, MapThenSumSet, MapThenFoldSet, SpendFold
<1> QED BY <1>1

LEMMA SpendIsSum ==
    ASSUME period \in [Users -> Nat], NEW us \in SUBSET Users, IsFiniteSet(us)
    PROVE  Spend(us) = SumOf(period, us) /\ Spend(us) \in Nat
<1> DEFINE v == [T \in SUBSET us |-> period[CHOOSE u \in T : TRUE]]
<1>1. \A T \in SUBSET us : T # {} => v[T] = period[CHOOSE u \in T : TRUE]
  OBVIOUS
<1>2. \A f : SpendFold(f, us) <=> RecFold(f, v, us)
  BY DEF SpendFold, RecFold
<1> HIDE DEF v
<1>3. (\E f : RecFold(f, v, us)) /\ \A f : RecFold(f, v, us) => f[us] = SumOf(period, us)
  BY <1>1, RecIsSum
<1>4. PICK f : SpendFold(f, us) /\ Spend(us) = f[us]
  BY <1>2, <1>3, SpendIsFold
<1> QED BY <1>2, <1>3, <1>4, SumType

LEMMA SpendersPaid ==
    ASSUME IInv, LedgerInv
    PROVE  /\ Spenders \in SUBSET Users /\ IsFiniteSet(Spenders)
           /\ Spenders = {UserOf[t] : t \in claimed}
           /\ Spend(Spenders) = Worth(claimed)
<1>1. claimed \in SUBSET Transactions /\ IsFiniteSet(claimed) /\ period \in [Users -> Nat]
  BY DEF IInv, Typed, LedgerInv
<1>2. Spenders = {UserOf[t] : t \in claimed}
  BY <1>1, ConstantsAssumption DEF Spenders, IInv, RowWhenPaid
<1> DEFINE g == [t \in claimed |-> UserOf[t]]
           w == [t \in claimed |-> Normalized(t)]
           Of(u) == {t \in claimed : g[t] = u}
           by == [u \in Spenders |-> SumOf(w, Of(u))]
<1>3. g \in Surjection(claimed, Spenders)
  BY <1>2 DEF Surjection
<1>4. IsFiniteSet(Spenders) /\ Spenders \in SUBSET Users
  BY <1>1, <1>3, FS_Surjection DEF Spenders
<1>5. \A t \in claimed : w[t] \in Nat /\ w[t] = Normalized(t) /\ g[t] \in Spenders
  BY <1>1, <1>2, NormalizedType
<1>6. \A u \in Spenders : period[u] = by[u]
  <2> TAKE u \in Spenders
  <2>1. Of(u) = {t \in claimed : UserOf[t] = u}
    OBVIOUS
  <2>2. period[u] = Worth(Of(u))
    <3>1. u \in Users /\ period[u] = Payer(claimed, u).lifetime
      BY <1>4 DEF LedgerInv, SpineMatchesClaims
    <3>2. Payer(claimed, u).lifetime = Worth({t \in claimed : UserOf[t] = u})
      BY <3>1, PayerLifetime
    <3> HIDE DEF Of
    <3> QED BY <2>1, <3>1, <3>2
  <2>3. Of(u) \in SUBSET claimed /\ IsFiniteSet(Of(u))
    BY <1>1, FS_Subset
  <2>4. Worth(Of(u)) = SumOf(w, Of(u))
    <3> HIDE DEF w, Of
    <3> QED BY <1>1, <1>5, <2>3, WorthIsSum
  <2> QED BY <2>2, <2>4
<1>7. SumOf(by, Spenders) = SumOf(w, claimed)
  <2> HIDE DEF w, g
  <2>1. by = [u \in Spenders |-> SumOf(w, {t \in claimed : g[t] = u})]
    OBVIOUS
  <2>2. /\ IsFiniteSet(claimed) /\ IsFiniteSet(Spenders)
        /\ \A t \in claimed : w[t] \in Nat /\ g[t] \in Spenders
    BY <1>1, <1>4, <1>5
  <2> QED BY ONLY <2>1, <2>2, SumOfClasses
<1>8. SumOf(w, claimed) = Worth(claimed)
  <2> HIDE DEF w
  <2> QED BY <1>1, <1>5, WorthIsSum
<1>9. SumOf(period, Spenders) = SumOf(by, Spenders)
  <2> HIDE DEF by
  <2> QED BY <1>6, SumSame
<1>10. Spend(Spenders) = SumOf(period, Spenders)
  BY <1>1, <1>4, SpendIsSum
<1> QED BY <1>2, <1>4, <1>7, <1>8, <1>9, <1>10

-----------------------------------------------------------------------------
(* What the page of the day shows.                                         *)

\* What Postgres holds of the day when Redis is lost is of purchases it has.
StoredIsPaid ==
    /\ Stored.total \in Nat /\ Stored.total <= Worth(Before)
    /\ Stored.members \subseteq {UserOf[t] : t \in Before}

\* Today's page is the floor and what was rolled up; no page is ahead of the payers.
LEMMA DayPages ==
    ASSUME StoredIsPaid, IInv, LedgerInv, CellInv, PageInv
    PROVE  LET paid == Stored.total + Worth(RolledUp)
               known == Stored.members \cup {UserOf[t] : t \in RolledUp}
           IN  /\ DayRevenue(TRUE) = paid /\ DistinctPayers(TRUE) = known
               /\ \A today \in BOOLEAN :
                    DayRevenue(today) <= Spend(Spenders) /\ DistinctPayers(today) \subseteq Spenders
<1> DEFINE paid == Stored.total + Worth(RolledUp)
           known == Stored.members \cup {UserOf[t] : t \in RolledUp}
<1>1. /\ RolledUp \in SUBSET Transactions /\ IsFiniteSet(RolledUp) /\ Worth(RolledUp) \in Nat
      /\ Stored.total \in Nat /\ paid \in Nat /\ day.total \in Int
  BY TotalFacts DEF StoredIsPaid, PageInv, TotalBehind
<1>2. DayRevenue(TRUE) = paid /\ day.total <= paid
  <2>1. CASE "rev" \in seeded
    <3>1. total = paid /\ day.total <= total
      BY <2>1 DEF CellInv, Tables, CellsHoldEachPurchaseOnce, PageInv, TotalBehind
    <3> HIDE DEF paid
    <3> QED BY <1>1, <3>1 DEF DayRevenue, LatestTotal
  <2>2. CASE "rev" \notin seeded
    <3>1. ~ (Hashes \subseteq seeded)
      BY <2>2 DEF Hashes
    <3>2. Worth(RolledUp) = 0
      BY <3>1, NothingYet, WorthEmpty
    <3>3. total = 0 /\ day.total = Stored.total
      BY <2>2 DEF CellInv, DaysKnown, DayKnown, PageInv, TotalBehind
    <3> QED BY <1>1, <3>2, <3>3 DEF DayRevenue, LatestTotal
  <2> QED BY <2>1, <2>2
<1>3. DistinctPayers(TRUE) = known /\ day.members \subseteq known
  <2>1. CASE "payer" \in seeded
    BY <2>1 DEF CellInv, DaysKnown, DayKnown, Tables, CellsHoldEachPurchaseOnce, DistinctPayers
  <2>2. CASE "payer" \notin seeded
    <3>1. ~ (Hashes \subseteq seeded)
      BY <2>2 DEF Hashes
    <3>2. RolledUp = {}
      BY <3>1, NothingYet
    <3>3. payers = {} /\ day.members = Stored.members
      BY <2>2 DEF CellInv, DaysKnown, DayKnown, Tables, HotKnown
    <3> QED BY <3>2, <3>3 DEF DistinctPayers
  <2> QED BY <2>1, <2>2
<1>4. /\ claimed \in SUBSET Transactions /\ IsFiniteSet(claimed)
      /\ Before \subseteq claimed /\ RolledUp \subseteq claimed /\ Before \cap RolledUp = {}
  <2>1. claimed \in SUBSET Transactions /\ IsFiniteSet(claimed)
    BY DEF IInv, Typed, LedgerInv
  <2>2. \A t \in RolledUp : t \in claimed /\ counted[t] # 0
    BY DEF RolledUp, IInv, Typed, CountedAtMostOnce
  <2> QED BY <2>1, <2>2 DEF PageInv, NewOnly
<1>5. paid <= Worth(claimed)
  <2> DEFINE rest == claimed \ (Before \cup RolledUp)
             some == Before \cup RolledUp
  <2>1. /\ IsFiniteSet(Before) /\ IsFiniteSet(rest) /\ IsFiniteSet(some)
        /\ Before \in SUBSET Transactions /\ rest \in SUBSET Transactions /\ some \in SUBSET Transactions
        /\ some \cap rest = {} /\ some \cup rest = claimed
    BY <1>4, FS_Subset
  <2>2. Worth(some) = Worth(Before) + Worth(RolledUp)
    BY <1>1, <1>4, <2>1, WorthUnion
  <2> HIDE DEF rest, some
  <2>3. Worth(some \cup rest) = Worth(some) + Worth(rest)
    BY <2>1, WorthUnion
  <2>4. Worth(Before) \in Nat /\ Worth(rest) \in Nat
    BY <2>1, WorthType
  <2>5. Worth(claimed) = Worth(Before) + Worth(RolledUp) + Worth(rest)
    BY <2>1, <2>2, <2>3
  <2>6. Stored.total <= Worth(Before)
    BY DEF StoredIsPaid
  <2> QED BY <1>1, <2>4, <2>5, <2>6
<1>6. known \subseteq Spenders
  BY <1>4, SpendersPaid DEF StoredIsPaid
<1>7. Spend(Spenders) = Worth(claimed) /\ Worth(claimed) \in Nat
  BY <1>4, SpendersPaid, WorthType
<1>8. /\ DayRevenue(TRUE) = paid /\ DayRevenue(FALSE) = day.total
      /\ DistinctPayers(TRUE) = known /\ DistinctPayers(FALSE) = day.members
  BY <1>2, <1>3 DEF DayRevenue, DistinctPayers
<1> HIDE DEF paid, known
<1>9. \A today \in BOOLEAN :
        DayRevenue(today) <= Spend(Spenders) /\ DistinctPayers(today) \subseteq Spenders
  <2>1. DayRevenue(TRUE) <= Spend(Spenders) /\ DistinctPayers(TRUE) \subseteq Spenders
    BY <1>5, <1>6, <1>7, <1>8
  <2>2. DayRevenue(FALSE) <= Spend(Spenders) /\ DistinctPayers(FALSE) \subseteq Spenders
    <3>1. day.total <= Worth(claimed)
      <4>1. /\ day.total \in Int /\ paid \in Nat /\ Worth(claimed) \in Nat
            /\ day.total <= paid /\ paid <= Worth(claimed)
        BY <1>1, <1>2, <1>5, <1>7
      <4> QED BY ONLY <4>1
    <3>2. day.members \subseteq Spenders
      BY <1>3, <1>6
    <3> QED BY <1>7, <1>8, <3>1, <3>2
  <2>3. ASSUME NEW today \in BOOLEAN
        PROVE  DayRevenue(today) <= Spend(Spenders) /\ DistinctPayers(today) \subseteq Spenders
    <3>1. CASE today = TRUE
      BY <2>1, <3>1, Zenon
    <3>2. CASE today = FALSE
      BY <2>2, <3>2, Zenon
    <3> QED BY <3>1, <3>2
  <2> QED BY <2>3
<1> QED BY <1>8, <1>9 DEF paid, known

-----------------------------------------------------------------------------
(* The package and coverage tables, of what is flushed.                    *)

\* The cells of what Postgres holds when Redis is lost add up to its day total.
StoredAddsUp ==
    /\ \A c \in DOMAIN Stored.cells : Stored.cells[c].cnt \in Nat /\ Stored.cells[c].rev \in Nat
    /\ MapThenSumSet(LAMBDA c : Stored.cells[c].rev, DOMAIN Stored.cells) = Stored.total

StoredFold(f) ==
    f = [T \in SUBSET DOMAIN Stored.cells |->
           IF T = {} THEN 0
           ELSE Stored.cells[CHOOSE c \in T : TRUE].rev + f[T \ {CHOOSE c \in T : TRUE}]]

LEMMA StoredIsSum ==
    ASSUME StoredAddsUp, NEW w, \A c \in DOMAIN Stored.cells : w[c] = Stored.cells[c].rev
    PROVE  SumOf(w, DOMAIN Stored.cells) = Stored.total
<1> DEFINE S == DOMAIN Stored.cells
           v == [T \in SUBSET S |-> Stored.cells[CHOOSE c \in T : TRUE].rev]
<1>1. IsFiniteSet(S) /\ \A c \in S : w[c] \in Nat
  BY ConstantsAssumption DEF StoredAddsUp
<1>2. \A T \in SUBSET S : T # {} => v[T] = w[CHOOSE c \in T : TRUE]
  OBVIOUS
<1>3. \A f : StoredFold(f) <=> RecFold(f, v, S)
  BY DEF StoredFold, RecFold
<1> HIDE DEF v
<1>4. (\E f : RecFold(f, v, S)) /\ \A f : RecFold(f, v, S) => f[S] = SumOf(w, S)
  <2> HIDE DEF S
  <2> QED BY ONLY <1>1, <1>2, RecIsSum
<1>5. ASSUME \E f : StoredFold(f) PROVE \E f : StoredFold(f) /\ Stored.total = f[S]
  <2>1. \E f : Stored.total = f[S] /\ f = CHOOSE h : StoredFold(h)
    BY DEF StoredAddsUp, MapThenSumSet, MapThenFoldSet, StoredFold
  <2> QED BY <1>5, <2>1
<1>6. PICK f : StoredFold(f) /\ Stored.total = f[S]
  BY <1>3, <1>4, <1>5
<1> QED BY <1>3, <1>4, <1>6

ValueCells(v) == {c \in DOMAIN day.cells : c[2] = v}
PackageFold(f, v, measure) ==
    f = [T \in SUBSET ValueCells(v) |->
           IF T = {} THEN 0
           ELSE day.cells[CHOOSE c \in T : TRUE][measure] + f[T \ {CHOOSE c \in T : TRUE}]]

LEMMA PackageIsSum ==
    ASSUME NEW x, NEW measure, IsFiniteSet(ValueCells(x)),
           NEW w, \A c \in ValueCells(x) : w[c] = day.cells[c][measure] /\ w[c] \in Nat
    PROVE  PackageByValue(x, measure) = SumOf(w, ValueCells(x))
<1> DEFINE S == ValueCells(x)
           v == [T \in SUBSET S |-> day.cells[CHOOSE c \in T : TRUE][measure]]
<1>1. IsFiniteSet(S) /\ \A c \in S : w[c] \in Nat
  OBVIOUS
<1>2. \A T \in SUBSET S : T # {} => v[T] = w[CHOOSE c \in T : TRUE]
  OBVIOUS
<1>3. \A f : PackageFold(f, x, measure) <=> RecFold(f, v, S)
  BY DEF PackageFold, RecFold
<1> HIDE DEF v
<1>4. (\E f : RecFold(f, v, S)) /\ \A f : RecFold(f, v, S) => f[S] = SumOf(w, S)
  <2> HIDE DEF S
  <2> QED BY ONLY <1>1, <1>2, RecIsSum
<1>5. ASSUME \E f : PackageFold(f, x, measure)
      PROVE  \E f : PackageFold(f, x, measure) /\ PackageByValue(x, measure) = f[S]
  <2>1. \E f : PackageByValue(x, measure) = f[S] /\ f = CHOOSE h : PackageFold(h, x, measure)
    BY DEF PackageByValue, MapThenSumSet, MapThenFoldSet, PackageFold, ValueCells
  <2> QED BY <1>5, <2>1
<1>6. PICK f : PackageFold(f, x, measure) /\ PackageByValue(x, measure) = f[S]
  BY <1>3, <1>4, <1>5
<1> QED BY <1>3, <1>4, <1>6

CoverageFold(f) ==
    f = [T \in SUBSET ClientValues |->
           IF T = {} THEN 0
           ELSE PackageByValue(CHOOSE v \in T : TRUE, "rev") + f[T \ {CHOOSE v \in T : TRUE}]]

LEMMA CoverageIsSum ==
    ASSUME IsFiniteSet(ClientValues),
           NEW w, \A x \in ClientValues : w[x] = PackageByValue(x, "rev") /\ w[x] \in Nat
    PROVE  Coverage.total = SumOf(w, ClientValues)
<1> DEFINE v == [T \in SUBSET ClientValues |-> PackageByValue(CHOOSE x \in T : TRUE, "rev")]
<1>2. \A T \in SUBSET ClientValues : T # {} => v[T] = w[CHOOSE x \in T : TRUE]
  OBVIOUS
<1>3. \A f : CoverageFold(f) <=> RecFold(f, v, ClientValues)
  BY DEF CoverageFold, RecFold
<1> HIDE DEF v
<1>4. (\E f : RecFold(f, v, ClientValues))
      /\ \A f : RecFold(f, v, ClientValues) => f[ClientValues] = SumOf(w, ClientValues)
  BY <1>2, RecIsSum
<1>5. ASSUME \E f : CoverageFold(f)
      PROVE  \E f : CoverageFold(f) /\ Coverage.total = f[ClientValues]
  <2>1. \E f : Coverage.total = f[ClientValues] /\ f = CHOOSE h : CoverageFold(h)
    BY DEF Coverage, MapThenSumSet, MapThenFoldSet, CoverageFold
  <2> QED BY <1>5, <2>1
<1>6. PICK f : CoverageFold(f) /\ Coverage.total = f[ClientValues]
  BY <1>3, <1>4, <1>5
<1> QED BY <1>3, <1>4, <1>6

\* The purchases accounted under a client value, over the tiers.
OfValue(v) == MapThenSumSet(LAMBDA x : Accounted(<<x, v>>).cnt, Tiers)
TierFold(f, v) ==
    f = [T \in SUBSET Tiers |->
           IF T = {} THEN 0
           ELSE Accounted(<<CHOOSE x \in T : TRUE, v>>).cnt + f[T \ {CHOOSE x \in T : TRUE}]]

LEMMA TiersFinite == IsFiniteSet(Tiers)
<1>1. IsFiniteSet({"first"}) /\ IsFiniteSet({"minnow"}) /\ IsFiniteSet({"dolphin"})
      /\ IsFiniteSet({"whale"}) /\ IsFiniteSet({"indeterminate"})
  BY FS_Singleton
<1>2. IsFiniteSet({"first"} \cup {"minnow"}) /\ IsFiniteSet({"dolphin"} \cup {"whale"})
  BY <1>1, FS_Union
<1>3. IsFiniteSet(({"first"} \cup {"minnow"}) \cup ({"dolphin"} \cup {"whale"}))
  BY <1>2, FS_Union
<1>4. IsFiniteSet((({"first"} \cup {"minnow"}) \cup ({"dolphin"} \cup {"whale"})) \cup {"indeterminate"})
  BY <1>1, <1>3, FS_Union
<1>5. Tiers = (({"first"} \cup {"minnow"}) \cup ({"dolphin"} \cup {"whale"})) \cup {"indeterminate"}
  BY DEF Tiers
<1> QED BY <1>4, <1>5

LEMMA OfValueIsSum ==
    ASSUME NEW v, NEW w, \A x \in Tiers : w[x] = Accounted(<<x, v>>).cnt /\ w[x] \in Nat
    PROVE  OfValue(v) = SumOf(w, Tiers)
<1> DEFINE a == [T \in SUBSET Tiers |-> Accounted(<<CHOOSE x \in T : TRUE, v>>).cnt]
<1>2. \A T \in SUBSET Tiers : T # {} => a[T] = w[CHOOSE x \in T : TRUE]
  OBVIOUS
<1>3. \A f : TierFold(f, v) <=> RecFold(f, a, Tiers)
  BY DEF TierFold, RecFold
<1> HIDE DEF a
<1>4. (\E f : RecFold(f, a, Tiers)) /\ \A f : RecFold(f, a, Tiers) => f[Tiers] = SumOf(w, Tiers)
  BY <1>2, TiersFinite, RecIsSum
<1>5. ASSUME \E f : TierFold(f, v) PROVE \E f : TierFold(f, v) /\ OfValue(v) = f[Tiers]
  <2>1. \E f : OfValue(v) = f[Tiers] /\ f = CHOOSE h : TierFold(h, v)
    BY DEF OfValue, MapThenSumSet, MapThenFoldSet, TierFold
  <2> QED BY <1>5, <2>1
<1>6. PICK f : TierFold(f, v) /\ OfValue(v) = f[Tiers]
  BY <1>3, <1>4, <1>5
<1> QED BY <1>3, <1>4, <1>6

LEMMA CellsFinite ==
    ASSUME IsFiniteSet(Values)
    PROVE  IsFiniteSet(ClientValues) /\ IsFiniteSet(Cells)
<1>1. IsFiniteSet({"unknown"}) /\ IsFiniteSet({"other"})
  BY FS_Singleton
<1>2. IsFiniteSet({"unknown"} \cup {"other"})
  BY <1>1, FS_Union
<1>3. IsFiniteSet(Values \cup ({"unknown"} \cup {"other"}))
  BY <1>2, FS_Union
<1>4. ClientValues = Values \cup ({"unknown"} \cup {"other"})
  BY DEF ClientValues
<1>5. IsFiniteSet(ClientValues)
  BY <1>3, <1>4
<1>6. IsFiniteSet(Tiers \X ClientValues)
  BY <1>5, TiersFinite, FS_Product
<1> QED BY <1>5, <1>6 DEF Cells

\* The money in the cells is all that was rolled up.
LEMMA PlacedIsPaid ==
    ASSUME IInv, CellInv, PageInv, IsFiniteSet(Cells),
           NEW b, \A c \in Cells : b[c] = Worth(InCell(c))
    PROVE  SumOf(b, Cells) = Worth(RolledUp)
<1> DEFINE w == [t \in RolledUp |-> Normalized(t)]
           g == [t \in RolledUp |-> place[t]]
           Class(c) == {t \in RolledUp : g[t] = c}
           by == [c \in Cells |-> SumOf(w, Class(c))]
<1>1. RolledUp \in SUBSET Transactions /\ IsFiniteSet(RolledUp)
  BY TotalFacts
<1>2. \A t \in RolledUp : w[t] \in Nat /\ w[t] = Normalized(t) /\ g[t] \in Cells
  BY <1>1, NormalizedType DEF PageInv, CellsPlaced
<1>3. \A c \in Cells : b[c] = by[c]
  <2> TAKE c \in Cells
  <2>1. InCell(c) \in SUBSET Transactions /\ IsFiniteSet(InCell(c)) /\ InCell(c) \subseteq RolledUp
    BY InCellFacts
  <2>2. Class(c) = InCell(c)
    BY <1>1, <2>1 DEF InCell
  <2> HIDE DEF w, Class
  <2>3. Worth(InCell(c)) = SumOf(w, InCell(c))
    BY <1>2, <2>1, WorthIsSum
  <2> QED BY <2>2, <2>3
<1>4. SumOf(by, Cells) = SumOf(w, RolledUp)
  <2> HIDE DEF w, g
  <2>1. by = [c \in Cells |-> SumOf(w, {t \in RolledUp : g[t] = c})]
    OBVIOUS
  <2>2. IsFiniteSet(RolledUp) /\ IsFiniteSet(Cells) /\ \A t \in RolledUp : w[t] \in Nat /\ g[t] \in Cells
    BY <1>1, <1>2
  <2> QED BY ONLY <2>1, <2>2, SumOfClasses
<1>5. SumOf(w, RolledUp) = Worth(RolledUp)
  <2> HIDE DEF w
  <2> QED BY <1>1, <1>2, WorthIsSum
<1>6. SumOf(b, Cells) = SumOf(by, Cells)
  <2> HIDE DEF by
  <2> QED BY <1>3, SumSame
<1> QED BY <1>4, <1>5, <1>6

\* What the cells of a value add up to in Postgres is the sum over the tiers.
LEMMA ByValue ==
    ASSUME DOMAIN day.cells \subseteq Cells, IsFiniteSet(Cells), NEW measure,
           NEW w, \A c \in Cells : w[c] \in Nat,
           \A c \in DOMAIN day.cells : w[c] = day.cells[c][measure],
           \A c \in Cells \ DOMAIN day.cells : w[c] = 0,
           NEW v \in ClientValues
    PROVE  PackageByValue(v, measure) = SumOf(w, {c \in Cells : c[2] = v})
<1> DEFINE S == {c \in Cells : c[2] = v}
           D == ValueCells(v)
<1>1. IsFiniteSet(S) /\ \A c \in S : w[c] \in Nat
  BY FS_Subset
<1>2. D \in SUBSET S /\ \A c \in S \ D : w[c] = 0
  BY DEF ValueCells
<1>3. IsFiniteSet(D) /\ \A c \in D : w[c] = day.cells[c][measure] /\ w[c] \in Nat
  <2>1. IsFiniteSet(D)
    BY <1>1, <1>2, FS_Subset
  <2>2. \A c \in D : c \in DOMAIN day.cells /\ c \in Cells
    BY DEF ValueCells
  <2> QED BY <2>1, <2>2
<1> HIDE DEF S, D
<1>4. SumOf(w, S) = SumOf(w, D)
  BY ONLY <1>1, <1>2, SumDrops
<1>5. PackageByValue(v, measure) = SumOf(w, D)
  BY <1>3, PackageIsSum DEF D
<1> QED BY <1>4, <1>5 DEF S

\* By the tiers of a value.
LEMMA ByTier ==
    ASSUME IsFiniteSet(Cells), NEW w, \A c \in Cells : w[c] \in Nat, NEW v \in ClientValues,
           NEW u, \A x \in Tiers : u[x] = w[<<x, v>>]
    PROVE  SumOf(u, Tiers) = SumOf(w, {c \in Cells : c[2] = v})
<1> DEFINE S == {c \in Cells : c[2] = v}
           g == [c \in S |-> c[1]]
           Class(x) == {c \in S : g[c] = x}
           by == [x \in Tiers |-> SumOf(w, Class(x))]
<1>1. IsFiniteSet(S) /\ \A c \in S : w[c] \in Nat /\ g[c] \in Tiers
  BY FS_Subset DEF Cells
<1>2. \A x \in Tiers : u[x] = by[x]
  <2> TAKE x \in Tiers
  <2>1. Class(x) = {<<x, v>>}
    BY DEF Cells
  <2>2. w[<<x, v>>] \in Nat
    BY DEF Cells
  <2>3. SumOf(w, {<<x, v>>}) = w[<<x, v>>]
    BY <2>2, SumOne
  <2> HIDE DEF Class
  <2> QED BY <2>1, <2>3
<1>3. SumOf(by, Tiers) = SumOf(w, S)
  <2> HIDE DEF S, g
  <2>1. by = [x \in Tiers |-> SumOf(w, {c \in S : g[c] = x})]
    OBVIOUS
  <2>2. IsFiniteSet(S) /\ IsFiniteSet(Tiers) /\ \A c \in S : w[c] \in Nat /\ g[c] \in Tiers
    BY <1>1, TiersFinite
  <2> QED BY ONLY <2>1, <2>2, SumOfClasses
<1>4. SumOf(u, Tiers) = SumOf(by, Tiers)
  <2> HIDE DEF by
  <2> QED BY <1>2, SumSame
<1> QED BY <1>3, <1>4

\* What Postgres holds in its cells, once everything is flushed.
LEMMA FlushedCells ==
    ASSUME StoredAddsUp, IInv, CellInv, PageInv,
           \A c \in Cells : At(day.cells, c) = Accounted(c)
    PROVE  /\ DOMAIN day.cells \subseteq Cells
           /\ \A c \in Cells : /\ At(day.cells, c).cnt = Accounted(c).cnt /\ Accounted(c).cnt \in Nat
                               /\ At(day.cells, c).rev = At(Stored.cells, c).rev + Worth(InCell(c))
                               /\ At(Stored.cells, c).rev \in Nat /\ Worth(InCell(c)) \in Nat
<1>1. DOMAIN day.cells \subseteq Cells
  <2>1. DOMAIN Stored.cells \subseteq Cells
    BY ConstantsAssumption DEF IsDay, IsTable
  <2> QED BY <2>1 DEF CellInv, DaysKnown, DayKnown, PageInv, CellsPlaced
<1>2. ASSUME NEW c \in Cells
      PROVE  /\ At(day.cells, c).cnt = Accounted(c).cnt /\ Accounted(c).cnt \in Nat
             /\ At(day.cells, c).rev = At(Stored.cells, c).rev + Worth(InCell(c))
             /\ At(Stored.cells, c).rev \in Nat /\ Worth(InCell(c)) \in Nat
  <2>1. At(Stored.cells, c).cnt \in Nat /\ At(Stored.cells, c).rev \in Nat
    BY DEF At, StoredAddsUp
  <2>2. Cardinality(InCell(c)) \in Nat /\ Worth(InCell(c)) \in Nat
    BY InCellFacts
  <2>3. /\ Accounted(c).cnt = At(Stored.cells, c).cnt + Cardinality(InCell(c))
        /\ Accounted(c).rev = At(Stored.cells, c).rev + Worth(InCell(c))
    BY DEF Accounted
  <2>4. At(day.cells, c) = Accounted(c)
    OBVIOUS
  <2> QED BY <2>1, <2>2, <2>3, <2>4
<1> QED BY <1>1, <1>2

LEMMA PackagePages ==
    ASSUME StoredAddsUp, IsFiniteSet(Values), IInv, CellInv, PageInv,
           \A c \in Cells : At(day.cells, c) = Accounted(c),
           NEW v \in ClientValues
    PROVE  PackageByValue(v, "cnt") = OfValue(v)
<1> DEFINE w == [c \in Cells |-> At(day.cells, c).cnt]
           u == [x \in Tiers |-> w[<<x, v>>]]
<1>1. IsFiniteSet(Cells) /\ DOMAIN day.cells \subseteq Cells
  BY CellsFinite, FlushedCells
<1>2. \A c \in Cells : w[c] = Accounted(c).cnt /\ w[c] \in Nat
  BY FlushedCells
<1>3. /\ \A c \in DOMAIN day.cells : w[c] = day.cells[c]["cnt"]
      /\ \A c \in Cells \ DOMAIN day.cells : w[c] = 0
  BY <1>1 DEF At
<1>4. \A x \in Tiers : u[x] = w[<<x, v>>] /\ <<x, v>> \in Cells
  BY DEF Cells
<1> HIDE DEF w, u
<1>5. PackageByValue(v, "cnt") = SumOf(w, {c \in Cells : c[2] = v})
  BY <1>1, <1>2, <1>3, ByValue
<1>6. SumOf(u, Tiers) = SumOf(w, {c \in Cells : c[2] = v})
  BY <1>1, <1>2, <1>4, ByTier
<1>7. OfValue(v) = SumOf(u, Tiers)
  <2>1. \A x \in Tiers : u[x] = Accounted(<<x, v>>).cnt /\ u[x] \in Nat
    BY <1>2, <1>4
  <2> QED BY <2>1, OfValueIsSum
<1> QED BY <1>5, <1>6, <1>7

LEMMA CoveragePage ==
    ASSUME StoredAddsUp, IsFiniteSet(Values), IInv, CellInv, PageInv,
           \A c \in Cells : At(day.cells, c) = Accounted(c)
    PROVE  Coverage.total = Stored.total + Worth(RolledUp)
<1> DEFINE w == [c \in Cells |-> At(day.cells, c).rev]
           a == [c \in Cells |-> At(Stored.cells, c).rev]
           b == [c \in Cells |-> Worth(InCell(c))]
           g == [c \in Cells |-> c[2]]
           by == [v \in ClientValues |-> SumOf(w, {c \in Cells : g[c] = v})]
<1>1. IsFiniteSet(Cells) /\ IsFiniteSet(ClientValues) /\ DOMAIN day.cells \subseteq Cells
  BY CellsFinite, FlushedCells
<1>2. \A c \in Cells : a[c] \in Nat /\ b[c] \in Nat /\ w[c] = a[c] + b[c]
  BY FlushedCells
<1>3. /\ \A c \in DOMAIN day.cells : w[c] = day.cells[c]["rev"]
      /\ \A c \in Cells \ DOMAIN day.cells : w[c] = 0
  BY <1>1 DEF At
<1>4. \A c \in Cells : g[c] = c[2] /\ g[c] \in ClientValues
  BY DEF Cells
<1>5. /\ DOMAIN Stored.cells \in SUBSET Cells
      /\ \A c \in DOMAIN Stored.cells : a[c] = Stored.cells[c].rev
      /\ \A c \in Cells \ DOMAIN Stored.cells : a[c] = 0
  <2>1. DOMAIN Stored.cells \in SUBSET Cells
    BY ConstantsAssumption DEF IsDay, IsTable
  <2> QED BY <2>1 DEF At
<1>6. \A c \in Cells : b[c] = Worth(InCell(c))
  OBVIOUS
<1> HIDE DEF w, a, b, g
<1>7. SumOf(w, Cells) = SumOf(a, Cells) + SumOf(b, Cells)
  BY ONLY <1>1, <1>2, SumPlus
<1>8. SumOf(a, Cells) = SumOf(a, DOMAIN Stored.cells)
  BY <1>1, <1>2, <1>5, SumDrops
<1>9. SumOf(a, DOMAIN Stored.cells) = Stored.total
  BY <1>5, StoredIsSum
<1>10. SumOf(b, Cells) = Worth(RolledUp)
  BY <1>1, <1>6, PlacedIsPaid
<1>11. SumOf(by, ClientValues) = SumOf(w, Cells)
  <2>1. IsFiniteSet(Cells) /\ IsFiniteSet(ClientValues) /\ \A c \in Cells : w[c] \in Nat /\ g[c] \in ClientValues
    BY <1>1, <1>2, <1>4
  <2> QED BY ONLY <2>1, SumOfClasses
<1>12. ASSUME NEW v \in ClientValues
       PROVE  by[v] = PackageByValue(v, "rev") /\ by[v] \in Nat
  <2>1. {c \in Cells : g[c] = v} = {c \in Cells : c[2] = v}
    BY <1>4
  <2>2. PackageByValue(v, "rev") = SumOf(w, {c \in Cells : c[2] = v})
    BY <1>1, <1>2, <1>3, ByValue
  <2>3. by[v] = SumOf(w, {c \in Cells : g[c] = v})
    OBVIOUS
  <2>4. SumOf(w, {c \in Cells : g[c] = v}) \in Nat
    <3>1. PICK R \in SUBSET Cells : R = {c \in Cells : g[c] = v}
      OBVIOUS
    <3>2. IsFiniteSet(R) /\ \A c \in R : w[c] \in Nat
      BY <1>1, <1>2, FS_Subset
    <3>3. SumOf(w, R) \in Nat
      BY <3>2, SumType
    <3> QED BY <3>1, <3>3
  <2> QED BY <2>1, <2>2, <2>3, <2>4
<1>13. Coverage.total = SumOf(by, ClientValues)
  <2> HIDE DEF by
  <2> QED BY <1>1, <1>12, CoverageIsSum
<1> QED BY <1>7, <1>8, <1>9, <1>10, <1>11, <1>13

-----------------------------------------------------------------------------
(* The whale table: the top payers pay at least their part.                *)

\* Induction on the numbers, for a set of them.
LEMMA UpFromZero ==
    ASSUME NEW Good, 0 \in Good, \A k \in Nat : k \in Good => k + 1 \in Good
    PROVE  Nat \subseteq Good
<1> DEFINE Bad == {k \in Nat : k \notin Good}
           Below == {p \in Nat \X Nat : p[1] < p[2]}
<1>1. ASSUME Bad # {} PROVE FALSE
  <2>1. IsWellFoundedOn(Below, Nat) /\ Bad \subseteq Nat
    BY NatLessThanWellFounded DEF OpToRel
  <2>2. PICK k \in Bad : \A j \in Bad : ~(<<j, k>> \in Below)
    <3> HIDE DEF Below, Bad
    <3> QED BY <1>1, <2>1, WFMin
  <2>3. k \in Nat /\ k - 1 \in Nat
    BY <2>2
  <2>4. <<k - 1, k>> \in Below
    BY <2>3
  <2>5. k - 1 \in Good
    BY <2>2, <2>3, <2>4
  <2>6. (k - 1) + 1 \in Good
    BY <2>3, <2>5
  <2>7. (k - 1) + 1 = k
    BY <2>3
  <2> QED BY <2>2, <2>6, <2>7
<1> QED BY <1>1

\* Somebody of a finite set has spent most of it.
LEMMA Richest ==
    ASSUME NEW S, IsFiniteSet(S), S # {}, NEW w, \A x \in S : w[x] \in Nat
    PROVE  \E m \in S : \A x \in S : w[m] >= w[x]
<1> DEFINE g == [x \in S |-> w[x]]
           V == {w[x] : x \in S}
<1>1. g \in [S -> Nat]
  OBVIOUS
<1>2. PICK b \in Nat : \A x \in S : g[x] <= b
  BY <1>1, Bounded
<1>3. V \subseteq 0 .. b /\ V # {}
  BY <1>2
<1>4. Max(V) \in V /\ \A s \in V : Max(V) >= s
  <2> HIDE DEF V
  <2> QED BY <1>3, Greatest
<1> QED BY <1>4

LEMMA TopExists ==
    ASSUME NEW S, IsFiniteSet(S), NEW w, \A x \in S : w[x] \in Nat,
           NEW n \in Nat, n <= Cardinality(S)
    PROVE  \E us \in SUBSET S : Cardinality(us) = n /\ \A x \in us, y \in S \ us : w[x] >= w[y]
<1> DEFINE Top(us) == \A x \in us, y \in S \ us : w[x] >= w[y]
           Good == {k \in Nat : k <= Cardinality(S) => \E us \in SUBSET S : Cardinality(us) = k /\ Top(us)}
<1>0. Cardinality(S) \in Nat
  BY FS_CardinalityType
<1>1. 0 \in Good
  <2>1. {} \in SUBSET S /\ Cardinality({}) = 0 /\ Top({})
    BY FS_EmptySet
  <2> QED BY <2>1
<1>2. ASSUME NEW k \in Nat, k \in Good PROVE k + 1 \in Good
  <2>1. ASSUME k + 1 <= Cardinality(S)
        PROVE  \E us \in SUBSET S : Cardinality(us) = k + 1 /\ Top(us)
    <3>1. k <= Cardinality(S)
      BY <1>0, <2>1
    <3>2. PICK us \in SUBSET S : Cardinality(us) = k /\ Top(us)
      BY <1>2, <3>1
    <3>3. us # S
      BY <1>0, <2>1, <3>2
    <3>4. PICK R : R = S \ us
      OBVIOUS
    <3>5. IsFiniteSet(us) /\ IsFiniteSet(R) /\ R # {} /\ \A x \in R : w[x] \in Nat
      BY <3>3, <3>4, FS_Subset
    <3>6. PICK m \in R : \A x \in R : w[m] >= w[x]
      BY <3>5, Richest
    <3>7. us \cup {m} \in SUBSET S /\ Top(us \cup {m})
      BY <3>2, <3>4, <3>6
    <3>8. Cardinality(us \cup {m}) = k + 1
      BY <3>2, <3>4, <3>5, <3>6, FS_AddElement
    <3> QED BY <3>7, <3>8
  <2> QED BY <2>1
<1>3. n \in Good
  <2> HIDE DEF Good
  <2> QED BY <1>1, <1>2, UpFromZero
<1> QED BY <1>3

LEMMA Scale ==
    ASSUME NEW a \in Nat, NEW b \in Nat, NEW c \in Nat, a <= b
    PROVE  c * a <= c * b /\ c * a \in Nat /\ c * b \in Nat
<1>1. PICK d \in Nat : b = a + d
  <2>1. b - a \in Nat /\ b = a + (b - a)
    OBVIOUS
  <2> QED BY <2>1
<1>2. c * (a + d) = c * a + c * d /\ c * d \in Nat /\ c * a \in Nat
  OBVIOUS
<1> QED BY <1>1, <1>2

LEMMA TopShare ==
    ASSUME NEW S, IsFiniteSet(S), NEW w, \A x \in S : w[x] \in Nat,
           NEW us \in SUBSET S, \A x \in us, y \in S \ us : w[x] >= w[y],
           NEW p \in 1 .. 100, p * Cardinality(S) <= 100 * Cardinality(us)
    PROVE  p * SumOf(w, S) <= 100 * SumOf(w, us)
<1>1. PICK rest : rest = S \ us
  OBVIOUS
<1>2. /\ IsFiniteSet(us) /\ IsFiniteSet(rest) /\ us \cap rest = {} /\ us \cup rest = S
      /\ \A x \in us : w[x] \in Nat
      /\ \A x \in rest : w[x] \in Nat
  BY <1>1, FS_Subset
<1>3. SumOf(w, us \cup rest) = SumOf(w, us) + SumOf(w, rest)
  BY <1>2, SumUnion
<1>4. PICK A \in Nat, B \in Nat : A = SumOf(w, us) /\ B = SumOf(w, rest)
  BY <1>2, SumType
<1>5. SumOf(w, S) = A + B
  BY <1>2, <1>3, <1>4
<1>6. CASE rest = {}
  <2>1. B = 0
    BY <1>4, <1>6, SumEmpty
  <2>2. A * p <= A * 100
    BY Scale
  <2> QED BY <1>4, <1>5, <2>1, <2>2
<1>7. CASE rest # {}
  <2>1. PICK top \in rest : \A x \in rest : w[top] >= w[x]
    BY <1>2, <1>7, Richest
  <2>2. PICK m \in Nat : m = w[top]
    BY <1>2, <2>1
  <2>3. \A x \in us : w[x] \in Nat /\ w[x] >= m
    BY <1>1, <1>2, <2>1, <2>2
  <2>4. \A x \in rest : w[x] \in Nat /\ w[x] <= m
    BY <1>2, <2>1, <2>2
  <2>5. PICK k \in Nat, l \in Nat : k = Cardinality(us) /\ l = Cardinality(rest)
    BY <1>2, FS_CardinalityType
  <2>6. Cardinality(S) = k + l
    <3>1. Cardinality(us \cup rest) = Cardinality(us) + Cardinality(rest) - Cardinality({})
      BY <1>2, FS_Union
    <3>2. Cardinality({}) = 0
      BY FS_EmptySet
    <3>3. us \cup rest = S
      BY <1>2
    <3>4. Cardinality(S) = k + l - 0
      BY <2>5, <3>1, <3>2, <3>3
    <3> QED BY <3>4
  <2>7. A >= k * m
    BY <1>2, <1>4, <2>3, <2>5, SumAbove
  <2>8. B <= l * m
    BY <1>2, <1>4, <2>4, <2>5, SumBelow
  <2>9. PICK q \in Nat : q = 100 - p
    OBVIOUS
  <2>10. p * l <= q * k
    <3>1. p * (k + l) <= 100 * k
      BY <2>5, <2>6
    <3>2. p * (k + l) = p * k + p * l /\ q * k = 100 * k - p * k
      BY <2>9
    <3>3. p * k \in Nat /\ p * l \in Nat
      OBVIOUS
    <3> QED BY <3>1, <3>2, <3>3
  <2>11. PICK x \in Nat, y \in Nat : x = k * m /\ y = l * m
    OBVIOUS
  <2>12. p * B <= p * y
    BY <2>8, <2>11, Scale
  <2>13. q * x <= q * A
    BY <2>7, <2>11, Scale
  <2>14. p * y <= q * x
    <3>1. PICK c \in Nat, d \in Nat : c = p * l /\ d = q * k
      OBVIOUS
    <3>2. m * c <= m * d
      BY <2>10, <3>1, Scale
    <3>3. p * y = m * c
      BY <2>11, <3>1
    <3>4. q * x = m * d
      BY <2>11, <3>1
    <3> QED BY <3>2, <3>3, <3>4
  <2>15. p * B <= q * A
    <3>1. p * B \in Int /\ p * y \in Int /\ q * x \in Int /\ q * A \in Int
      OBVIOUS
    <3> QED BY <2>12, <2>13, <2>14, <3>1
  <2>16. q * A = 100 * A - p * A /\ p * (A + B) = p * A + p * B
    BY <2>9
  <2>17. p * A \in Int /\ p * B \in Int /\ q * A \in Int
    OBVIOUS
  <2>18. p * (A + B) <= 100 * A
    BY <2>15, <2>16, <2>17
  <2> QED BY <1>4, <1>5, <2>18
<1> QED BY <1>6, <1>7

LEMMA WhalePages ==
    ASSUME IInv, LedgerInv, NEW p \in TopPercents
    PROVE  p * Spend(Spenders) <= 100 * Whales(p)
<1>1. /\ Spenders \in SUBSET Users /\ IsFiniteSet(Spenders) /\ period \in [Users -> Nat]
      /\ \A u \in Spenders : period[u] \in Nat
  BY SpendersPaid DEF LedgerInv
<1>2. p \in 1 .. 100
  BY PagesAssumption
<1>3. PICK n \in Nat : n = Cardinality(Spenders)
  BY <1>1, FS_CardinalityType
<1>4. TopOf(p) \in Nat /\ TopOf(p) <= n /\ p * n <= 100 * TopOf(p)
  <2>1. PICK x \in Nat : x = p * n
    BY <1>2
  <2>2. n * p <= n * 100
    BY <1>2, Scale
  <2>3. x <= 100 * n
    BY <1>2, <2>1, <2>2
  <2>4. TopOf(p) = (x + 99) \div 100
    BY <1>3, <2>1 DEF TopOf
  <2>5. (x + 99) \div 100 \in Nat /\ (x + 99) \div 100 <= n /\ x <= 100 * ((x + 99) \div 100)
    BY <2>3
  <2> QED BY <2>1, <2>4, <2>5
<1> DEFINE Chosen(us) == Cardinality(us) = TopOf(p) /\ IsTop(us)
           top == CHOOSE us \in SUBSET Spenders : Chosen(us)
<1>5. \E us \in SUBSET Spenders : Chosen(us)
  <2>1. \E us \in SUBSET Spenders :
           Cardinality(us) = TopOf(p) /\ \A x \in us, y \in Spenders \ us : period[x] >= period[y]
    BY <1>1, <1>3, <1>4, TopExists
  <2> QED BY <2>1 DEF IsTop
<1>6. top \in SUBSET Spenders /\ Chosen(top)
  BY <1>5
<1>7. Whales(p) = Spend(top)
  BY DEF Whales
<1> HIDE DEF top
<1>8. IsFiniteSet(top) /\ top \in SUBSET Users
  BY <1>1, <1>6, FS_Subset
<1>9. Spend(top) = SumOf(period, top) /\ Spend(Spenders) = SumOf(period, Spenders)
  BY <1>1, <1>8, SpendIsSum
<1>10. p * SumOf(period, Spenders) <= 100 * SumOf(period, top)
  <2>1. \A x \in top, y \in Spenders \ top : period[x] >= period[y]
    BY <1>6 DEF IsTop
  <2>2. p * Cardinality(Spenders) <= 100 * Cardinality(top)
    BY <1>3, <1>4, <1>6
  <2> QED BY <1>1, <1>2, <1>6, <2>1, <2>2, TopShare
<1> QED BY <1>7, <1>9, <1>10

\* What the pages show of a day, in every state the invariants allow.
LEMMA PagesAgree ==
    ASSUME StoredIsPaid, StoredAddsUp, IsFiniteSet(Values), IInv, LedgerInv, CellInv, FlushInv, PageInv
    PROVE  RevenuePagesAgree
<1> DEFINE paid == Stored.total + Worth(RolledUp)
           known == Stored.members \cup {UserOf[t] : t \in RolledUp}
<1>1. /\ DayRevenue(TRUE) = paid /\ DistinctPayers(TRUE) = known
      /\ \A today \in BOOLEAN :
           DayRevenue(today) <= Spend(Spenders) /\ DistinctPayers(today) \subseteq Spenders
  BY DayPages
<1>2. \A p \in TopPercents : p * Spend(Spenders) <= 100 * Whales(p)
  BY WhalePages
<1>3. ASSUME failures = 0, Quiet
      PROVE  /\ DayRevenue(FALSE) = paid /\ DistinctPayers(FALSE) = known
             /\ Coverage.total = paid
             /\ \A v \in ClientValues : PackageByValue(v, "cnt") = OfValue(v)
  <2>1. Converged
    BY FlushedIsAccounted
  <2>2. /\ \A c \in Cells : At(day.cells, c) = Accounted(c)
        /\ day.total = paid /\ day.members = known
    BY <1>3, <2>1 DEF Converged
  <2>3. DayRevenue(FALSE) = paid /\ DistinctPayers(FALSE) = known
    BY <2>2 DEF DayRevenue, DistinctPayers
  <2>4. Coverage.total = paid
    BY <2>2, CoveragePage
  <2>5. \A v \in ClientValues : PackageByValue(v, "cnt") = OfValue(v)
    BY <2>2, PackagePages
  <2> QED BY <2>3, <2>4, <2>5
<1> QED BY <1>1, <1>2, <1>3 DEF RevenuePagesAgree, OfValue

\* Whatever races or fails, today's page shows each purchase that was rolled up
\* once, and its payer; no page shows revenue or a payer the payer tables do not
\* have; the top payers have at least their part of the month; and once everything
\* is flushed and nothing failed, the pages of the day, of its packages and of its
\* coverage show the same without Redis (dayRevenue, whaleConcentration and
\* packageBreakdown of monetization-read.service.ts).
THEOREM RevenuePagesCorrect ==
    ASSUME OneContext, OneSweep, FloorCovers, StoredIsPaid, StoredAddsUp, IsFiniteSet(Values)
    PROVE  Spec => []RevenuePagesAgree
<1>1. IInv /\ CellInv /\ [Next]_vars => CellInv'
  BY NextCells
<1>2. IInv /\ CellInv /\ FlushInv /\ [Next]_vars => FlushInv'
  BY NextFlush
<1>3. IInv /\ CellInv /\ PageInv /\ [Next]_vars => PageInv'
  BY NextPage
<1>4. IInv /\ LedgerInv /\ CellInv /\ FlushInv /\ PageInv => RevenuePagesAgree
  BY PagesAgree
<1> QED
  BY <1>1, <1>2, <1>3, <1>4, Invariant, InitLedger, NextLedger, InitCells, InitFlush, InitPage, PTL DEF Spec

=============================================================================
