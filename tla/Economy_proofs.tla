---------------------------- MODULE Economy_proofs ----------------------------
(***************************************************************************)
(* Proofs that an older balance never replaces a newer one, in the hash of *)
(* a currency or in Postgres, whatever interleaves, is lost or is flushed  *)
(* twice, and that at rest Postgres holds the latest; that the two flow    *)
(* tables hold what was counted, and no more; and that a day page shows    *)
(* what was there when it was asked for.                                   *)
(***************************************************************************)
EXTENDS Economy, FiniteSetTheorems, TLAPS

USE EconomyAssumption

-----------------------------------------------------------------------------
(* The two places that decide between balances *)

LEMMA WinnerIsNewer ==
    ASSUME NEW new, NEW old, IncomingWins(new, old), new.asOf \in Nat, old.asOf \in Nat
    PROVE  new.asOf >= old.asOf
  BY DEF IncomingWins

(* The script leaves the other accounts alone and lets this one only rise. *)
LEMMA DecideRises ==
    ASSUME NEW r \in Records, Decide(r), \A a \in DOMAIN bal : bal[a].asOf \in Nat
    PROVE  /\ \A a \in DOMAIN bal' : bal'[a].asOf \in Nat
           /\ \A a \in DOMAIN bal : a \in DOMAIN bal' /\ bal'[a].asOf >= bal[a].asOf
<1> DEFINE known == Over(bal, found[r])
           acc == Account(r)
           wins == acc \in DOMAIN known => IncomingWins(Entry(r), known[acc])
<1>1. bal' = IF wins THEN Put(bal, acc, Entry(r)) ELSE bal
  BY DEF Decide
<1>2. Entry(r).asOf = AsOf[r] /\ AsOf[r] \in Nat
  BY DEF Entry
<1>3. CASE ~wins
  BY <1>1, <1>3
<1>4. CASE wins
  <2>1. bal' = Put(bal, acc, Entry(r))
    BY <1>1, <1>4
  <2>2. /\ DOMAIN bal' = DOMAIN bal \cup {acc}
        /\ bal'[acc] = Entry(r)
        /\ \A a \in DOMAIN bal : a # acc => bal'[a] = bal[a]
    BY <2>1 DEF Put
  <2>3. acc \in DOMAIN bal => acc \in DOMAIN known /\ known[acc] = bal[acc]
    BY DEF Over
  <2>4. acc \in DOMAIN bal => Entry(r).asOf >= bal[acc].asOf
    BY <1>2, <1>4, <2>3, WinnerIsNewer
  <2> QED
    BY <1>2, <2>2, <2>4
<1> QED
  BY <1>3, <1>4

(* The guard of the upsert. *)
LEMMA UpsertRises ==
    ASSUME NEW old, NEW new,
           \A a \in DOMAIN old : old[a].asOf \in Nat,
           \A a \in DOMAIN new : new[a].asOf \in Nat
    PROVE  LET row == MergedBalance(old, new) IN
           /\ \A a \in DOMAIN row : row[a].asOf \in Nat
           /\ \A a \in DOMAIN old : a \in DOMAIN row /\ row[a].asOf >= old[a].asOf
<1> DEFINE row == MergedBalance(old, new)
<1>1. /\ DOMAIN row = DOMAIN old \cup DOMAIN new
      /\ \A a \in DOMAIN old \cup DOMAIN new :
            row[a] = IF a \in DOMAIN old /\ (a \in DOMAIN new => new[a].asOf < old[a].asOf)
                     THEN old[a] ELSE new[a]
  BY DEF MergedBalance
<1> HIDE DEF row
<1>2. \A a \in DOMAIN row : row[a].asOf \in Nat
  BY <1>1
<1>3. \A a \in DOMAIN old : a \in DOMAIN row /\ row[a].asOf >= old[a].asOf
  BY <1>1
<1> QED
  BY <1>2, <1>3 DEF row

-----------------------------------------------------------------------------
(* What a sweep has in hand for a balance hash are balances. *)
InHand(w) ==
    w.key # None /\ w.key[1] # "eco" => \A a \in DOMAIN w.rows : w.rows[a].asOf \in Nat

BalanceInv ==
    /\ \A a \in DOMAIN bal : bal[a].asOf \in Nat
    /\ \A a \in DOMAIN balances : balances[a].asOf \in Nat
    /\ sweep = [s \in Sweeps |-> sweep[s]]
    /\ \A s \in Sweeps : InHand(sweep[s])

Newer ==
    /\ \A a \in DOMAIN balances : balances'[a].asOf >= balances[a].asOf
    /\ \A a \in DOMAIN bal \cap DOMAIN bal' : bal'[a].asOf >= bal[a].asOf

LEMMA BalanceInit == Init => BalanceInv
<1> SUFFICES ASSUME Init PROVE BalanceInv
  OBVIOUS
<1>1. bal = Empty /\ balances = StoredBalances /\ sweep = [s \in Sweeps |-> NoSweep]
  BY DEF Init
<1>2. InHand(NoSweep)
  BY DEF InHand, NoSweep
<1> QED
  BY <1>1, <1>2 DEF BalanceInv, Empty

LEMMA OneSweepMoves ==
    ASSUME BalanceInv, NEW s \in Sweeps, NEW w,
           sweep' = [sweep EXCEPT ![s] = w], InHand(w)
    PROVE  /\ sweep' = [t \in Sweeps |-> sweep'[t]]
           /\ \A t \in Sweeps : InHand(sweep'[t])
  BY DEF BalanceInv

LEMMA LeftInHand ==
    ASSUME NEW w, InHand(w)
    PROVE  InHand(Left(w))
<1>1. InHand(NoSweep)
  BY DEF InHand, NoSweep
<1> QED
  BY <1>1 DEF Left

LEMMA BalanceNext == BalanceInv /\ [Next]_vars => BalanceInv' /\ Newer
<1> SUFFICES ASSUME BalanceInv, [Next]_vars
             PROVE  BalanceInv' /\ Newer
  OBVIOUS
<1>0. /\ \A a \in DOMAIN bal : bal[a].asOf \in Nat
      /\ \A a \in DOMAIN balances : balances[a].asOf \in Nat
      /\ \A s \in Sweeps : InHand(sweep[s])
  BY DEF BalanceInv
<1>1. ASSUME UNCHANGED <<bal, balances, sweep>>
      PROVE  BalanceInv' /\ Newer
  BY <1>0, <1>1 DEF BalanceInv, Newer
<1>2. CASE UNCHANGED vars
  BY <1>1, <1>2 DEF vars, hot, durable
<1>3. ASSUME NEW r \in Records, Handle(r), ~Decide(r)
      PROVE  UNCHANGED <<bal, balances, sweep>>
  BY <1>3 DEF Handle, Begin, ReadFloor, Seed, Increment, Mark, Look, PointRead, MarkBalance,
              hot, durable
<1>4. ASSUME NEW r \in Records, Decide(r)
      PROVE  BalanceInv' /\ Newer
  <2>1. UNCHANGED <<balances, sweep>>
    BY <1>4 DEF Decide, durable
  <2> QED
    BY <1>0, <1>4, <2>1, DecideRises DEF BalanceInv, Newer
<1>5. CASE LoseRedis
  <2>1. bal' = Empty /\ UNCHANGED <<balances, sweep>>
    BY <1>5 DEF LoseRedis, durable
  <2> QED
    BY <1>0, <2>1 DEF BalanceInv, Newer, Empty
<1>6. ASSUME NEW s \in Sweeps, NEW w, sweep' = [sweep EXCEPT ![s] = w], InHand(w),
             UNCHANGED <<bal, balances>>
      PROVE  BalanceInv' /\ Newer
  BY <1>0, <1>6, OneSweepMoves DEF BalanceInv, Newer
<1>7. InHand(NoSweep) /\ InHand(Drained("eco")) /\ InHand(Drained("bal"))
  BY DEF InHand, NoSweep, Drained
<1>8. ASSUME NEW s \in Sweeps, DrainFlows(s) \/ DrainBalances(s) \/ SweepThrows(s)
      PROVE  BalanceInv' /\ Newer
  <2>1. CASE DrainFlows(s)
    BY <1>6, <1>7, <2>1 DEF DrainFlows, durable
  <2>2. CASE DrainBalances(s)
    <3>1. InHand(Left(Drained("bal")))
      BY <1>7, LeftInHand
    <3> QED
      BY <1>6, <2>2, <3>1 DEF DrainBalances, durable
  <2>3. CASE SweepThrows(s)
    BY <1>6, <1>7, <2>3 DEF SweepThrows, hot, durable
  <2> QED
    BY <1>8, <2>1, <2>2, <2>3
<1>9. ASSUME NEW s \in Sweeps, NEW k \in sweep[s].left, Read(s, k)
      PROVE  BalanceInv' /\ Newer
  <2>1. UNCHANGED <<bal, balances>>
    BY <1>9 DEF Read, durable
  <2>2. CASE IsSeeded(k)
    <3> DEFINE rows == IF k[1] = "eco" THEN FlowRows(eco[k[2]]) ELSE BalanceRows(k[2])
               w == Moved(sweep[s], sweep[s].left \ {k}, k, rows)
    <3>1. sweep' = [sweep EXCEPT ![s] = w]
      BY <1>9, <2>2 DEF Read
    <3>2. \A a \in DOMAIN BalanceRows(k[2]) : BalanceRows(k[2])[a].asOf \in Nat
      BY <1>0 DEF BalanceRows
    <3>3. w.key = k /\ w.rows = rows
      BY DEF Moved
    <3>4. InHand(w)
      BY <3>2, <3>3 DEF InHand
    <3> QED
      BY <1>6, <2>1, <3>1, <3>4
  <2>3. CASE ~IsSeeded(k)
    <3> DEFINE w == Moved(sweep[s], sweep[s].left \ {k}, None, Empty)
    <3>1. sweep' = [sweep EXCEPT ![s] = Left(w)]
      BY <1>9, <2>3 DEF Read
    <3>2. InHand(w)
      BY DEF InHand, Moved
    <3>3. InHand(Left(w))
      BY <3>2, LeftInHand
    <3> QED
      BY <1>6, <2>1, <3>1, <3>3
  <2> QED
    BY <2>2, <2>3
<1>10. ASSUME NEW s \in Sweeps, Write(s)
       PROVE  BalanceInv' /\ Newer
  <2> DEFINE w == Moved(sweep[s], sweep[s].left, None, Empty)
  <2>1. sweep' = [sweep EXCEPT ![s] = Left(w)] /\ UNCHANGED bal
    BY <1>10 DEF Write, hot
  <2>2. InHand(w)
    BY DEF InHand, Moved
  <2>3. InHand(Left(w))
    BY <2>2, LeftInHand
  <2>4. CASE sweep[s].key[1] = "eco"
    <3>1. UNCHANGED balances
      BY <1>10, <2>4 DEF Write
    <3> QED
      BY <1>6, <2>1, <2>3, <3>1
  <2>5. CASE sweep[s].key[1] # "eco"
    <3>1. balances' = MergedBalance(balances, sweep[s].rows) /\ sweep[s].key # None
      BY <1>10, <2>5 DEF Write
    <3>2. \A a \in DOMAIN sweep[s].rows : sweep[s].rows[a].asOf \in Nat
      BY <1>0, <2>5, <3>1 DEF InHand
    <3>3. /\ \A a \in DOMAIN balances' : balances'[a].asOf \in Nat
          /\ \A a \in DOMAIN balances : balances'[a].asOf >= balances[a].asOf
      BY <1>0, <3>1, <3>2, UpsertRises
    <3>4. /\ sweep' = [t \in Sweeps |-> sweep'[t]]
          /\ \A t \in Sweeps : InHand(sweep'[t])
      BY <2>1, <2>3, OneSweepMoves
    <3> QED
      BY <1>0, <2>1, <3>3, <3>4 DEF BalanceInv, Newer
  <2> QED
    BY <2>4, <2>5
<1>11. ASSUME NEW r \in Records, Throw(r)
       PROVE  BalanceInv' /\ Newer
  BY <1>1, <1>11 DEF Throw, hot, durable
<1>12. ASSUME (\E c \in Viewed : \E open \in BOOLEAN : ReadRows(c, open)) \/ MergeLive
       PROVE  BalanceInv' /\ Newer
  BY <1>1, <1>12 DEF ReadRows, MergeLive, hot, durable
<1> QED
  BY <1>1, <1>2, <1>3, <1>4, <1>5, <1>8, <1>9, <1>10, <1>11, <1>12 DEF Next, Flush

\* Whatever records race, whatever is thrown or lost, and whichever sweeps overlap, a
\* balance that happened earlier never takes the place of one that happened later.
THEOREM NewerStays == Spec => NewerBalanceStays
<1>1. BalanceInv /\ [Next]_vars => BalanceInv'
  BY BalanceNext
<1>2. BalanceInv /\ [Next]_vars =>
        [/\ \A a \in DOMAIN balances : balances'[a].asOf >= balances[a].asOf
         /\ \A a \in DOMAIN bal \cap DOMAIN bal' : bal'[a].asOf >= bal[a].asOf]_vars
  BY BalanceNext DEF Newer
<1> QED
  BY BalanceInit, <1>1, <1>2, PTL DEF Spec, NewerBalanceStays

-----------------------------------------------------------------------------
(* At rest the latest balance is in Postgres                               *)

KeyOf(a) == <<"bal", a[2]>>

\* A handler is about to mark the hash, the hash is in the registry, or a sweep
\* has still to read it.
Waiting(a) ==
    \/ \E q \in Records : pc[q] = "markBal" /\ name[q] = a[2]
    \/ KeyOf(a) \in dirty

Drawn(a) == \E s \in Sweeps : KeyOf(a) \in sweep[s].left

Carries(s, a) == sweep[s].key = KeyOf(a) /\ a \in DOMAIN sweep[s].rows

Calm == upset \cap {"record", "sweep"} = {}

Keyed(k) == k[1] = "eco" \/ k = <<"bal", k[2]>>

\* What a row looks like as an entry, and an entry as a row.
Neutral(row) == [asOf |-> row.asOf, arrived |-> row.asOf, id |-> 0, from |-> row.from]
AsRow(e) == [asOf |-> e.asOf, from |-> e.from]

\* A handler that looks for its balance has nothing in hand, and what it read of
\* the table is not newer than the table.
Reading ==
    /\ DOMAIN pc = Records /\ DOMAIN name = Records /\ DOMAIN found = Records
    /\ \A r \in Records :
         /\ pc[r] \notin {"queued", "refused", "failed"} => name[r] \in Currencies
         /\ pc[r] \in {"amount", "count", "mark", "look", "read"} => found[r] = Empty
         /\ pc[r] = "decide" => \A a \in DOMAIN found[r] :
              /\ a = Account(r) /\ a \in DOMAIN balances
              /\ found[r][a].asOf \in Nat /\ balances[a].asOf >= found[r][a].asOf

\* A sweep that is not under way has nothing in hand; what it has of a balance
\* hash are rows of that hash.
Sweeping ==
    /\ \A k \in dirty : Keyed(k)
    /\ \A s \in Sweeps :
         /\ sweep[s].domain = "none" => sweep[s].left = {} /\ sweep[s].key = None
         /\ \A k \in sweep[s].left : Keyed(k)
         /\ sweep[s].key # None => Keyed(sweep[s].key)
         /\ sweep[s].key # None /\ sweep[s].key[1] # "eco" =>
              \A a \in DOMAIN sweep[s].rows : a[2] = sweep[s].key[2]

\* An entry is its record's.
Entries ==
    \A a \in DOMAIN bal : bal[a].from \in Records /\ bal[a] = Entry(bal[a].from) /\ a[2] \in Currencies

\* What a handler brought is in the table or in the hash, or older than what is.
Known ==
    \A r \in Depth \cap begun : pc[r] \in {"markBal", "done"} =>
        \/ Account(r) \in DOMAIN balances /\ balances[Account(r)].asOf >= AsOf[r]
        \/ Account(r) \in DOMAIN bal /\ bal[Account(r)].asOf >= AsOf[r]

\* What is in the hash is in the table, or on its way.
OnItsWay ==
    \A a \in DOMAIN bal :
        \/ a \in DOMAIN balances /\ balances[a].asOf >= bal[a].asOf
        \/ Waiting(a) \/ Drawn(a)
        \/ \E s \in Sweeps : Carries(s, a) /\ sweep[s].rows[a].asOf >= bal[a].asOf

\* Redis was never lost: the table has nothing the hash does not know of but
\* what was stored before, which every handler that decides without the hash
\* has read.
HashLeads ==
    /\ \A a \in DOMAIN balances :
         IF a \in DOMAIN bal THEN bal[a].asOf >= balances[a].asOf
                             ELSE balances[a].from \notin Records
    /\ \A s \in Sweeps : \A a \in DOMAIN sweep[s].rows :
         Carries(s, a) => a \in DOMAIN bal /\ sweep[s].rows[a].asOf <= bal[a].asOf
    /\ \A r \in Records :
         pc[r] = "decide" /\ Account(r) \notin DOMAIN bal /\ Account(r) \in DOMAIN balances =>
            /\ Account(r) \in DOMAIN found[r]
            /\ found[r][Account(r)] = Neutral(balances[Account(r)])

\* And no sweeps overlapped: the row is the entry's, or the entry is on its way,
\* and no handler brought one that beats it.
OneSweep == \A s, t \in Sweeps : sweep[s].domain # "none" /\ sweep[t].domain # "none" => s = t

RowIsEntry ==
    \A a \in DOMAIN bal :
        \/ a \in DOMAIN balances /\ balances[a].from = bal[a].from
        \/ Waiting(a) \/ Drawn(a)
        \/ \E s \in Sweeps : Carries(s, a) /\ sweep[s].rows[a] = AsRow(bal[a])

HandIsEntry ==
    \A s \in Sweeps : \A a \in DOMAIN sweep[s].rows :
        Carries(s, a) => sweep[s].rows[a] = AsRow(bal[a]) \/ Waiting(a)

Unbeaten ==
    \A r \in Depth \cap begun : pc[r] \in {"markBal", "done"} =>
        IF Account(r) \in DOMAIN bal THEN ~IncomingWins(Entry(r), bal[Account(r)])
        ELSE /\ Account(r) \in DOMAIN balances
             /\ ~IncomingWins(Entry(r), Neutral(balances[Account(r)]))

Ties == OneSweep /\ RowIsEntry /\ HandIsEntry /\ Unbeaten

LatestInv ==
    /\ BalanceInv /\ Reading /\ Sweeping /\ Entries /\ Known
    /\ \A r \in begun : r \in Records /\ pc[r] # "queued"
    /\ Calm => OnItsWay
    /\ "redis" \notin upset => HashLeads
    /\ upset = {} => Ties

(* Operators *)

LEMMA NotWinning ==
    ASSUME NEW new, NEW old, new.asOf \in Nat, old.asOf \in Nat, ~IncomingWins(new, old)
    PROVE  old.asOf >= new.asOf
  BY DEF IncomingWins

LEMMA NoneBeatsItself ==
    ASSUME NEW e, e.asOf \in Nat, e.arrived \in Nat, e.id \in Nat
    PROVE  ~IncomingWins(e, e)
  BY DEF IncomingWins

\* What beats the old one is not beaten by what the old one held off.
LEMMA WinnerHoldsOff ==
    ASSUME NEW x, NEW old, NEW z,
           x.asOf \in Nat, x.arrived \in Nat, x.id \in Nat,
           old.asOf \in Nat, old.arrived \in Nat, old.id \in Nat,
           z.asOf \in Nat, z.arrived \in Nat, z.id \in Nat,
           ~IncomingWins(x, old), IncomingWins(z, old)
    PROVE  ~IncomingWins(x, z)
  BY DEF IncomingWins

LEMMA EntryType ==
    ASSUME NEW r \in Records
    PROVE  /\ Entry(r).asOf = AsOf[r] /\ Entry(r).from = r
           /\ Entry(r).asOf \in Nat /\ Entry(r).arrived \in Nat /\ Entry(r).id \in Nat
  BY DEF Entry

LEMMA NeutralType ==
    ASSUME NEW row, row.asOf \in Nat
    PROVE  /\ Neutral(row).asOf = row.asOf /\ Neutral(row).from = row.from
           /\ Neutral(row).asOf \in Nat /\ Neutral(row).arrived \in Nat /\ Neutral(row).id \in Nat
  BY DEF Neutral

\* The upsert leaves no row behind the one it is given.
LEMMA UpsertCovers ==
    ASSUME NEW old, NEW new,
           \A a \in DOMAIN old : old[a].asOf \in Nat,
           \A a \in DOMAIN new : new[a].asOf \in Nat
    PROVE  LET row == MergedBalance(old, new) IN
           /\ DOMAIN row = DOMAIN old \cup DOMAIN new
           /\ \A a \in DOMAIN old \ DOMAIN new : row[a] = old[a]
           /\ \A a \in DOMAIN new :
                /\ row[a].asOf >= new[a].asOf
                /\ row[a] = new[a] \/ (a \in DOMAIN old /\ row[a] = old[a] /\ new[a].asOf < old[a].asOf)
<1> DEFINE row == MergedBalance(old, new)
<1>1. /\ DOMAIN row = DOMAIN old \cup DOMAIN new
      /\ \A a \in DOMAIN old \cup DOMAIN new :
            row[a] = IF a \in DOMAIN old /\ (a \in DOMAIN new => new[a].asOf < old[a].asOf)
                     THEN old[a] ELSE new[a]
  BY DEF MergedBalance
<1> HIDE DEF row
<1>2. \A a \in DOMAIN old \ DOMAIN new : row[a] = old[a]
  BY <1>1
<1>3. \A a \in DOMAIN new :
        /\ row[a].asOf >= new[a].asOf
        /\ row[a] = new[a] \/ (a \in DOMAIN old /\ row[a] = old[a] /\ new[a].asOf < old[a].asOf)
  BY <1>1
<1> QED
  BY <1>1, <1>2, <1>3 DEF row

\* The key of a hash is never None: None is not a key.
LEMMA KeyIsAKey ==
    ASSUME NEW a, a[2] \in Currencies
    PROVE  KeyOf(a) # None /\ KeyOf(a)[1] = "bal" /\ KeyOf(a)[2] = a[2] /\ KeyOf(a)[1] # "eco"
<1>1. KeyOf(a) \in {"bal"} \X Currencies
  BY DEF KeyOf
<1> QED
  BY <1>1 DEF KeyOf

LEMMA LatestInit == Init => LatestInv
<1> SUFFICES ASSUME Init PROVE LatestInv
  OBVIOUS
<1>1. BalanceInv
  BY BalanceInit
<1>2. /\ pc = [r \in Records |-> "queued"] /\ name = [r \in Records |-> None]
      /\ found = [r \in Records |-> Empty]
      /\ bal = Empty /\ balances = StoredBalances /\ dirty = {} /\ begun = {}
      /\ sweep = [s \in Sweeps |-> NoSweep]
  BY DEF Init
<1>3. DOMAIN Empty = {} /\ DOMAIN bal = {}
  BY <1>2 DEF Empty
<1>4. \A s \in Sweeps : /\ sweep[s].domain = "none" /\ sweep[s].left = {} /\ sweep[s].key = None
                        /\ sweep[s].rows = Empty
  BY <1>2 DEF NoSweep
<1>5. Reading
  BY <1>2 DEF Reading
<1>6. Sweeping
  BY <1>2, <1>4 DEF Sweeping
<1>7. Entries /\ Known /\ OnItsWay
  BY <1>2, <1>3 DEF Entries, Known, OnItsWay
<1>8. HashLeads
  BY <1>2, <1>3, <1>4 DEF HashLeads
<1>9. Ties
  BY <1>2, <1>3, <1>4 DEF Ties, OneSweep, RowIsEntry, HandIsEntry, Unbeaten
<1> QED
  BY <1>1, <1>2, <1>5, <1>6, <1>7, <1>8, <1>9 DEF LatestInv

-----------------------------------------------------------------------------
(* The handlers *)

\* A handler that has not decided yet takes a step; it reads the table at most.
ReadOf(a) ==
    IF a \notin DOMAIN balances THEN Empty ELSE [x \in {a} |-> Neutral(balances[a])]

Early(r) ==
    /\ DOMAIN pc' = Records /\ DOMAIN name' = Records /\ DOMAIN found' = Records
    /\ \A q \in Records \ {r} : pc'[q] = pc[q] /\ name'[q] = name[q] /\ found'[q] = found[q]
    /\ pc[r] # "markBal"
    /\ r \in Depth \cap begun' => pc[r] # "done" /\ pc'[r] # "done"
    /\ pc'[r] \notin {"queued", "markBal"}
    /\ pc'[r] \notin {"refused", "failed"} => name'[r] \in Currencies
    /\ pc'[r] \in {"amount", "count", "mark", "look", "read"} => found'[r] = Empty
    /\ pc'[r] = "decide" =>
         \/ found'[r] = Empty /\ Account(r)' \in DOMAIN bal
         \/ found'[r] = ReadOf(Account(r)')
    /\ begun' \subseteq begun \cup {r}
    /\ dirty \subseteq dirty' /\ (\A k \in dirty' : k \in dirty \/ k[1] = "eco")
    /\ UNCHANGED <<bal, balances, sweep>>

LEMMA EarlyKeeps ==
    ASSUME LatestInv, NEW r \in Records, Early(r), BalanceInv', upset \subseteq upset',
           upset' = upset \/ "record" \in upset'
    PROVE  LatestInv'
<1> USE DEF LatestInv
<1>0. DOMAIN Empty = {}
  BY DEF Empty
<1>1. \A a : (Waiting(a) => Waiting(a)') /\ Drawn(a)' = Drawn(a)
             /\ \A s \in Sweeps : Carries(s, a)' = Carries(s, a)
  BY DEF Early, Waiting, Drawn, Carries
<1>2. \A q \in Records \ {r} : Account(q)' = Account(q)
  BY DEF Early, Account
<1>3. ASSUME pc'[r] = "decide", NEW a \in DOMAIN found'[r]
      PROVE  /\ a = Account(r)' /\ a \in DOMAIN balances
             /\ found'[r][a].asOf \in Nat /\ balances[a].asOf >= found'[r][a].asOf
  <2>1. found'[r] = ReadOf(Account(r)') /\ Account(r)' \in DOMAIN balances
    BY <1>0, <1>3 DEF Early, ReadOf
  <2>2. a = Account(r)' /\ found'[r][a] = Neutral(balances[a])
    BY <1>3, <2>1 DEF ReadOf
  <2>3. balances[a].asOf \in Nat
    BY <2>1, <2>2 DEF BalanceInv
  <2> QED
    BY <2>1, <2>2, <2>3, NeutralType
<1>4. Reading'
  BY <1>2, <1>3 DEF Reading, Early
<1>5. Sweeping'
  BY DEF Sweeping, Early, Keyed
<1>6. Entries'
  BY DEF Entries, Early, Entry
<1>7. Known'
  BY <1>2 DEF Known, Early
<1>8. \A q \in begun' : q \in Records /\ pc'[q] # "queued"
  BY DEF Early
<1>9. ASSUME Calm' PROVE OnItsWay'
  <2>1. OnItsWay
    BY <1>9 DEF Calm
  <2> QED
    BY <1>1, <2>1 DEF OnItsWay, Early
<1>10. ASSUME "redis" \notin upset' PROVE HashLeads'
  <2>1. HashLeads
    BY <1>10
  <2>2. ASSUME pc'[r] = "decide", Account(r)' \notin DOMAIN bal, Account(r)' \in DOMAIN balances
        PROVE  /\ Account(r)' \in DOMAIN found'[r]
               /\ found'[r][Account(r)'] = Neutral(balances[Account(r)'])
    BY <2>2 DEF Early, ReadOf
  <2>3. \A q \in Records :
         pc'[q] = "decide" /\ Account(q)' \notin DOMAIN bal /\ Account(q)' \in DOMAIN balances =>
            /\ Account(q)' \in DOMAIN found'[q]
            /\ found'[q][Account(q)'] = Neutral(balances[Account(q)'])
    <3>1. ASSUME NEW q \in Records, q # r, pc'[q] = "decide", Account(q)' \notin DOMAIN bal,
                 Account(q)' \in DOMAIN balances
          PROVE  /\ Account(q)' \in DOMAIN found'[q]
                 /\ found'[q][Account(q)'] = Neutral(balances[Account(q)'])
      BY <1>2, <2>1, <3>1 DEF HashLeads, Early
    <3> QED
      BY <2>2, <3>1
  <2> QED
    BY <1>1, <2>1, <2>3 DEF HashLeads, Early
<1>11. ASSUME upset' = {} PROVE Ties'
  <2>1. Ties /\ "record" \notin upset'
    BY <1>11
  <2>2. OneSweep'
    BY <2>1 DEF Ties, OneSweep, Early
  <2>3. RowIsEntry'
    BY <1>1, <2>1 DEF Ties, RowIsEntry, Early
  <2>4. HandIsEntry'
    BY <1>1, <2>1 DEF Ties, HandIsEntry, Early
  <2>5. Unbeaten'
    BY <1>2, <2>1 DEF Ties, Unbeaten, Early, Entry
  <2> QED
    BY <2>2, <2>3, <2>4, <2>5 DEF Ties
<1> QED
  BY <1>4, <1>5, <1>6, <1>7, <1>8, <1>9, <1>10, <1>11

LEMMA EarlySteps ==
    ASSUME LatestInv, NEW r \in Records,
           \/ Begin(r) \/ ReadFloor(r) \/ Seed(r) \/ Increment(r, "amount") \/ Increment(r, "count")
           \/ Mark(r) \/ Look(r) \/ PointRead(r)
    PROVE  Early(r) /\ UNCHANGED upset
<1> USE DEF LatestInv, Reading, hot, durable, handlers, history, bounds
<1>1. CASE Begin(r)
  <2>1. pc[r] = "queued"
    BY <1>1 DEF Begin
  <2>2. CASE CurrencyOf[r] \in Allowed
    <3>1. Resolved(CurrencyOf[r]) \in Currencies
      BY DEF Resolved
    <3>2. /\ name' = [name EXCEPT ![r] = Resolved(CurrencyOf[r])]
          /\ pc' = [pc EXCEPT ![r] = "floor"]
          /\ begun' = begun \cup {r}
          /\ UNCHANGED <<found, bal, dirty, balances, sweep, upset>>
      BY <1>1, <2>2 DEF Begin
    <3> QED
      BY <2>1, <3>1, <3>2 DEF Early
  <2>3. CASE CurrencyOf[r] \notin Allowed
    <3>1. /\ pc' = [pc EXCEPT ![r] = "refused"]
          /\ UNCHANGED <<name, begun, found, bal, dirty, balances, sweep, upset>>
      BY <1>1, <2>3 DEF Begin
    <3> QED
      BY <2>1, <3>1 DEF Early
  <2> QED
    BY <2>2, <2>3
<1>2. CASE ReadFloor(r)
  BY <1>2 DEF ReadFloor, Early, Account
<1>3. CASE Seed(r)
  BY <1>3 DEF Seed, Early, Account
<1>4. ASSUME NEW m \in {"amount", "count"}, Increment(r, m) PROVE Early(r) /\ UNCHANGED upset
  BY <1>4 DEF Increment, Early, Account
<1>5. CASE Mark(r)
  <2>1. /\ pc[r] = "mark"
        /\ dirty' = dirty \cup {<<"eco", Bucket(r)>>}
        /\ \E p \in {"floor", "look", "done"} :
             pc' = [pc EXCEPT ![r] = p] /\ (p = "done" => r \notin Depth)
        /\ UNCHANGED <<name, found, bal, balances, sweep, begun, upset>>
    BY <1>5 DEF Mark
  <2> QED
    BY <2>1 DEF Early
<1>6. CASE Look(r)
  BY <1>6 DEF Look, Early, Account
<1>7. CASE PointRead(r)
  <2>1. /\ pc[r] = "read"
        /\ found' = [found EXCEPT ![r] = ReadOf(Account(r))]
        /\ pc' = [pc EXCEPT ![r] = "decide"]
        /\ UNCHANGED <<name, bal, dirty, balances, sweep, begun, upset>>
    BY <1>7 DEF PointRead, ReadOf, Neutral
  <2>2. Account(r)' = Account(r)
    BY <2>1 DEF Account
  <2> QED
    BY <2>1, <2>2 DEF Early
<1> QED
  BY <1>1, <1>2, <1>3, <1>4, <1>5, <1>6, <1>7

\* The script decides: the winner is in the hash and about to be marked; the
\* loser met an entry or a row that is no older.
LEMMA DecideKeeps ==
    ASSUME LatestInv, NEW r \in Records, Decide(r), BalanceInv'
    PROVE  LatestInv'
<1> USE DEF LatestInv
<1> DEFINE acc == Account(r)
           known == Over(bal, found[r])
           wins == acc \in DOMAIN known => IncomingWins(Entry(r), known[acc])
<1>1. /\ pc[r] = "decide"
      /\ bal' = IF wins THEN Put(bal, acc, Entry(r)) ELSE bal
      /\ pc' = [pc EXCEPT ![r] = IF wins THEN "markBal" ELSE "done"]
      /\ found' = [found EXCEPT ![r] = Empty]
      /\ UNCHANGED <<name, dirty, balances, sweep, begun, upset>>
  BY DEF Decide, durable, bounds
<1>2. /\ acc \in DOMAIN bal => acc \in DOMAIN known /\ known[acc] = bal[acc]
      /\ acc \notin DOMAIN bal => (acc \in DOMAIN known <=> acc \in DOMAIN found[r])
      /\ acc \notin DOMAIN bal /\ acc \in DOMAIN found[r] => known[acc] = found[r][acc]
  BY DEF Over
<1> HIDE DEF known
<1>3. /\ wins => /\ DOMAIN bal' = DOMAIN bal \cup {acc} /\ bal'[acc] = Entry(r)
                 /\ \A b \in DOMAIN bal : b # acc => bal'[b] = bal[b]
      /\ ~wins => bal' = bal
  BY <1>1 DEF Put
<1>4. /\ DOMAIN pc = Records /\ name[r] \in Currencies /\ acc[2] = name[r]
      /\ \A a \in DOMAIN found[r] :
              /\ a = acc /\ a \in DOMAIN balances
              /\ found[r][a].asOf \in Nat /\ balances[a].asOf >= found[r][a].asOf
  BY <1>1 DEF Reading, Account
<1>5. /\ wins => pc'[r] = "markBal"
      /\ ~wins => pc'[r] = "done"
      /\ \A q \in Records \ {r} : pc'[q] = pc[q]
      /\ DOMAIN pc' = Records
  BY <1>1, <1>4
<1>6. \A a \in DOMAIN bal : bal[a].asOf \in Nat
  BY DEF BalanceInv
<1>7. \A a \in DOMAIN bal : a \in DOMAIN bal' /\ bal'[a].asOf >= bal[a].asOf
  BY <1>6, DecideRises
<1>8. (\A q \in Records : Account(q)' = Account(q)) /\ \A q : Entry(q)' = Entry(q)
  BY <1>1 DEF Account, Entry
<1>9. /\ \A a : (Waiting(a) => Waiting(a)') /\ Drawn(a)' = Drawn(a)
                /\ \A s \in Sweeps : Carries(s, a)' = Carries(s, a)
      /\ \A a : a = acc /\ wins => Waiting(a)'
  BY <1>1, <1>4, <1>5 DEF Waiting, Drawn, Carries, KeyOf
<1>10. Reading'
  BY <1>1, <1>5, <1>8 DEF Reading
<1>11. Sweeping'
  BY <1>1 DEF Sweeping, Keyed
<1>12. Entries'
  BY <1>3, <1>4, <1>8, EntryType DEF Entries
<1>13. Known'
  <2>1. ASSUME NEW q \in Depth \cap begun, q # r, pc'[q] \in {"markBal", "done"}
        PROVE  \/ Account(q) \in DOMAIN balances /\ balances[Account(q)].asOf >= AsOf[q]
               \/ Account(q) \in DOMAIN bal' /\ bal'[Account(q)].asOf >= AsOf[q]
    <3>1. q \in Records /\ pc[q] \in {"markBal", "done"}
      BY <1>5, <2>1
    <3>2. CASE Account(q) \in DOMAIN bal /\ bal[Account(q)].asOf >= AsOf[q]
      <4>1. AsOf[q] \in Nat /\ bal'[Account(q)].asOf \in Nat /\ bal[Account(q)].asOf \in Nat
        BY <1>6, <1>7, <3>1, <3>2 DEF BalanceInv
      <4> QED
        BY <1>7, <3>2, <4>1
    <3> QED
      BY <2>1, <3>1, <3>2 DEF Known
  <2>2. \/ acc \in DOMAIN balances /\ balances[acc].asOf >= AsOf[r]
        \/ acc \in DOMAIN bal' /\ bal'[acc].asOf >= AsOf[r]
    <3>1. CASE wins
      BY <1>3, <3>1, EntryType
    <3>2. CASE ~wins /\ acc \in DOMAIN bal
      <4>1. bal[acc].asOf >= AsOf[r]
        BY <1>2, <1>6, <3>2, NotWinning, EntryType
      <4> QED
        BY <1>3, <3>2, <4>1
    <3>3. CASE ~wins /\ acc \notin DOMAIN bal
      <4>1. acc \in DOMAIN found[r] /\ ~IncomingWins(Entry(r), found[r][acc])
        BY <1>2, <3>3
      <4>2. found[r][acc].asOf \in Nat /\ balances[acc].asOf >= found[r][acc].asOf /\ acc \in DOMAIN balances
        BY <1>4, <4>1
      <4>3. found[r][acc].asOf >= AsOf[r] /\ AsOf[r] \in Nat /\ balances[acc].asOf \in Nat
        BY <4>1, <4>2, NotWinning, EntryType DEF BalanceInv
      <4> QED
        BY <4>2, <4>3
    <3> QED
      BY <3>1, <3>2, <3>3
  <2> QED
    BY <1>1, <1>8, <2>1, <2>2 DEF Known
<1>14. \A q \in begun' : q \in Records /\ pc'[q] # "queued"
  BY <1>1, <1>5
<1>15. ASSUME Calm' PROVE OnItsWay'
  <2>1. OnItsWay
    BY <1>1, <1>15 DEF Calm
  <2>2. ASSUME NEW b \in DOMAIN bal', b # acc \/ ~wins
        PROVE  b \in DOMAIN bal /\ bal'[b] = bal[b]
    BY <1>3, <2>2
  <2>3. ASSUME NEW b \in DOMAIN bal', b = acc, wins PROVE Waiting(b)'
    BY <1>9, <2>3
  <2> QED
    BY <1>1, <1>9, <2>1, <2>2, <2>3 DEF OnItsWay
<1>16. ASSUME "redis" \notin upset' PROVE HashLeads'
  <2>1. HashLeads
    BY <1>1, <1>16
  <2>2. ASSUME NEW b \in DOMAIN balances
        PROVE  IF b \in DOMAIN bal' THEN bal'[b].asOf >= balances[b].asOf
                                    ELSE balances[b].from \notin Records
    <3>0. balances[b].asOf \in Nat /\ (b \in DOMAIN bal' => bal'[b].asOf \in Nat)
      BY DEF BalanceInv
    <3>1. CASE b \in DOMAIN bal
      BY <1>6, <1>7, <2>1, <3>0, <3>1 DEF HashLeads
    <3>2. CASE b \notin DOMAIN bal /\ b # acc
      BY <1>3, <2>1, <3>2 DEF HashLeads
    <3>3. CASE b \notin DOMAIN bal /\ b = acc
      <4>1. acc \in DOMAIN found[r] /\ found[r][acc] = Neutral(balances[acc])
        BY <1>1, <2>1, <3>3 DEF HashLeads
      <4>2. wins => IncomingWins(Entry(r), Neutral(balances[acc]))
        BY <1>2, <3>3, <4>1
      <4>3. wins => AsOf[r] >= balances[acc].asOf
        BY <3>0, <3>3, <4>2, WinnerIsNewer, NeutralType, EntryType
      <4>4. balances[b].from \notin Records
        BY <2>1, <3>3 DEF HashLeads
      <4> QED
        BY <1>3, <3>3, <4>3, <4>4, EntryType
    <3> QED
      BY <3>1, <3>2, <3>3
  <2>3. ASSUME NEW s \in Sweeps, NEW a \in DOMAIN sweep[s].rows, Carries(s, a)
        PROVE  a \in DOMAIN bal' /\ sweep[s].rows[a].asOf <= bal'[a].asOf
    <3>1. a \in DOMAIN bal /\ sweep[s].rows[a].asOf <= bal[a].asOf
      BY <2>1, <2>3 DEF HashLeads
    <3>2. sweep[s].rows[a].asOf \in Nat
      <4>1. KeyOf(a) # None /\ KeyOf(a)[1] # "eco"
        BY <3>1, KeyIsAKey DEF Entries
      <4> QED
        BY <2>3, <4>1 DEF BalanceInv, InHand, Carries
    <3>3. bal[a].asOf \in Nat /\ bal'[a].asOf \in Nat
      BY <1>6, <1>7, <3>1 DEF BalanceInv
    <3> QED
      BY <1>7, <3>1, <3>2, <3>3
  <2>4. \A q \in Records : pc'[q] = "decide" => q # r /\ pc[q] = "decide" /\ found'[q] = found[q]
    BY <1>1, <1>5 DEF Reading
  <2>5. \A q \in Records : Account(q) \notin DOMAIN bal' => Account(q) \notin DOMAIN bal
    BY <1>7
  <2>6. ASSUME NEW q \in Records, pc'[q] = "decide", Account(q) \notin DOMAIN bal',
               Account(q) \in DOMAIN balances
        PROVE  /\ Account(q) \in DOMAIN found'[q]
               /\ found'[q][Account(q)] = Neutral(balances[Account(q)])
    BY <2>1, <2>4, <2>5, <2>6 DEF HashLeads
  <2>7. balances' = balances /\ sweep' = sweep
    BY <1>1
  <2>8. (\A a \in DOMAIN balances :
           IF a \in DOMAIN bal THEN bal[a].asOf >= balances[a].asOf
                               ELSE balances[a].from \notin Records)'
    BY <2>2, <2>7
  <2>9. (\A s \in Sweeps : \A a \in DOMAIN sweep[s].rows :
           Carries(s, a) => a \in DOMAIN bal /\ sweep[s].rows[a].asOf <= bal[a].asOf)'
    BY <1>9, <2>3, <2>7
  <2>10. ASSUME NEW q \in Records, pc'[q] = "decide", Account(q)' \notin DOMAIN bal',
                Account(q)' \in DOMAIN balances'
         PROVE  /\ Account(q)' \in DOMAIN found'[q]
                /\ found'[q][Account(q)'] = Neutral(balances[Account(q)])'
    BY <1>8, <2>6, <2>7, <2>10 DEF Neutral
  <2> QED
    BY <2>8, <2>9, <2>10 DEF HashLeads
<1>17. ASSUME upset' = {} PROVE Ties'
  <2>1. Ties /\ HashLeads
    BY <1>1, <1>17
  <2>2. OneSweep'
    BY <1>1, <2>1 DEF Ties, OneSweep
  <2>3. \A b \in DOMAIN bal' : (b # acc \/ ~wins) => b \in DOMAIN bal /\ bal'[b] = bal[b]
    BY <1>3
  <2>4. RowIsEntry'
    <3>1. ASSUME NEW b \in DOMAIN bal', b # acc \/ ~wins
          PROVE  \/ b \in DOMAIN balances /\ balances[b].from = bal'[b].from
                 \/ Waiting(b)' \/ Drawn(b)'
                 \/ \E s \in Sweeps : Carries(s, b)' /\ sweep[s].rows[b] = AsRow(bal'[b])
      BY <1>9, <2>1, <2>3, <3>1 DEF Ties, RowIsEntry
    <3>2. ASSUME NEW b \in DOMAIN bal', ~(b # acc \/ ~wins) PROVE Waiting(b)'
      BY <1>9, <3>2
    <3> QED
      BY <1>1, <3>1, <3>2 DEF RowIsEntry, AsRow
  <2>5. HandIsEntry'
    <3>1. ASSUME NEW s \in Sweeps, NEW b \in DOMAIN sweep[s].rows, Carries(s, b)
          PROVE  sweep[s].rows[b] = AsRow(bal'[b]) \/ Waiting(b)'
      <4>1. b \in DOMAIN bal /\ (sweep[s].rows[b] = AsRow(bal[b]) \/ Waiting(b))
        BY <2>1, <3>1 DEF Ties, HandIsEntry, HashLeads
      <4>2. CASE b # acc \/ ~wins
        <5>1. bal'[b] = bal[b]
          BY <1>7, <2>3, <4>1, <4>2
        <5> QED
          BY <1>9, <4>1, <5>1
      <4>3. CASE b = acc /\ wins
        BY <1>9, <4>3
      <4> QED
        BY <4>2, <4>3
    <3> QED
      BY <1>1, <1>9, <3>1 DEF HandIsEntry, AsRow
  <2>6. Unbeaten'
    <3>0. Entry(r).asOf \in Nat /\ Entry(r).arrived \in Nat /\ Entry(r).id \in Nat
      BY EntryType
    <3>1. acc \in DOMAIN bal => /\ bal[acc].asOf \in Nat /\ bal[acc].arrived \in Nat
                                /\ bal[acc].id \in Nat
      BY EntryType DEF Entries
    <3>2. acc \notin DOMAIN bal /\ acc \in DOMAIN balances =>
            /\ acc \in DOMAIN found[r] /\ found[r][acc] = Neutral(balances[acc])
            /\ Neutral(balances[acc]).asOf \in Nat /\ Neutral(balances[acc]).arrived \in Nat
            /\ Neutral(balances[acc]).id \in Nat
      BY <1>1, <2>1, NeutralType DEF HashLeads, BalanceInv
    <3>3. ASSUME NEW q \in Depth \cap begun, pc'[q] \in {"markBal", "done"}
          PROVE  IF Account(q) \in DOMAIN bal' THEN ~IncomingWins(Entry(q), bal'[Account(q)])
                 ELSE /\ Account(q) \in DOMAIN balances
                      /\ ~IncomingWins(Entry(q), Neutral(balances[Account(q)]))
      <4>0. q \in Records /\ Entry(q).asOf \in Nat /\ Entry(q).arrived \in Nat /\ Entry(q).id \in Nat
        BY EntryType
      <4>1. q # r => IF Account(q) \in DOMAIN bal THEN ~IncomingWins(Entry(q), bal[Account(q)])
                     ELSE /\ Account(q) \in DOMAIN balances
                          /\ ~IncomingWins(Entry(q), Neutral(balances[Account(q)]))
        BY <1>5, <2>1, <3>3 DEF Ties, Unbeaten
      <4>2. CASE q # r /\ (Account(q) # acc \/ ~wins)
        <5>1. (Account(q) \in DOMAIN bal' <=> Account(q) \in DOMAIN bal)
              /\ (Account(q) \in DOMAIN bal => bal'[Account(q)] = bal[Account(q)])
          BY <1>3, <4>2
        <5> QED
          BY <4>1, <4>2, <5>1
      <4>3. CASE q # r /\ Account(q) = acc /\ wins /\ acc \in DOMAIN bal
        <5>1. ~IncomingWins(Entry(q), bal[acc]) /\ IncomingWins(Entry(r), bal[acc])
          BY <1>2, <4>1, <4>3
        <5>2. ~IncomingWins(Entry(q), Entry(r))
          BY <3>0, <3>1, <4>0, <4>3, <5>1, WinnerHoldsOff
        <5> QED
          BY <1>3, <4>3, <5>2
      <4>4. CASE q # r /\ Account(q) = acc /\ wins /\ acc \notin DOMAIN bal
        <5>1. acc \in DOMAIN balances /\ ~IncomingWins(Entry(q), Neutral(balances[acc]))
          BY <4>1, <4>4
        <5>2. IncomingWins(Entry(r), Neutral(balances[acc]))
          BY <1>2, <3>2, <4>4, <5>1
        <5>3. ~IncomingWins(Entry(q), Entry(r))
          BY <3>0, <3>2, <4>0, <4>4, <5>1, <5>2, WinnerHoldsOff
        <5> QED
          BY <1>3, <4>4, <5>3
      <4>5. CASE q = r /\ wins
        BY <1>3, <3>0, <4>5, NoneBeatsItself
      <4>6. CASE q = r /\ ~wins
        <5>1. bal' = bal /\ acc \in DOMAIN known /\ ~IncomingWins(Entry(r), known[acc])
          BY <1>3, <4>6
        <5>2. CASE acc \in DOMAIN bal
          BY <1>2, <4>6, <5>1, <5>2
        <5>3. CASE acc \notin DOMAIN bal
          BY <1>2, <1>4, <3>2, <4>6, <5>1, <5>3
        <5> QED
          BY <5>2, <5>3
      <4> QED
        BY <4>2, <4>3, <4>4, <4>5, <4>6
    <3>4. balances' = balances /\ begun' = begun
      BY <1>1
    <3>5. ASSUME NEW q \in Depth \cap begun', pc'[q] \in {"markBal", "done"}
          PROVE  IF Account(q)' \in DOMAIN bal' THEN ~IncomingWins(Entry(q)', bal'[Account(q)'])
                 ELSE /\ Account(q)' \in DOMAIN balances'
                      /\ ~IncomingWins(Entry(q)', Neutral(balances[Account(q)])')
      BY <1>8, <3>3, <3>4, <3>5 DEF Neutral
    <3> QED
      BY <3>5 DEF Unbeaten
  <2> QED
    BY <2>2, <2>4, <2>5, <2>6 DEF Ties
<1> QED
  BY <1>10, <1>11, <1>12, <1>13, <1>14, <1>15, <1>16, <1>17

\* The mark takes over from the handler that was about to set it.
LEMMA MarkBalanceKeeps ==
    ASSUME LatestInv, NEW r \in Records, MarkBalance(r), BalanceInv'
    PROVE  LatestInv'
<1> USE DEF LatestInv
<1>1. /\ pc[r] = "markBal" /\ pc' = [pc EXCEPT ![r] = "done"]
      /\ dirty' = dirty \cup {<<"bal", name[r]>>}
      /\ UNCHANGED <<name, found, bal, balances, sweep, begun, upset>>
  BY DEF MarkBalance, durable, history, bounds
<1>2. DOMAIN pc = Records /\ DOMAIN pc' = Records /\ pc'[r] = "done"
      /\ \A q \in Records \ {r} : pc'[q] = pc[q]
  BY <1>1 DEF Reading
<1>3. (\A q : Account(q)' = Account(q)) /\ \A q : Entry(q)' = Entry(q)
  BY <1>1 DEF Account, Entry
<1>4. \A a : (Waiting(a) => Waiting(a)') /\ Drawn(a)' = Drawn(a)
             /\ \A s \in Sweeps : Carries(s, a)' = Carries(s, a)
  BY <1>1, <1>2 DEF Waiting, Drawn, Carries, KeyOf
<1>5. Reading'
  BY <1>1, <1>2, <1>3 DEF Reading
<1>6. Sweeping'
  BY <1>1 DEF Sweeping, Keyed
<1>7. Entries'
  BY <1>1, <1>3 DEF Entries
<1>8. Known'
  BY <1>1, <1>2, <1>3 DEF Known
<1>9. \A q \in begun' : q \in Records /\ pc'[q] # "queued"
  BY <1>1, <1>2
<1>10. ASSUME Calm' PROVE OnItsWay'
  <2>1. OnItsWay
    BY <1>1, <1>10 DEF Calm
  <2> QED
    BY <1>1, <1>4, <2>1 DEF OnItsWay
<1>11. ASSUME "redis" \notin upset' PROVE HashLeads'
  <2>1. HashLeads
    BY <1>1, <1>11
  <2> QED
    BY <1>1, <1>2, <1>3, <1>4, <2>1 DEF HashLeads, Neutral
<1>12. ASSUME upset' = {} PROVE Ties'
  <2>1. Ties
    BY <1>1, <1>12
  <2> QED
    BY <1>1, <1>2, <1>3, <1>4, <2>1
       DEF Ties, OneSweep, RowIsEntry, HandIsEntry, Unbeaten, AsRow, Neutral
<1> QED
  BY <1>5, <1>6, <1>7, <1>8, <1>9, <1>10, <1>11, <1>12

LEMMA ThrowKeeps ==
    ASSUME LatestInv, NEW r \in Records, Throw(r), BalanceInv'
    PROVE  LatestInv'
<1> USE DEF LatestInv
<1>1. /\ pc' = [pc EXCEPT ![r] = "failed"] /\ found' = [found EXCEPT ![r] = Empty]
      /\ upset' = upset \cup {"record"}
      /\ UNCHANGED <<name, dirty, bal, balances, sweep, begun>>
  BY DEF Throw, hot, durable, history
<1>2. (\A q : Account(q)' = Account(q)) /\ \A q : Entry(q)' = Entry(q)
  BY <1>1 DEF Account, Entry
<1>3. Reading'
  BY <1>1, <1>2 DEF Reading
<1>4. Sweeping' /\ Entries' /\ Known'
  BY <1>1, <1>2 DEF Sweeping, Keyed, Entries, Known, Reading
<1>5. \A q \in begun' : q \in Records /\ pc'[q] # "queued"
  BY <1>1 DEF Reading
<1>6. ~Calm' /\ upset' # {}
  BY <1>1 DEF Calm
<1>7. ASSUME "redis" \notin upset' PROVE HashLeads'
  <2>1. HashLeads
    BY <1>1, <1>7
  <2> QED
    BY <1>1, <1>2, <2>1 DEF HashLeads, Neutral, Reading, Carries
<1> QED
  BY <1>3, <1>4, <1>5, <1>6, <1>7

LEMMA LoseRedisKeeps ==
    ASSUME LatestInv, LoseRedis, BalanceInv'
    PROVE  LatestInv'
<1> USE DEF LatestInv
<1>1. /\ bal' = Empty /\ dirty' = {} /\ begun' = {} /\ upset' = upset \cup {"redis"}
      /\ UNCHANGED <<pc, name, found, balances, sweep>>
  BY DEF LoseRedis, handlers, durable
<1>2. DOMAIN bal' = {}
  BY <1>1 DEF Empty
<1>3. Reading'
  BY <1>1 DEF Reading, Account
<1>4. Sweeping' /\ Entries' /\ Known' /\ OnItsWay'
  BY <1>1, <1>2 DEF Sweeping, Keyed, Entries, Known, OnItsWay
<1> QED
  BY <1>1, <1>3, <1>4

-----------------------------------------------------------------------------
(* The sweeps *)

\* A sweep moves on; the handlers and the hash stay as they are.
SweepMoves(s) ==
    /\ \A t \in Sweeps \ {s} : sweep'[t] = sweep[t]
    /\ UNCHANGED <<pc, name, found, bal, begun>>
    /\ \A a \in DOMAIN balances : a \in DOMAIN balances' /\ balances'[a].asOf >= balances[a].asOf

LEMMA HandlersStay ==
    ASSUME LatestInv, NEW s \in Sweeps, SweepMoves(s), BalanceInv'
    PROVE  Reading' /\ Entries' /\ Known' /\ \A q \in begun' : q \in Records /\ pc'[q] # "queued"
<1> USE DEF LatestInv
<1>1. (\A q : Account(q)' = Account(q)) /\ \A q : Entry(q)' = Entry(q)
  BY DEF SweepMoves, Account, Entry
<1>2. \A a \in DOMAIN balances : balances[a].asOf \in Nat /\ balances'[a].asOf \in Nat
  BY DEF BalanceInv, SweepMoves
<1>3. Reading'
  <2>1. ASSUME NEW r \in Records, pc[r] = "decide", NEW a \in DOMAIN found[r]
        PROVE  /\ a = Account(r) /\ a \in DOMAIN balances'
               /\ found[r][a].asOf \in Nat /\ balances'[a].asOf >= found[r][a].asOf
    <3>1. /\ a = Account(r) /\ a \in DOMAIN balances
          /\ found[r][a].asOf \in Nat /\ balances[a].asOf >= found[r][a].asOf
      BY <2>1 DEF Reading
    <3>2. balances'[a].asOf >= balances[a].asOf /\ a \in DOMAIN balances'
      BY <3>1 DEF SweepMoves
    <3> QED
      BY <1>2, <3>1, <3>2
  <2> QED
    BY <1>1, <2>1 DEF Reading, SweepMoves
<1>4. Entries'
  BY <1>1 DEF Entries, SweepMoves
<1>5. Known'
  <2>1. ASSUME NEW r \in Depth \cap begun, pc[r] \in {"markBal", "done"}
        PROVE  \/ Account(r) \in DOMAIN balances' /\ balances'[Account(r)].asOf >= AsOf[r]
               \/ Account(r) \in DOMAIN bal /\ bal[Account(r)].asOf >= AsOf[r]
    <3>1. CASE Account(r) \in DOMAIN balances /\ balances[Account(r)].asOf >= AsOf[r]
      <4>1. AsOf[r] \in Nat
        OBVIOUS
      <4>2. balances'[Account(r)].asOf >= balances[Account(r)].asOf /\ Account(r) \in DOMAIN balances'
        BY <3>1 DEF SweepMoves
      <4> QED
        BY <1>2, <3>1, <4>1, <4>2
    <3> QED
      BY <2>1, <3>1 DEF Known
  <2> QED
    BY <1>1, <2>1 DEF Known, SweepMoves
<1>6. \A q \in begun' : q \in Records /\ pc'[q] # "queued"
  BY DEF SweepMoves
<1> QED
  BY <1>3, <1>4, <1>5, <1>6

\* A drain takes keys over from the registry; nothing is in hand before or after.
LEMMA DrainKeeps ==
    ASSUME LatestInv, NEW s \in Sweeps, DrainFlows(s) \/ DrainBalances(s), BalanceInv'
    PROVE  LatestInv'
<1> USE DEF LatestInv
<1> DEFINE domain == IF sweep[s].domain = "none" THEN "eco" ELSE "bal"
           w == sweep'[s]
<1>1. /\ sweep[s].left = {} /\ sweep[s].key = None
      /\ dirty' = dirty \ Keys(domain)
      /\ w.left = Keys(domain) /\ w.key = None /\ w.rows = Empty
      /\ w.domain = "none" => w.left = {}
      /\ DOMAIN sweep' = Sweeps /\ \A t \in Sweeps \ {s} : sweep'[t] = sweep[t]
      /\ UNCHANGED <<pc, name, found, bal, balances, begun>>
      /\ upset \subseteq upset' /\ (Calm' => Calm)
      /\ upset' = {} => \/ \A t \in Sweeps : sweep[t].domain = "none"
                        \/ sweep[s].domain # "none"
  <2>1. DOMAIN sweep = Sweeps
    BY DEF BalanceInv
  <2>2. CASE DrainFlows(s)
    BY <2>1, <2>2 DEF DrainFlows, Drained, Sweeping, handlers, durable, history, Calm
  <2>3. CASE DrainBalances(s)
    <3>1. sweep[s].domain = "eco" /\ sweep[s].left = {} /\ sweep[s].key = None
      BY <2>3 DEF DrainBalances, Finished
    <3>2. sweep' = [sweep EXCEPT ![s] = Left(Drained("bal"))]
      BY <2>3 DEF DrainBalances
    <3>3. /\ Left(Drained("bal")).left = Keys("bal") /\ Left(Drained("bal")).key = None
          /\ Left(Drained("bal")).rows = Empty
          /\ Left(Drained("bal")).domain = "none" => Left(Drained("bal")).left = {}
      BY DEF Left, Drained, Finished, NoSweep
    <3> QED
      BY <2>1, <2>3, <3>1, <3>2, <3>3 DEF DrainBalances, handlers, durable, history, bounds, Calm
  <2> QED
    BY <2>2, <2>3
<1> HIDE DEF w
<1>2. SweepMoves(s)
  BY <1>1 DEF SweepMoves, BalanceInv
<1>3. Sweeping'
  <2>1. \A k \in Keys(domain) : Keyed(k)
    BY DEF Keys, Sweeping
  <2> QED
    BY <1>1, <2>1 DEF Sweeping, Keyed, w
<1>4. ASSUME NEW a, a[2] \in Currencies
      PROVE  /\ Waiting(a) \/ Drawn(a) => Waiting(a)' \/ Drawn(a)'
             /\ \A t \in Sweeps : Carries(t, a) <=> Carries(t, a)'
  <2>1. KeyOf(a) # None
    BY <1>4, KeyIsAKey
  <2>2. KeyOf(a) \in dirty => KeyOf(a) \in dirty' \/ KeyOf(a) \in w.left
    BY <1>1 DEF Keys
  <2>3. Drawn(a) => Drawn(a)'
    BY <1>1 DEF Drawn, KeyOf
  <2>4. Waiting(a) => Waiting(a)' \/ Drawn(a)'
    BY <1>1, <2>2 DEF Waiting, Drawn, KeyOf, w
  <2>5. \A t \in Sweeps : Carries(t, a) <=> Carries(t, a)'
    BY <1>1, <2>1 DEF Carries, KeyOf, w
  <2> QED
    BY <2>3, <2>4, <2>5
<1>5. ASSUME NEW t \in Sweeps, NEW a \in DOMAIN sweep'[t].rows
      PROVE  t # s /\ sweep'[t] = sweep[t]
  BY <1>1, <1>5 DEF Empty, w
<1>6. ASSUME Calm' PROVE OnItsWay'
  <2>1. OnItsWay
    BY <1>1, <1>6
  <2>2. ASSUME NEW a \in DOMAIN bal
        PROVE  \/ a \in DOMAIN balances /\ balances[a].asOf >= bal[a].asOf
               \/ Waiting(a)' \/ Drawn(a)'
               \/ \E t \in Sweeps : Carries(t, a)' /\ sweep'[t].rows[a].asOf >= bal[a].asOf
    <3>1. a[2] \in Currencies
      BY DEF Entries
    <3>2. ASSUME NEW t \in Sweeps, Carries(t, a), sweep[t].rows[a].asOf >= bal[a].asOf
          PROVE  Carries(t, a)' /\ sweep'[t].rows[a].asOf >= bal[a].asOf
      BY <1>4, <1>5, <3>1, <3>2 DEF Carries
    <3> QED
      BY <1>4, <2>1, <3>1, <3>2 DEF OnItsWay
  <2> QED
    BY <1>1, <2>2 DEF OnItsWay
<1>7. ASSUME "redis" \notin upset' PROVE HashLeads'
  <2>1. HashLeads
    BY <1>1, <1>7
  <2>2. \A q : Account(q)' = Account(q)
    BY <1>1 DEF Account
  <2>3. ASSUME NEW t \in Sweeps, NEW a \in DOMAIN sweep'[t].rows, Carries(t, a)'
        PROVE  a \in DOMAIN bal /\ sweep'[t].rows[a].asOf <= bal[a].asOf
    <3>1. sweep'[t] = sweep[t]
      BY <1>5
    <3>2. Carries(t, a)
      BY <2>3, <3>1 DEF Carries, KeyOf
    <3> QED
      BY <2>1, <3>1, <3>2 DEF HashLeads
  <2> QED
    BY <1>1, <2>1, <2>2, <2>3 DEF HashLeads, Neutral
<1>8. ASSUME upset' = {} PROVE Ties'
  <2>1. Ties /\ HashLeads
    BY <1>1, <1>8
  <2>2. OneSweep'
    BY <1>1, <1>8, <2>1 DEF Ties, OneSweep
  <2>3. RowIsEntry'
    <3>1. ASSUME NEW a \in DOMAIN bal
          PROVE  \/ a \in DOMAIN balances /\ balances[a].from = bal[a].from
                 \/ Waiting(a)' \/ Drawn(a)'
                 \/ \E t \in Sweeps : Carries(t, a)' /\ sweep'[t].rows[a] = AsRow(bal[a])
      <4>1. a[2] \in Currencies
        BY DEF Entries
      <4>2. ASSUME NEW t \in Sweeps, Carries(t, a), sweep[t].rows[a] = AsRow(bal[a])
            PROVE  Carries(t, a)' /\ sweep'[t].rows[a] = AsRow(bal[a])
        BY <1>4, <1>5, <4>1, <4>2 DEF Carries
      <4> QED
        BY <1>4, <2>1, <4>1, <4>2 DEF Ties, RowIsEntry
    <3> QED
      BY <1>1, <3>1 DEF RowIsEntry, AsRow
  <2>4. HandIsEntry'
    <3>1. ASSUME NEW t \in Sweeps, NEW a \in DOMAIN sweep'[t].rows, Carries(t, a)'
          PROVE  sweep'[t].rows[a] = AsRow(bal[a]) \/ Waiting(a)'
      <4>1. t # s /\ sweep'[t] = sweep[t]
        BY <1>5
      <4>2. Carries(t, a)
        BY <3>1, <4>1 DEF Carries, KeyOf
      <4>3. a \in DOMAIN bal
        BY <2>1, <4>1, <4>2 DEF HashLeads
      <4>4. sweep[t].key # None
        BY <4>2, <4>3, KeyIsAKey DEF Carries, Entries
      <4>5. sweep[t].domain = "none"
        BY <1>1, <1>8, <2>1, <4>1 DEF Ties, OneSweep
      <4> QED
        BY <4>4, <4>5 DEF Sweeping
    <3> QED
      BY <1>1, <3>1 DEF HandIsEntry, AsRow
  <2>5. Unbeaten'
    BY <1>1, <2>1 DEF Ties, Unbeaten, Account, Entry, Neutral
  <2> QED
    BY <2>2, <2>3, <2>4, <2>5 DEF Ties
<1> QED
  BY <1>2, <1>3, <1>6, <1>7, <1>8, HandlersStay

\* A hash that is read is in hand as it is now; a key without a hash goes back.
LEMMA ReadKeeps ==
    ASSUME LatestInv, NEW s \in Sweeps, NEW k \in sweep[s].left, Read(s, k), BalanceInv'
    PROVE  LatestInv'
<1> USE DEF LatestInv
<1> DEFINE w == sweep'[s]
<1>1. /\ sweep[s].key = None
      /\ w.left = sweep[s].left \ {k}
      /\ IF IsSeeded(k)
         THEN /\ w.key = k /\ w.domain = sweep[s].domain
              /\ k[1] # "eco" => w.rows = BalanceRows(k[2])
         ELSE /\ w.key = None /\ w.rows = Empty
              /\ w.domain = sweep[s].domain \/ (w.domain = "none" /\ w.left = {})
      /\ DOMAIN sweep' = Sweeps /\ \A t \in Sweeps \ {s} : sweep'[t] = sweep[t]
      /\ UNCHANGED <<pc, name, found, bal, balances, begun, upset>>
      /\ dirty \subseteq dirty' /\ dirty' \subseteq dirty \cup {k}
  <2>0. DOMAIN sweep = Sweeps /\ sweep[s].key = None
    BY DEF BalanceInv, Read
  <2>1. UNCHANGED <<pc, name, found, bal, balances, begun, upset>>
    BY DEF Read, handlers, durable, history, bounds
  <2>2. dirty \subseteq dirty' /\ dirty' \subseteq dirty \cup {k}
    BY DEF Read
  <2>3. CASE IsSeeded(k)
    <3>1. sweep' = [sweep EXCEPT ![s] = Moved(sweep[s], sweep[s].left \ {k}, k,
                      IF k[1] = "eco" THEN FlowRows(eco[k[2]]) ELSE BalanceRows(k[2]))]
      BY <2>3 DEF Read
    <3> QED
      BY <2>0, <2>1, <2>2, <2>3, <3>1 DEF Moved
  <2>4. CASE ~IsSeeded(k)
    <3> DEFINE m == Moved(sweep[s], sweep[s].left \ {k}, None, Empty)
    <3>1. sweep' = [sweep EXCEPT ![s] = Left(m)]
      BY <2>4 DEF Read
    <3>2. /\ Left(m).left = sweep[s].left \ {k} /\ Left(m).key = None /\ Left(m).rows = Empty
          /\ Left(m).domain = sweep[s].domain \/ (Left(m).domain = "none" /\ Left(m).left = {})
      BY DEF Left, Moved, Finished, NoSweep
    <3> QED
      BY <2>0, <2>1, <2>2, <2>4, <3>1, <3>2
  <2> QED
    BY <2>3, <2>4
<1> HIDE DEF w
<1>2. SweepMoves(s)
  BY <1>1 DEF SweepMoves, BalanceInv
<1>3. Keyed(k) /\ sweep[s].domain # "none"
  BY DEF Sweeping
<1>4. /\ DOMAIN BalanceRows(k[2]) = {x \in DOMAIN bal : x[2] = k[2]}
      /\ \A a \in DOMAIN BalanceRows(k[2]) : BalanceRows(k[2])[a] = AsRow(bal[a])
  BY DEF BalanceRows, AsRow
<1>5. Sweeping'
  <2>1. \A x \in dirty' : Keyed(x)
    BY <1>1, <1>3 DEF Sweeping
  <2>2. /\ w.domain = "none" => w.left = {} /\ w.key = None
        /\ \A x \in w.left : Keyed(x)
        /\ w.key # None => Keyed(w.key)
        /\ w.key # None /\ w.key[1] # "eco" => \A a \in DOMAIN w.rows : a[2] = w.key[2]
    BY <1>1, <1>3, <1>4 DEF Sweeping
  <2> QED
    BY <1>1, <2>1, <2>2 DEF Sweeping, Keyed, w
\* The key of an account in the hash is found seeded, and its entry read.
<1>6. ASSUME NEW a \in DOMAIN bal
      PROVE  /\ Waiting(a) => Waiting(a)'
             /\ Drawn(a) => Drawn(a)' \/ (Carries(s, a)' /\ sweep'[s].rows[a] = AsRow(bal[a]))
             /\ \A t \in Sweeps : Carries(t, a) => t # s
  <2>1. KeyOf(a) # None /\ KeyOf(a)[1] # "eco" /\ KeyOf(a)[2] = a[2]
    BY KeyIsAKey DEF Entries
  <2>2. Waiting(a) => Waiting(a)'
    BY <1>1 DEF Waiting, KeyOf
  <2>3. \A t \in Sweeps : Carries(t, a) => t # s
    BY <1>1, <2>1 DEF Carries
  <2>4. CASE k = KeyOf(a)
    <3>1. IsSeeded(k)
      BY <2>1, <2>4 DEF IsSeeded
    <3>2. w.key = KeyOf(a) /\ w.rows = BalanceRows(a[2])
      BY <1>1, <2>1, <2>4, <3>1
    <3>3. a \in DOMAIN w.rows /\ w.rows[a] = AsRow(bal[a])
      BY <1>4, <2>1, <2>4, <3>2
    <3> QED
      BY <2>2, <2>3, <3>2, <3>3 DEF Carries, KeyOf, w
  <2>5. CASE k # KeyOf(a)
    <3>1. Drawn(a) => Drawn(a)'
      BY <1>1, <2>5 DEF Drawn, KeyOf, w
    <3> QED
      BY <2>2, <2>3, <3>1
  <2> QED
    BY <2>4, <2>5
<1>7. ASSUME NEW t \in Sweeps, NEW a \in DOMAIN sweep'[t].rows, Carries(t, a)', a[2] \in Currencies
      PROVE  \/ t = s /\ a \in DOMAIN bal /\ sweep'[t].rows[a] = AsRow(bal[a])
             \/ t # s /\ sweep'[t] = sweep[t] /\ Carries(t, a)
  <2>1. CASE t = s
    <3>1. w.key = KeyOf(a) /\ KeyOf(a) # None /\ KeyOf(a)[1] # "eco"
      BY <1>7, <2>1, KeyIsAKey DEF Carries, KeyOf, w
    <3>2. w.rows = BalanceRows(k[2]) /\ w.key = k
      BY <1>1, <3>1
    <3> QED
      BY <1>4, <1>7, <2>1, <3>2 DEF w
  <2>2. CASE t # s
    BY <1>1, <1>7, <2>2 DEF Carries, KeyOf
  <2> QED
    BY <2>1, <2>2
<1>8. \A a \in DOMAIN bal : bal[a].asOf \in Nat /\ AsRow(bal[a]).asOf = bal[a].asOf /\ a[2] \in Currencies
  BY DEF BalanceInv, AsRow, Entries
<1>9. ASSUME Calm' PROVE OnItsWay'
  <2>1. OnItsWay
    BY <1>1, <1>9 DEF Calm
  <2>2. ASSUME NEW a \in DOMAIN bal
        PROVE  \/ a \in DOMAIN balances /\ balances[a].asOf >= bal[a].asOf
               \/ Waiting(a)' \/ Drawn(a)'
               \/ \E t \in Sweeps : Carries(t, a)' /\ sweep'[t].rows[a].asOf >= bal[a].asOf
    <3>1. CASE a \in DOMAIN balances /\ balances[a].asOf >= bal[a].asOf
      BY <3>1
    <3>2. CASE Waiting(a) \/ Drawn(a)
      BY <1>6, <1>8, <3>2
    <3>3. CASE \E t \in Sweeps : Carries(t, a) /\ sweep[t].rows[a].asOf >= bal[a].asOf
      BY <1>1, <1>6, <3>3 DEF Carries, KeyOf
    <3> QED
      BY <2>1, <3>1, <3>2, <3>3 DEF OnItsWay
  <2> QED
    BY <1>1, <2>2 DEF OnItsWay
<1>10. ASSUME "redis" \notin upset' PROVE HashLeads'
  <2>1. HashLeads
    BY <1>1, <1>10
  <2>2. \A q : Account(q)' = Account(q)
    BY <1>1 DEF Account
  <2>3. ASSUME NEW t \in Sweeps, NEW a \in DOMAIN sweep'[t].rows, Carries(t, a)'
        PROVE  a \in DOMAIN bal /\ sweep'[t].rows[a].asOf <= bal[a].asOf
    <3>1. CASE t # s
      <4>1. sweep'[t] = sweep[t] /\ Carries(t, a)
        BY <1>1, <2>3, <3>1 DEF Carries, KeyOf
      <4> QED
        BY <2>1, <2>3, <4>1 DEF HashLeads
    <3>2. CASE t = s /\ IsSeeded(k) /\ k[1] # "eco"
      BY <1>1, <1>4, <1>8, <2>3, <3>2 DEF w
    <3>3. CASE t = s /\ ~IsSeeded(k)
      BY <1>1, <2>3, <3>3 DEF w, Empty
    <3>4. CASE t = s /\ IsSeeded(k) /\ k[1] = "eco"
      <4>1. KeyOf(a) = k
        BY <1>1, <2>3, <3>4 DEF Carries, KeyOf, w
      <4> QED
        BY <3>4, <4>1 DEF KeyOf
    <3> QED
      BY <3>1, <3>2, <3>3, <3>4
  <2> QED
    BY <1>1, <2>1, <2>2, <2>3 DEF HashLeads, Neutral
<1>11. ASSUME upset' = {} PROVE Ties'
  <2>1. Ties /\ HashLeads /\ HashLeads'
    BY <1>1, <1>10, <1>11
  <2>2. OneSweep'
    BY <1>1, <1>3, <2>1 DEF Ties, OneSweep, w
  <2>3. RowIsEntry'
    <3>1. ASSUME NEW a \in DOMAIN bal
          PROVE  \/ a \in DOMAIN balances /\ balances[a].from = bal[a].from
                 \/ Waiting(a)' \/ Drawn(a)'
                 \/ \E t \in Sweeps : Carries(t, a)' /\ sweep'[t].rows[a] = AsRow(bal[a])
      <4>1. CASE a \in DOMAIN balances /\ balances[a].from = bal[a].from
        BY <4>1
      <4>2. CASE Waiting(a) \/ Drawn(a)
        BY <1>6, <4>2
      <4>3. CASE \E t \in Sweeps : Carries(t, a) /\ sweep[t].rows[a] = AsRow(bal[a])
        BY <1>1, <1>6, <4>3 DEF Carries, KeyOf
      <4> QED
        BY <2>1, <4>1, <4>2, <4>3 DEF Ties, RowIsEntry
    <3> QED
      BY <1>1, <3>1 DEF RowIsEntry, AsRow
  <2>4. HandIsEntry'
    <3>1. ASSUME NEW t \in Sweeps, NEW a \in DOMAIN sweep'[t].rows, Carries(t, a)'
          PROVE  sweep'[t].rows[a] = AsRow(bal[a]) \/ Waiting(a)'
      <4>1. a \in DOMAIN bal
        BY <1>1, <2>1, <3>1 DEF HashLeads
      <4>2. CASE t = s
        BY <1>7, <1>8, <3>1, <4>1, <4>2
      <4>3. CASE t # s
        BY <1>6, <1>7, <1>8, <2>1, <3>1, <4>1, <4>3 DEF Ties, HandIsEntry
      <4> QED
        BY <4>2, <4>3
    <3> QED
      BY <1>1, <3>1 DEF HandIsEntry, AsRow
  <2>5. Unbeaten'
    BY <1>1, <2>1 DEF Ties, Unbeaten, Account, Entry, Neutral
  <2> QED
    BY <2>2, <2>3, <2>4, <2>5 DEF Ties
<1> QED
  BY <1>2, <1>5, <1>9, <1>10, <1>11, HandlersStay

\* A row that is written is the newer of what was there and what was in hand.
LEMMA WriteKeeps ==
    ASSUME LatestInv, NEW s \in Sweeps, Write(s), BalanceInv'
    PROVE  LatestInv'
<1> USE DEF LatestInv
<1> DEFINE w == sweep'[s]
           rows == sweep[s].rows
           ours == sweep[s].key[1] # "eco"
<1>1. /\ sweep[s].key # None
      /\ w.left = sweep[s].left /\ w.key = None /\ w.rows = Empty
      /\ w.domain = sweep[s].domain \/ (w.domain = "none" /\ w.left = {})
      /\ DOMAIN sweep' = Sweeps /\ \A t \in Sweeps \ {s} : sweep'[t] = sweep[t]
      /\ UNCHANGED <<pc, name, found, bal, dirty, begun, upset>>
      /\ IF ours THEN balances' = MergedBalance(balances, rows) ELSE balances' = balances
  <2> DEFINE m == Moved(sweep[s], sweep[s].left, None, Empty)
  <2>1. sweep' = [sweep EXCEPT ![s] = Left(m)] /\ DOMAIN sweep = Sweeps
    BY DEF Write, BalanceInv
  <2>2. /\ Left(m).left = sweep[s].left /\ Left(m).key = None /\ Left(m).rows = Empty
        /\ Left(m).domain = sweep[s].domain \/ (Left(m).domain = "none" /\ Left(m).left = {})
    BY DEF Left, Moved, Finished, NoSweep
  <2>3. UNCHANGED <<pc, name, found, bal, dirty, begun, upset>> /\ sweep[s].key # None
    BY DEF Write, handlers, hot, history, bounds
  <2>4. IF ours THEN balances' = MergedBalance(balances, rows) ELSE balances' = balances
    BY DEF Write
  <2> HIDE DEF m
  <2> QED
    BY <2>1, <2>2, <2>3, <2>4
<1> HIDE DEF w
<1>2. \A a \in DOMAIN balances : balances[a].asOf \in Nat
  BY DEF BalanceInv
<1>3. ours => \A a \in DOMAIN rows : rows[a].asOf \in Nat /\ Carries(s, a)
  <2>1. ours => \A a \in DOMAIN rows : rows[a].asOf \in Nat
    BY <1>1 DEF BalanceInv, InHand
  <2>2. ours => \A a \in DOMAIN rows : sweep[s].key = KeyOf(a)
    BY <1>1 DEF Sweeping, Keyed, KeyOf
  <2> QED
    BY <2>1, <2>2 DEF Carries
<1>4. /\ ours => /\ DOMAIN balances' = DOMAIN balances \cup DOMAIN rows
                 /\ \A a \in DOMAIN balances \ DOMAIN rows : balances'[a] = balances[a]
                 /\ \A a \in DOMAIN rows :
                      /\ balances'[a].asOf >= rows[a].asOf
                      /\ \/ balances'[a] = rows[a]
                         \/ a \in DOMAIN balances /\ balances'[a] = balances[a] /\ rows[a].asOf < balances[a].asOf
      /\ ours => \A a \in DOMAIN balances : a \in DOMAIN balances' /\ balances'[a].asOf >= balances[a].asOf
      /\ ~ours => balances' = balances
  <2>1. CASE ours
    <3>1. balances' = MergedBalance(balances, rows)
      BY <1>1, <2>1
    <3>2. \A a \in DOMAIN rows : rows[a].asOf \in Nat
      BY <1>3, <2>1
    <3>3. \A a \in DOMAIN balances : a \in DOMAIN balances' /\ balances'[a].asOf >= balances[a].asOf
      BY <1>2, <3>1, <3>2, UpsertRises
    <3>4. /\ DOMAIN balances' = DOMAIN balances \cup DOMAIN rows
          /\ \A a \in DOMAIN balances \ DOMAIN rows : balances'[a] = balances[a]
          /\ \A a \in DOMAIN rows :
               /\ balances'[a].asOf >= rows[a].asOf
               /\ \/ balances'[a] = rows[a]
                  \/ a \in DOMAIN balances /\ balances'[a] = balances[a] /\ rows[a].asOf < balances[a].asOf
      <4> HIDE DEF rows
      <4> DEFINE merged == MergedBalance(balances, rows)
      <4>1. /\ DOMAIN merged = DOMAIN balances \cup DOMAIN rows
            /\ \A a \in DOMAIN balances \ DOMAIN rows : merged[a] = balances[a]
            /\ \A a \in DOMAIN rows :
                 /\ merged[a].asOf >= rows[a].asOf
                 /\ merged[a] = rows[a]
                    \/ (a \in DOMAIN balances /\ merged[a] = balances[a] /\ rows[a].asOf < balances[a].asOf)
        BY <1>2, <3>2, UpsertCovers
      <4>2. balances' = merged
        BY <3>1
      <4> HIDE DEF merged
      <4> QED
        BY <4>1, <4>2
    <3> QED
      BY <2>1, <3>3, <3>4
  <2>2. CASE ~ours
    BY <1>1, <2>2
  <2> QED
    BY <2>1, <2>2
<1>5. \A a \in DOMAIN balances : a \in DOMAIN balances' /\ balances'[a].asOf >= balances[a].asOf
  BY <1>2, <1>4
<1>6. SweepMoves(s)
  BY <1>1, <1>5 DEF SweepMoves
<1>7. Sweeping'
  <2>1. /\ w.domain = "none" => w.left = {} /\ w.key = None
        /\ \A x \in w.left : Keyed(x)
    BY <1>1 DEF Sweeping
  <2> QED
    BY <1>1, <2>1 DEF Sweeping, Keyed, w
<1>8. \A a : Waiting(a)' = Waiting(a) /\ (Drawn(a) => Drawn(a)')
             /\ \A t \in Sweeps \ {s} : Carries(t, a)' = Carries(t, a)
  BY <1>1 DEF Waiting, Drawn, Carries, KeyOf, w
<1>9. \A a \in DOMAIN bal : /\ bal[a].asOf \in Nat /\ AsRow(bal[a]).asOf = bal[a].asOf
                            /\ AsRow(bal[a]).from = bal[a].from
                            /\ KeyOf(a)[1] # "eco"
  BY KeyIsAKey DEF BalanceInv, AsRow, Entries
<1>10. \A a \in DOMAIN balances' : balances'[a].asOf \in Nat
  BY DEF BalanceInv
<1>11. ASSUME Calm' PROVE OnItsWay'
  <2>1. OnItsWay
    BY <1>1, <1>11 DEF Calm
  <2>2. ASSUME NEW a \in DOMAIN bal
        PROVE  \/ a \in DOMAIN balances' /\ balances'[a].asOf >= bal[a].asOf
               \/ Waiting(a)' \/ Drawn(a)'
               \/ \E t \in Sweeps : Carries(t, a)' /\ sweep'[t].rows[a].asOf >= bal[a].asOf
    <3>1. CASE a \in DOMAIN balances /\ balances[a].asOf >= bal[a].asOf
      BY <1>2, <1>5, <1>9, <1>10, <3>1
    <3>2. CASE Waiting(a) \/ Drawn(a)
      BY <1>8, <3>2
    <3>3. ASSUME NEW t \in Sweeps, Carries(t, a), sweep[t].rows[a].asOf >= bal[a].asOf, t # s
          PROVE  Carries(t, a)' /\ sweep'[t].rows[a].asOf >= bal[a].asOf
      BY <1>1, <1>8, <3>3
    <3>4. ASSUME Carries(s, a), sweep[s].rows[a].asOf >= bal[a].asOf
          PROVE  a \in DOMAIN balances' /\ balances'[a].asOf >= bal[a].asOf
      <4>1. ours /\ a \in DOMAIN rows
        BY <1>9, <3>4 DEF Carries
      <4>2. /\ a \in DOMAIN balances' /\ balances'[a].asOf >= rows[a].asOf
            /\ rows[a].asOf \in Nat
        BY <1>3, <1>4, <4>1
      <4> QED
        BY <1>9, <1>10, <3>4, <4>2
    <3> QED
      BY <2>1, <3>1, <3>2, <3>3, <3>4 DEF OnItsWay
  <2> QED
    BY <1>1, <2>2 DEF OnItsWay
<1>12. ASSUME NEW t \in Sweeps, NEW a \in DOMAIN sweep'[t].rows
       PROVE  t # s /\ sweep'[t] = sweep[t] /\ Carries(t, a)' = Carries(t, a)
  <2>1. t # s
    BY <1>1, <1>12 DEF Empty, w
  <2> QED
    BY <1>1, <1>8, <2>1
<1>13. ASSUME HashLeads, NEW a \in DOMAIN balances', a \notin DOMAIN bal
       PROVE  a \in DOMAIN balances /\ balances'[a] = balances[a]
  <2>1. ours => a \notin DOMAIN rows
    BY <1>3, <1>13 DEF HashLeads
  <2> QED
    BY <1>4, <1>13, <2>1
<1>14. ASSUME "redis" \notin upset' PROVE HashLeads'
  <2>1. HashLeads
    BY <1>1, <1>14
  <2>2. \A q : Account(q)' = Account(q)
    BY <1>1 DEF Account
  <2>3. ASSUME NEW a \in DOMAIN balances'
        PROVE  IF a \in DOMAIN bal THEN bal[a].asOf >= balances'[a].asOf
                                   ELSE balances'[a].from \notin Records
    <3>1. CASE a \notin DOMAIN bal
      BY <1>13, <2>1, <3>1 DEF HashLeads
    <3>2. CASE a \in DOMAIN bal /\ ours /\ a \in DOMAIN rows
      <4>1. rows[a].asOf <= bal[a].asOf
        BY <1>3, <2>1, <3>2 DEF HashLeads
      <4>2. a \in DOMAIN balances => bal[a].asOf >= balances[a].asOf
        BY <2>1, <3>2 DEF HashLeads
      <4>3. \/ balances'[a].asOf = rows[a].asOf
            \/ a \in DOMAIN balances /\ balances'[a].asOf = balances[a].asOf
        BY <1>4, <3>2
      <4>4. rows[a].asOf \in Nat /\ bal[a].asOf \in Nat
        BY <1>3, <1>9, <3>2
      <4> QED
        BY <1>2, <3>2, <4>1, <4>2, <4>3, <4>4
    <3>3. CASE a \in DOMAIN bal /\ ~(ours /\ a \in DOMAIN rows)
      <4>1. a \in DOMAIN balances /\ balances'[a] = balances[a]
        BY <1>4, <3>3
      <4> QED
        BY <2>1, <3>3, <4>1 DEF HashLeads
    <3> QED
      BY <3>1, <3>2, <3>3
  <2>4. ASSUME NEW t \in Sweeps, NEW a \in DOMAIN sweep'[t].rows, Carries(t, a)'
        PROVE  a \in DOMAIN bal /\ sweep'[t].rows[a].asOf <= bal[a].asOf
    BY <1>12, <2>1, <2>4 DEF HashLeads
  <2>5. ASSUME NEW r \in Records, pc[r] = "decide", Account(r) \notin DOMAIN bal,
               Account(r) \in DOMAIN balances'
        PROVE  /\ Account(r) \in DOMAIN found[r]
               /\ found[r][Account(r)] = Neutral(balances'[Account(r)])
    BY <1>13, <2>1, <2>5 DEF HashLeads
  <2> QED
    BY <1>1, <2>2, <2>3, <2>4, <2>5 DEF HashLeads, Neutral
<1>15. ASSUME upset' = {} PROVE Ties'
  <2>1. Ties /\ HashLeads
    BY <1>1, <1>15
  <2>2. OneSweep'
    BY <1>1, <2>1 DEF Ties, OneSweep, w
  <2>3. RowIsEntry'
    <3>1. ASSUME NEW a \in DOMAIN bal
          PROVE  \/ a \in DOMAIN balances' /\ balances'[a].from = bal[a].from
                 \/ Waiting(a)' \/ Drawn(a)'
                 \/ \E t \in Sweeps : Carries(t, a)' /\ sweep'[t].rows[a] = AsRow(bal[a])
      <4>1. CASE Waiting(a) \/ Drawn(a)
        BY <1>8, <4>1
      <4>2. ASSUME NEW t \in Sweeps, Carries(t, a), sweep[t].rows[a] = AsRow(bal[a]), t # s
            PROVE  Carries(t, a)' /\ sweep'[t].rows[a] = AsRow(bal[a])
        BY <1>1, <1>8, <4>2
      <4>3. CASE Carries(s, a) /\ rows[a] = AsRow(bal[a])
        <5>1. ours /\ a \in DOMAIN rows
          BY <1>9, <4>3 DEF Carries
        <5>2. a \in DOMAIN balances => bal[a].asOf >= balances[a].asOf
          BY <2>1 DEF HashLeads
        <5>3. ~(a \in DOMAIN balances /\ rows[a].asOf < balances[a].asOf)
          BY <1>2, <1>9, <4>3, <5>2
        <5>4. a \in DOMAIN balances' /\ balances'[a] = rows[a]
          BY <1>4, <5>1, <5>3
        <5> QED
          BY <1>9, <4>3, <5>4
      <4>4. CASE a \in DOMAIN balances /\ balances[a].from = bal[a].from
        <5>1. CASE ours /\ a \in DOMAIN rows /\ ~Waiting(a)
          <6>1. rows[a] = AsRow(bal[a])
            BY <1>3, <2>1, <5>1 DEF Ties, HandIsEntry
          <6>2. a \in DOMAIN balances' /\ (balances'[a] = rows[a] \/ balances'[a] = balances[a])
            BY <1>4, <5>1
          <6> QED
            BY <1>9, <4>4, <6>1, <6>2
        <5>2. CASE ~(ours /\ a \in DOMAIN rows)
          BY <1>4, <4>4, <5>2
        <5> QED
          BY <1>8, <5>1, <5>2
      <4> QED
        BY <2>1, <4>1, <4>2, <4>3, <4>4 DEF Ties, RowIsEntry
    <3> QED
      BY <1>1, <3>1 DEF RowIsEntry, AsRow
  <2>4. HandIsEntry'
    <3>1. ASSUME NEW t \in Sweeps, NEW a \in DOMAIN sweep'[t].rows, Carries(t, a)'
          PROVE  sweep'[t].rows[a] = AsRow(bal[a]) \/ Waiting(a)'
      BY <1>8, <1>12, <2>1, <3>1 DEF Ties, HandIsEntry
    <3> QED
      BY <1>1, <3>1 DEF HandIsEntry, AsRow
  <2>5. Unbeaten'
    <3>1. ASSUME NEW r \in Depth \cap begun, pc[r] \in {"markBal", "done"}
          PROVE  IF Account(r) \in DOMAIN bal THEN ~IncomingWins(Entry(r), bal[Account(r)])
                 ELSE /\ Account(r) \in DOMAIN balances'
                      /\ ~IncomingWins(Entry(r), Neutral(balances'[Account(r)]))
      BY <1>5, <1>13, <2>1, <3>1 DEF Ties, Unbeaten
    <3>2. \A q : Account(q)' = Account(q) /\ Entry(q)' = Entry(q)
      BY <1>1 DEF Account, Entry
    <3> QED
      BY <1>1, <3>1, <3>2 DEF Unbeaten, Neutral
  <2> QED
    BY <2>2, <2>3, <2>4, <2>5 DEF Ties
<1> QED
  BY <1>6, <1>7, <1>11, <1>14, <1>15, HandlersStay

LEMMA SweepThrowsKeeps ==
    ASSUME LatestInv, NEW s \in Sweeps, SweepThrows(s), BalanceInv'
    PROVE  LatestInv'
<1> USE DEF LatestInv
<1>1. /\ sweep' = [sweep EXCEPT ![s] = NoSweep] /\ upset' = upset \cup {"sweep"}
      /\ UNCHANGED <<pc, name, found, bal, dirty, begun, balances>>
  BY DEF SweepThrows, handlers, hot, durable, history
<1>2. DOMAIN sweep = Sweeps /\ sweep'[s] = NoSweep /\ \A t \in Sweeps \ {s} : sweep'[t] = sweep[t]
  BY <1>1 DEF BalanceInv
<1>3. SweepMoves(s)
  BY <1>1, <1>2 DEF SweepMoves, BalanceInv
<1>4. Sweeping'
  BY <1>1, <1>2 DEF Sweeping, Keyed, NoSweep
<1>5. ~Calm' /\ upset' # {}
  BY <1>1 DEF Calm
<1>6. ASSUME "redis" \notin upset' PROVE HashLeads'
  <2>1. HashLeads
    BY <1>1, <1>6
  <2>2. ASSUME NEW t \in Sweeps, NEW a \in DOMAIN sweep'[t].rows, Carries(t, a)'
        PROVE  a \in DOMAIN bal /\ sweep'[t].rows[a].asOf <= bal[a].asOf
    <3>1. t # s /\ sweep'[t] = sweep[t]
      BY <1>2, <2>2 DEF NoSweep, Empty
    <3>2. Carries(t, a)
      BY <2>2, <3>1 DEF Carries, KeyOf
    <3> QED
      BY <2>1, <2>2, <3>1, <3>2 DEF HashLeads
  <2>3. \A q : Account(q)' = Account(q)
    BY <1>1 DEF Account
  <2> QED
    BY <1>1, <2>1, <2>2, <2>3 DEF HashLeads, Neutral
<1> QED
  BY <1>3, <1>4, <1>5, <1>6, HandlersStay

-----------------------------------------------------------------------------

LEMMA LatestNext == LatestInv /\ [Next]_vars => LatestInv'
<1> SUFFICES ASSUME LatestInv, [Next]_vars PROVE LatestInv'
  OBVIOUS
<1>0. BalanceInv'
  BY BalanceNext DEF LatestInv
<1>1. ASSUME UNCHANGED <<pc, name, found, bal, balances, dirty, sweep, begun, upset>>
      PROVE  LatestInv'
  <2>1. Reading' /\ Sweeping'
    BY <1>1 DEF LatestInv, Reading, Sweeping, Keyed, Account
  <2>2. Entries' /\ Known'
    BY <1>1 DEF LatestInv, Entries, Known, Account, Entry
  <2>3. \A r \in begun' : r \in Records /\ pc'[r] # "queued"
    BY <1>1 DEF LatestInv
  <2>4. OnItsWay => OnItsWay'
    BY <1>1 DEF OnItsWay, Waiting, Drawn, Carries, KeyOf
  <2>5. HashLeads => HashLeads'
    BY <1>1 DEF HashLeads, Carries, KeyOf, Account
  <2>6. OneSweep => OneSweep'
    BY <1>1 DEF OneSweep
  <2>7. RowIsEntry => RowIsEntry'
    BY <1>1 DEF RowIsEntry, Waiting, Drawn, Carries, KeyOf, AsRow
  <2>8. HandIsEntry => HandIsEntry'
    BY <1>1 DEF HandIsEntry, Waiting, Carries, KeyOf, AsRow
  <2>9. Unbeaten => Unbeaten'
    BY <1>1 DEF Unbeaten, Account, Entry, Neutral
  <2> QED
    BY <1>0, <1>1, <2>1, <2>2, <2>3, <2>4, <2>5, <2>6, <2>7, <2>8, <2>9 DEF LatestInv, Ties, Calm
<1>2. CASE UNCHANGED vars
  BY <1>1, <1>2 DEF vars, handlers, hot, durable, history, bounds
<1>3. ASSUME NEW r \in Records, Handle(r) PROVE LatestInv'
  <2>1. CASE Decide(r)
    BY <1>0, <2>1, DecideKeeps
  <2>2. CASE MarkBalance(r)
    BY <1>0, <2>2, MarkBalanceKeeps
  <2>3. CASE ~Decide(r) /\ ~MarkBalance(r)
    <3>1. Early(r) /\ UNCHANGED upset
      BY <1>3, <2>3, EarlySteps DEF Handle
    <3> QED
      BY <1>0, <3>1, EarlyKeeps
  <2> QED
    BY <2>1, <2>2, <2>3
<1>4. ASSUME NEW s \in Sweeps, Flush(s) \/ SweepThrows(s) PROVE LatestInv'
  <2>1. CASE DrainFlows(s) \/ DrainBalances(s)
    BY <1>0, <2>1, DrainKeeps
  <2>2. CASE Write(s)
    BY <1>0, <2>2, WriteKeeps
  <2>3. CASE \E k \in sweep[s].left : Read(s, k)
    BY <1>0, <2>3, ReadKeeps
  <2>4. CASE SweepThrows(s)
    BY <1>0, <2>4, SweepThrowsKeeps
  <2> QED
    BY <1>4, <2>1, <2>2, <2>3, <2>4 DEF Flush
<1>5. CASE LoseRedis
  BY <1>0, <1>5, LoseRedisKeeps
<1>6. ASSUME NEW r \in Records, Throw(r) PROVE LatestInv'
  BY <1>0, <1>6, ThrowKeeps
<1>7. CASE (\E c \in Viewed : \E open \in BOOLEAN : ReadRows(c, open)) \/ MergeLive
  BY <1>1, <1>7 DEF ReadRows, MergeLive, handlers, hot, durable, history, bounds
<1> QED
  BY <1>2, <1>3, <1>4, <1>5, <1>6, <1>7 DEF Next

\* At rest nothing waits, is drawn or is carried.
LEMMA AtRest == LatestInv => LatestBalanceWins
<1> SUFFICES ASSUME LatestInv, Settled, upset \subseteq {"redis", "overlap"},
                    NEW r \in Depth \cap begun, pc[r] = "done"
             PROVE  /\ Account(r) \in DOMAIN balances
                    /\ balances[Account(r)].asOf >= AsOf[r]
                    /\ upset = {} /\ balances[Account(r)].from \in Records =>
                           ~IncomingWins(Entry(r), Entry(balances[Account(r)].from))
  BY DEF LatestBalanceWins
<1> USE DEF LatestInv
<1> DEFINE a == Account(r)
<1>1. \A b \in DOMAIN bal : ~Waiting(b) /\ ~Drawn(b) /\ \A s \in Sweeps : ~Carries(s, b)
  <2>1. \A q \in Records : pc[q] # "markBal"
    BY DEF Settled, InHook
  <2>2. dirty = {} /\ \A s \in Sweeps : sweep[s].left = {} /\ sweep[s].key = None
    BY DEF Settled, Sweeping
  <2>3. \A b \in DOMAIN bal : KeyOf(b) # None
    BY KeyIsAKey DEF Entries
  <2> QED
    BY <2>1, <2>2, <2>3 DEF Waiting, Drawn, Carries
<1>2. OnItsWay
  BY DEF Calm
<1>3. \A b \in DOMAIN bal : b \in DOMAIN balances /\ balances[b].asOf >= bal[b].asOf
  BY <1>1, <1>2 DEF OnItsWay
<1>4. AsOf[r] \in Nat
  OBVIOUS
<1>5. (\A b \in DOMAIN bal : bal[b].asOf \in Nat) /\ \A b \in DOMAIN balances : balances[b].asOf \in Nat
  BY DEF BalanceInv
<1>6. \/ a \in DOMAIN balances /\ balances[a].asOf >= AsOf[r]
      \/ a \in DOMAIN bal /\ bal[a].asOf >= AsOf[r]
  BY DEF Known
<1>7. a \in DOMAIN balances /\ balances[a].asOf >= AsOf[r]
  BY <1>3, <1>4, <1>5, <1>6
<1>8. ASSUME upset = {}, balances[a].from \in Records
      PROVE  ~IncomingWins(Entry(r), Entry(balances[a].from))
  <2>1. HashLeads /\ Ties
    BY <1>8
  <2>2. a \in DOMAIN bal
    BY <1>7, <1>8, <2>1 DEF HashLeads
  <2>3. ~IncomingWins(Entry(r), bal[a])
    BY <2>1, <2>2 DEF Ties, Unbeaten
  <2>4. balances[a].from = bal[a].from
    BY <1>1, <2>1, <2>2 DEF Ties, RowIsEntry
  <2>5. bal[a] = Entry(bal[a].from)
    BY <2>2 DEF Entries
  <2> QED
    BY <2>3, <2>4, <2>5
<1> QED
  BY <1>7, <1>8

\* When handlers and sweeps have come to rest and none of them threw, Postgres has for
\* every account a balance no older than any that was brought since Redis was last
\* lost, and without overlapping sweeps or a loss the one that beats all others by the
\* documented tie-break, for any records, orders of arrival and number of sweeps
\* (balance-lww.service.ts, economy-flush-plans.ts).
THEOREM LatestWins == Spec => []LatestBalanceWins
BY LatestInit, LatestNext, AtRest, PTL DEF Spec

-----------------------------------------------------------------------------
(* Sums over sets of records.  The recursion a sum is defined by has one   *)
(* solution on finite sets, and the size of the set with one element for   *)
(* each unit of each record is one.                                        *)

LEMMA WeightType ==
    ASSUME NEW r \in Records, NEW m \in Measures
    PROVE  Weight(r, m) \in Nat
<1>1. AmountOf[r] \in Nat
  OBVIOUS
<1>2. AmountOf[r] \div 10 \in Nat
  BY <1>1
<1> QED
  BY <1>2 DEF Weight, Whole

\* One element for each unit of each record.
Units(rs, m) == UNION {{r} \X (1 .. Weight(r, m)) : r \in rs}

LEMMA UnitsFinite ==
    ASSUME NEW rs \in SUBSET Records, IsFiniteSet(rs), NEW m \in Measures
    PROVE  IsFiniteSet(Units(rs, m)) /\ Cardinality(Units(rs, m)) \in Nat
<1> DEFINE Part == {{r} \X (1 .. Weight(r, m)) : r \in rs}
           f == [r \in rs |-> {r} \X (1 .. Weight(r, m))]
<1>1. f \in Surjection(rs, Part)
  BY DEF Surjection
<1>2. IsFiniteSet(Part)
  BY <1>1, FS_Surjection
<1>3. ASSUME NEW p \in Part PROVE IsFiniteSet(p)
  <2>1. PICK r \in rs : p = {r} \X (1 .. Weight(r, m))
    OBVIOUS
  <2>2. PICK n \in Nat : n = Weight(r, m)
    BY WeightType
  <2>3. IsFiniteSet(1 .. n)
    BY FS_Interval
  <2>4. IsFiniteSet({r} \X (1 .. n))
    BY <2>3, FS_Singleton, FS_Product
  <2> QED
    BY <2>1, <2>2, <2>4
<1>4. IsFiniteSet(UNION Part)
  BY <1>2, <1>3, FS_UNION
<1> QED
  BY <1>4, FS_CardinalityType DEF Units

LEMMA UnitsAdd ==
    ASSUME NEW rs \in SUBSET Records, IsFiniteSet(rs), NEW r \in Records \ rs, NEW m \in Measures
    PROVE  Cardinality(Units(rs \cup {r}, m)) = Cardinality(Units(rs, m)) + Weight(r, m)
<1> DEFINE mine == {r} \X (1 .. Weight(r, m))
<1>1. Weight(r, m) \in Nat
  BY WeightType
<1>2. IsFiniteSet({r}) /\ Cardinality({r}) = 1
  BY FS_Singleton
<1>3. IsFiniteSet(1 .. Weight(r, m)) /\ Cardinality(1 .. Weight(r, m)) = Weight(r, m)
  BY <1>1, FS_Interval
<1>4. IsFiniteSet(mine) /\ Cardinality(mine) = Weight(r, m)
  <2>1. IsFiniteSet(mine) /\ Cardinality(mine) = 1 * Weight(r, m)
    BY <1>2, <1>3, FS_Product, ZenonT(60)
  <2> QED
    BY <1>1, <2>1
<1>5. Units(rs \cup {r}, m) = Units(rs, m) \cup mine
  BY DEF Units
<1>6. Units(rs, m) \cap mine = {}
  BY DEF Units
<1>7. Cardinality({}) = 0
  BY FS_EmptySet
<1>8. Cardinality(Units(rs, m) \cup mine) = Cardinality(Units(rs, m)) + Cardinality(mine) - 0
  <2> HIDE DEF mine
  <2> QED
    BY <1>4, <1>6, <1>7, UnitsFinite, FS_Union
<1>9. Cardinality(Units(rs, m)) \in Nat
  BY UnitsFinite
<1> HIDE DEF mine
<1>10. Cardinality(Units(rs \cup {r}, m)) = Cardinality(Units(rs, m) \cup mine)
  BY <1>5
<1>11. Cardinality(Units(rs \cup {r}, m)) = Cardinality(Units(rs, m)) + Cardinality(mine)
  BY <1>1, <1>4, <1>8, <1>9, <1>10
<1> QED
  BY <1>4, <1>11

LEMMA UnitsEmpty == ASSUME NEW m \in Measures PROVE Cardinality(Units({}, m)) = 0
<1>1. Units({}, m) = {}
  BY DEF Units
<1> QED
  BY <1>1, FS_EmptySet

\* The recursive definition of a sum, from one element chosen to the next.
IsFold(f, S, m) ==
    f = [s \in SUBSET S |->
           IF s = {} THEN 0
           ELSE Weight(CHOOSE r \in s : TRUE, m) + f[s \ {CHOOSE r \in s : TRUE}]]

LEMMA SumIsFold ==
    ASSUME NEW S, NEW m, \E f : IsFold(f, S, m)
    PROVE  \E f : IsFold(f, S, m) /\ AddedUp(S, m) = f[S]
<1>1. \E f : AddedUp(S, m) = f[S] /\ f = CHOOSE g : IsFold(g, S, m)
  BY DEF AddedUp, MapThenSumSet, MapThenFoldSet, IsFold
<1> QED
  BY <1>1

LEMMA SumIsSize ==
    ASSUME NEW S \in SUBSET Records, IsFiniteSet(S), NEW m \in Measures
    PROVE  AddedUp(S, m) = Cardinality(Units(S, m))
<1> DEFINE size == [s \in SUBSET S |-> Cardinality(Units(s, m))]
           pick(s) == CHOOSE r \in s : TRUE
<1>1. ASSUME NEW s \in SUBSET S, s # {}
      PROVE  /\ pick(s) \in s
             /\ Cardinality(Units(s, m)) = Weight(pick(s), m) + Cardinality(Units(s \ {pick(s)}, m))
  <2>1. PICK r : r = pick(s)
    OBVIOUS
  <2>2. r \in s
    BY <1>1, <2>1
  <2>3. IsFiniteSet(s \ {r}) /\ s \ {r} \in SUBSET Records /\ r \in Records \ (s \ {r})
    BY <2>2, FS_Subset
  <2>4. (s \ {r}) \cup {r} = s
    BY <2>2
  <2>5. Cardinality(Units(s, m)) = Cardinality(Units(s \ {r}, m)) + Weight(r, m)
    BY <2>3, <2>4, UnitsAdd
  <2>6. Cardinality(Units(s \ {r}, m)) \in Nat /\ Weight(r, m) \in Nat
    BY <2>3, UnitsFinite, WeightType
  <2> QED
    BY <2>1, <2>2, <2>5, <2>6
<1>2. IsFold(size, S, m)
  <2>1. Cardinality(Units({}, m)) = 0
    BY UnitsEmpty
  <2>2. \A s \in SUBSET S : s # {} => s \ {pick(s)} \in SUBSET S
    OBVIOUS
  <2> QED
    BY <1>1, <2>1, <2>2 DEF IsFold
<1>3. PICK f : IsFold(f, S, m) /\ AddedUp(S, m) = f[S]
  BY <1>2, SumIsFold
<1> DEFINE Bad == {s \in SUBSET S : f[s] # size[s]}
<1>4. ASSUME Bad # {} PROVE FALSE
  <2>1. Bad \subseteq FiniteSubsetsOf(S)
    BY FS_Subset DEF FiniteSubsetsOf
  <2>2. PICK x \in Bad : \A y \in Bad : <<y, x>> \notin StrictSubsetOrdering(S)
    <3> HIDE DEF Bad
    <3> QED
      BY <1>4, <2>1, WFMin, FS_StrictSubsetOrderingWellFounded, Zenon
  <2>3. x # {}
    BY <1>2, <1>3 DEF IsFold
  <2>4. PICK y \in SUBSET S : y = x \ {pick(x)}
    OBVIOUS
  <2>5. <<y, x>> \in StrictSubsetOrdering(S)
    BY <1>1, <2>3, <2>4 DEF StrictSubsetOrdering
  <2>6. f[y] = size[y]
    BY <2>2, <2>5
  <2>7. f[x] = Weight(pick(x), m) + f[y] /\ size[x] = Weight(pick(x), m) + size[y]
    BY <1>2, <1>3, <2>3, <2>4, ZenonT(60) DEF IsFold
  <2> QED
    BY <2>2, <2>6, <2>7
<1> QED
  BY <1>3, <1>4

\* What a set of records adds up to, one record at a time.
LEMMA SumEmpty == ASSUME NEW m \in Measures PROVE AddedUp({}, m) = 0
BY SumIsSize, UnitsEmpty, FS_EmptySet

LEMMA SumType ==
    ASSUME NEW S \in SUBSET Records, IsFiniteSet(S), NEW m \in Measures
    PROVE  AddedUp(S, m) \in Nat
BY SumIsSize, UnitsFinite

LEMMA SumAdd ==
    ASSUME NEW S \in SUBSET Records, IsFiniteSet(S), NEW r \in Records \ S, NEW m \in Measures
    PROVE  AddedUp(S \cup {r}, m) = AddedUp(S, m) + Weight(r, m)
<1>1. IsFiniteSet(S \cup {r}) /\ S \cup {r} \in SUBSET Records
  BY FS_AddElement
<1> QED
  BY <1>1, SumIsSize, UnitsAdd
-----------------------------------------------------------------------------
(* The invariant of the flows: what was added is added once, every copy of *)
(* a figure is within what was added, and while nothing was lost or thrown *)
(* the copies are exact or on their way.                                   *)

\* Adding to a bucket of the record, and what is ahead of a handler.
Folding == {"floor", "seed", "amount", "count", "mark"}
Folded == {"look", "read", "decide", "markBal", "done"}
Steps == {"queued", "refused", "failed"} \cup Folding \cup Folded
Plan(r) == IF r \in Segmented THEN Buckets ELSE {"base"}
Plans(r) == IF r \in Segmented THEN {<<"base", "seg">>, <<"seg">>} ELSE {<<"base">>}
Ahead(r, b, m) ==
    \/ todo[r] = <<"base", "seg">> /\ b = "seg"
    \/ /\ b = Bucket(r)
       /\ pc[r] \in {"floor", "seed", "amount"} \/ (pc[r] = "count" /\ m = "count")

\* A handler that adds has not added it before, and in the end has added all.
Once(r) ==
    /\ pc[r] \in Folding => todo[r] \in Plans(r)
    /\ pc[r] = "failed" => "record" \in upset
    /\ \A b \in Buckets, m \in Measures :
         /\ pc[r] \in {"queued", "refused"} => <<r, b, m>> \notin added
         /\ pc[r] \in Folding => (<<r, b, m>> \in added <=> b \in Plan(r) /\ ~Ahead(r, b, m))
         /\ pc[r] \in Folded => (<<r, b, m>> \in added <=> b \in Plan(r))

AddsOnce ==
    /\ pc \in [Records -> Steps] /\ todo = [r \in Records |-> todo[r]]
    /\ added \subseteq Records \X Buckets \X Measures
    /\ IsFiniteSet({r \in Records : pc[r] # "queued"})
    /\ \A r \in Records : Once(r)

FlowKey(k) == k[1] = "eco" => k \in {"eco"} \X Buckets

FlowKeys ==
    /\ \A k \in dirty : FlowKey(k)
    /\ \A s \in Sweeps : (\A k \in sweep[s].left : FlowKey(k))
                         /\ (sweep[s].key # None => FlowKey(sweep[s].key))

\* No copy of a figure is beyond what was counted.
Within(n, b, c, m) == n \in Nat /\ n <= Counted(b, c, m)
HashWithin(hash, b) ==
    \A f \in DOMAIN hash : f \in Cells \X Measures /\ Within(hash[f], b, f[1], f[2])
RowsWithin(rows, b) ==
    \A c \in DOMAIN rows : c \in Cells /\ \A m \in Measures : Within(rows[c][m], b, c, m)

Carried(s, b) == sweep[s].key = <<"eco", b>>

HashesWithin ==
    eco = [b \in Buckets |-> eco[b]] /\ \A b \in Buckets : HashWithin(eco[b], b)
TablesWithin ==
    flows = [b \in Buckets |-> flows[b]] /\ \A b \in Buckets : RowsWithin(flows[b], b)
FloorsWithin == \A r \in Records : pc[r] = "seed" => HashWithin(found[r], Bucket(r))
SweptWithin == \A s \in Sweeps, b \in Buckets : Carried(s, b) => RowsWithin(sweep[s].rows, b)

Bounded == HashesWithin /\ TablesWithin /\ FloorsWithin /\ SweptWithin

Held(b, c, m) == IF <<c, m>> \in DOMAIN eco[b] THEN eco[b][<<c, m>>] ELSE 0
In(rows, c, m) == IF c \in DOMAIN rows THEN rows[c][m] ELSE 0

\* Redis was never lost: a marked hash is exact, and without it there is nothing.
SeededExact ==
    \A b \in Buckets : b \in seeded =>
        \A c \in Cells, m \in Measures : Held(b, c, m) = Counted(b, c, m)
UnseededEmpty ==
    \A b \in Buckets : b \notin seeded =>
        /\ DOMAIN eco[b] = {} /\ DOMAIN flows[b] = {}
        /\ \A r \in Records, m \in Measures : <<r, b, m>> \notin added
        /\ \A s \in Sweeps : ~Carried(s, b)
SeededFirst ==
    \A r \in Records :
        /\ pc[r] = "seed" /\ Bucket(r) \notin seeded => DOMAIN found[r] = {}
        /\ pc[r] \in {"amount", "count", "mark"} => Bucket(r) \in seeded

Exact == SeededExact /\ UnseededEmpty /\ SeededFirst

\* And nothing threw: a row is exact, or what it lacks is on its way.
Noted(b) ==
    \/ <<"eco", b>> \in dirty
    \/ \E s \in Sweeps : <<"eco", b>> \in sweep[s].left
    \/ \E r \in Records : pc[r] \in {"count", "mark"} /\ Bucket(r) = b

Follows(b, c, m) ==
    \/ Row(b, c, m) = Counted(b, c, m)
    \/ Noted(b)
    \/ \E s \in Sweeps : Carried(s, b) /\ In(sweep[s].rows, c, m) = Counted(b, c, m)

Followed == \A b \in Buckets, c \in Cells, m \in Measures : Follows(b, c, m)

\* A page under way shows at least the rows it was asked over, and will merge
\* the hash; nothing of it is beyond what was counted.
Figures(c) == {c} \X {"source", "sink"} \X Measures
CellAt(f) == <<f[1], f[2]>>
PageInv ==
    page.pc \in {"live", "shown"} =>
        /\ page = [pc |-> page.pc, currency |-> page.currency, figures |-> page.figures,
                   before |-> page.before]
        /\ page.currency \in Currencies /\ page.figures \in [Figures(page.currency) -> Nat]
        /\ \A f \in Figures(page.currency) : page.figures[f] <= Counted("base", CellAt(f), f[3])
        /\ "redis" \notin upset => \A f \in Figures(page.currency) :
             /\ page.before[f] \in Nat
             /\ \/ page.before[f] <= page.figures[f]
                \/ page.pc = "live" /\ page.before[f] <= Held("base", CellAt(f), f[3])

FlowInv ==
    /\ AddsOnce /\ FlowKeys /\ Bounded /\ PageInv
    /\ "redis" \notin upset => Exact
    /\ upset \subseteq {"overlap"} => Followed

-----------------------------------------------------------------------------
(* What was counted *)

LEMMA OfFinite ==
    ASSUME AddsOnce, NEW b \in Buckets, NEW c, NEW m \in Measures
    PROVE  /\ Of(b, c, m) \in SUBSET Records /\ IsFiniteSet(Of(b, c, m))
           /\ Counted(b, c, m) \in Nat
<1>1. Of(b, c, m) \in SUBSET {r \in Records : pc[r] # "queued"}
  BY DEF AddsOnce, Once, Of
<1>2. Of(b, c, m) \in SUBSET Records /\ IsFiniteSet(Of(b, c, m))
  BY <1>1, FS_Subset DEF AddsOnce
<1> QED
  BY <1>2, SumType DEF Counted

LEMMA CountedSame ==
    ASSUME AddsOnce, UNCHANGED added,
           \A r \in Records : pc[r] # "queued" => name'[r] = name[r],
           NEW b \in Buckets, NEW c, NEW m \in Measures
    PROVE  Counted(b, c, m)' = Counted(b, c, m)
<1>1. \A r \in Records : <<r, b, m>> \in added => pc[r] # "queued"
  BY DEF AddsOnce, Once
<1>2. Of(b, c, m)' = Of(b, c, m)
  BY <1>1 DEF Of, CellOf
<1> QED
  BY <1>2 DEF Counted

LEMMA NotAddedYet ==
    ASSUME AddsOnce, NEW r \in Records, NEW m \in Measures, pc[r] = m
    PROVE  Bucket(r) \in Buckets /\ <<r, Bucket(r), m>> \notin added
<1>1. todo[r] \in {<<"base", "seg">>, <<"seg">>, <<"base">>}
  BY DEF AddsOnce, Once, Plans, Folding, Measures
<1>2. Bucket(r) \in Buckets
  BY <1>1 DEF Bucket, Buckets
<1>3. Ahead(r, Bucket(r), m)
  BY DEF Ahead, Measures
<1> QED
  BY <1>2, <1>3, ZenonT(60) DEF AddsOnce, Once, Folding, Measures

LEMMA CountedGrows ==
    ASSUME AddsOnce, NEW r \in Records, NEW m \in Measures, Increment(r, m),
           NEW b \in Buckets, NEW c, NEW k \in Measures
    PROVE  Counted(b, c, k)' =
             IF b = Bucket(r) /\ c = CellOf(r) /\ k = m THEN Counted(b, c, k) + Weight(r, m)
                                                       ELSE Counted(b, c, k)
<1>1. /\ added' = added \cup {<<r, Bucket(r), m>>} /\ name' = name /\ pc[r] = m
  BY DEF Increment
<1>2. CASE b = Bucket(r) /\ c = CellOf(r) /\ k = m
  <2>1. Of(b, c, k)' = Of(b, c, k) \cup {r}
    BY <1>1, <1>2 DEF Of, CellOf
  <2>2. r \in Records \ Of(b, c, k)
    BY <1>1, <1>2, NotAddedYet DEF Of
  <2>3. AddedUp(Of(b, c, k) \cup {r}, k) = AddedUp(Of(b, c, k), k) + Weight(r, k)
    BY <2>2, OfFinite, SumAdd
  <2> QED
    BY <1>2, <2>1, <2>3 DEF Counted
<1>3. CASE ~(b = Bucket(r) /\ c = CellOf(r) /\ k = m)
  <2>1. Of(b, c, k)' = Of(b, c, k)
    BY <1>1, <1>3 DEF Of, CellOf
  <2> QED
    BY <1>3, <2>1 DEF Counted
<1> QED
  BY <1>2, <1>3

(* Every handler adds what it has to, once *)

LEMMA AddsInit == Init => AddsOnce
<1> SUFFICES ASSUME Init PROVE AddsOnce
  OBVIOUS
<1>1. /\ pc = [r \in Records |-> "queued"] /\ todo = [r \in Records |-> <<>>] /\ added = {}
  BY DEF Init
<1>2. {r \in Records : pc[r] # "queued"} = {}
  BY <1>1
<1>3. IsFiniteSet({r \in Records : pc[r] # "queued"})
  BY <1>2, FS_EmptySet
<1>4. \A r \in Records : pc[r] = "queued" /\ \A b \in Buckets, m \in Measures : <<r, b, m>> \notin added
  BY <1>1
<1>5. \A r \in Records : Once(r)
  BY <1>4 DEF Once, Folding, Folded
<1> QED
  BY <1>1, <1>3, <1>5 DEF AddsOnce, Steps

LEMMA OthersOnce ==
    ASSUME NEW q \in Records, Once(q), pc'[q] = pc[q], todo'[q] = todo[q], upset \subseteq upset',
           \A b \in Buckets, m \in Measures : <<q, b, m>> \in added' <=> <<q, b, m>> \in added
    PROVE  Once(q)'
BY DEF Once, Ahead, Bucket, Plan, Plans

LEMMA OneHandlerMoves ==
    ASSUME AddsOnce, NEW r \in Records, NEW p \in Steps, pc' = [pc EXCEPT ![r] = p],
           todo' = [todo EXCEPT ![r] = todo'[r]], upset \subseteq upset',
           added \subseteq added', added' \subseteq added \cup ({r} \X Buckets \X Measures),
           Once(r)'
    PROVE  AddsOnce'
<1>1. pc' \in [Records -> Steps] /\ todo' = [q \in Records |-> todo'[q]]
  BY DEF AddsOnce
<1>3. added' \subseteq Records \X Buckets \X Measures
  BY DEF AddsOnce
<1>4. IsFiniteSet({q \in Records : pc'[q] # "queued"})
  <2>1. IsFiniteSet({q \in Records : pc[q] # "queued"} \cup {r})
    BY FS_AddElement DEF AddsOnce
  <2>2. {q \in Records : pc'[q] # "queued"} \in SUBSET ({q \in Records : pc[q] # "queued"} \cup {r})
    BY DEF AddsOnce
  <2> QED
    BY <2>1, <2>2, FS_Subset
<1>5. ASSUME NEW q \in Records, q # r PROVE Once(q)'
  <2>1. pc'[q] = pc[q] /\ todo'[q] = todo[q] /\ Once(q)
    BY <1>5 DEF AddsOnce
  <2>2. \A b \in Buckets, m \in Measures : <<q, b, m>> \in added' <=> <<q, b, m>> \in added
    BY <1>5
  <2> QED
    BY <2>1, <2>2, OthersOnce
<1> QED
  BY <1>1, <1>3, <1>4, <1>5 DEF AddsOnce

LEMMA TodoFacts ==
    ASSUME AddsOnce, NEW r \in Records, pc[r] \in Folding
    PROVE  \/ r \in Segmented /\ todo[r] = <<"base", "seg">> /\ Bucket(r) = "base"
                /\ Tail(todo[r]) = <<"seg">> /\ Len(todo[r]) = 2
           \/ r \in Segmented /\ todo[r] # <<"base", "seg">> /\ Bucket(r) = "seg" /\ Len(todo[r]) = 1
           \/ r \notin Segmented /\ todo[r] # <<"base", "seg">> /\ Bucket(r) = "base" /\ Len(todo[r]) = 1
<1>1. todo[r] \in Plans(r)
  BY DEF AddsOnce, Once
<1>2. /\ Head(<<"base", "seg">>) = "base" /\ Head(<<"seg">>) = "seg" /\ Head(<<"base">>) = "base"
      /\ Tail(<<"base", "seg">>) = <<"seg">>
      /\ Len(<<"base", "seg">>) = 2 /\ Len(<<"seg">>) = 1 /\ Len(<<"base">>) = 1
  OBVIOUS
<1>3. <<"seg">> # <<"base", "seg">> /\ <<"base">> # <<"base", "seg">>
  OBVIOUS
<1> QED
  BY <1>1, <1>2, <1>3, Zenon DEF Plans, Bucket

LEMMA HandlerAdds ==
    ASSUME AddsOnce, NEW r \in Records, Handle(r)
    PROVE  AddsOnce'
<1> USE DEF Buckets, Measures
<1>1. Once(r) /\ pc \in [Records -> Steps] /\ todo = [q \in Records |-> todo[q]]
  BY DEF AddsOnce
<1>2. ASSUME NEW p \in Folded, pc[r] \in Folded, pc' = [pc EXCEPT ![r] = p],
             UNCHANGED <<todo, added, upset>>
      PROVE  AddsOnce'
  <2>1. Once(r)'
    BY <1>1, <1>2 DEF Once, Folding, Folded, Plan
  <2> QED
    BY <1>2, <2>1, OneHandlerMoves DEF AddsOnce, Steps
<1>3. CASE Begin(r)
  <2>1. CASE CurrencyOf[r] \notin Allowed
    <3>1. pc' = [pc EXCEPT ![r] = "refused"] /\ UNCHANGED <<todo, added, upset>> /\ pc[r] = "queued"
      BY <1>3, <2>1 DEF Begin, bounds
    <3>2. Once(r)'
      BY <1>1, <3>1 DEF Once, Folding, Folded
    <3> QED
      BY <3>1, <3>2, OneHandlerMoves DEF AddsOnce, Steps
  <2>2. CASE CurrencyOf[r] \in Allowed
    <3>1. /\ pc' = [pc EXCEPT ![r] = "floor"] /\ UNCHANGED <<added, upset>> /\ pc[r] = "queued"
          /\ todo' = [todo EXCEPT ![r] = IF r \in Segmented THEN <<"base", "seg">> ELSE <<"base">>]
      BY <1>3, <2>2 DEF Begin, bounds
    <3>2. pc'[r] = "floor" /\ todo'[r] = IF r \in Segmented THEN <<"base", "seg">> ELSE <<"base">>
      BY <1>1, <3>1
    <3>3. \A b \in Buckets, m \in Measures : <<r, b, m>> \notin added'
      BY <1>1, <3>1 DEF Once
    <3>4. Head(todo'[r]) = "base"
      BY <3>2
    <3>5. \A b \in Plan(r), m \in Measures : Ahead(r, b, m)'
      BY <3>2, <3>4 DEF Plan, Ahead, Bucket
    <3>6. Once(r)'
      BY <3>2, <3>3, <3>5 DEF Once, Folding, Folded, Plans, Plan
    <3>7. todo' = [todo EXCEPT ![r] = todo'[r]]
      BY <1>1, <3>1, <3>2
    <3> QED
      BY <3>1, <3>6, <3>7, OneHandlerMoves DEF Steps, Folding
  <2> QED
    BY <2>1, <2>2
<1>4. ASSUME NEW p, (pc[r] = "floor" /\ p = "seed") \/ (pc[r] = "seed" /\ p = "amount"),
             pc' = [pc EXCEPT ![r] = p], UNCHANGED <<todo, added, upset>>
      PROVE  AddsOnce'
  <2>1. Once(r)'
    BY <1>1, <1>4 DEF Once, Folding, Folded, Plan, Ahead, Bucket
  <2> QED
    BY <1>4, <2>1, OneHandlerMoves DEF AddsOnce, Steps, Folding
<1>5. ASSUME NEW m \in Measures, Increment(r, m) PROVE AddsOnce'
  <2>1. /\ added' = added \cup {<<r, Bucket(r), m>>} /\ pc[r] = m /\ UNCHANGED <<todo, upset>>
        /\ pc' = [pc EXCEPT ![r] = IF m = "amount" THEN "count" ELSE "mark"]
    BY <1>5 DEF Increment, bounds
  <2>2. pc'[r] = IF m = "amount" THEN "count" ELSE "mark"
    BY <1>1, <2>1
  <2>3. Bucket(r) \in Buckets /\ Bucket(r) \in Plan(r) /\ pc[r] \in Folding
    BY <2>1, TodoFacts DEF Plan, Folding
  <2>4. ~(todo[r] = <<"base", "seg">> /\ Bucket(r) = "seg")
    BY <2>1, <2>3, TodoFacts
  <2>5. \A b \in Buckets, k \in Measures :
          ~Ahead(r, b, k)' <=> (~Ahead(r, b, k) \/ (b = Bucket(r) /\ k = m))
    BY <2>1, <2>2, <2>3, <2>4 DEF Ahead, Bucket
  <2>6. \A b \in Buckets, k \in Measures :
          <<r, b, k>> \in added' <=> (<<r, b, k>> \in added \/ (b = Bucket(r) /\ k = m))
    BY <2>1
  <2>7. Once(r)'
    BY <1>1, <2>1, <2>2, <2>3, <2>5, <2>6 DEF Once, Folding, Folded, Plan, Plans
  <2>8. PICK p \in Steps : pc' = [pc EXCEPT ![r] = p]
    BY <2>1 DEF Steps, Folding
  <2>9. todo' = [todo EXCEPT ![r] = todo'[r]]
    BY <1>1, <2>1
  <2>10. added \subseteq added' /\ added' \subseteq added \cup ({r} \X Buckets \X Measures)
         /\ upset \subseteq upset'
    BY <2>1, <2>3
  <2> QED
    BY <2>7, <2>8, <2>9, <2>10, OneHandlerMoves
<1>6. CASE Mark(r)
  <2>1. /\ pc[r] = "mark" /\ UNCHANGED <<added, upset>>
        /\ todo' = [todo EXCEPT ![r] = Tail(@)]
        /\ pc' = [pc EXCEPT ![r] = IF Len(todo[r]) > 1 THEN "floor"
                                   ELSE IF r \in Depth THEN "look" ELSE "done"]
    BY <1>6 DEF Mark, history, bounds
  <2>2. pc[r] \in Folding
    BY <2>1 DEF Folding
  <2>3. todo'[r] = Tail(todo[r]) /\ todo' = [todo EXCEPT ![r] = todo'[r]]
    BY <1>1, <2>1
  <2>4. \A b \in Buckets, m \in Measures :
          <<r, b, m>> \in added <=> b \in Plan(r) /\ ~(todo[r] = <<"base", "seg">> /\ b = "seg")
    BY <1>1, <2>1, <2>2 DEF Once, Ahead
  <2>5. CASE todo[r] = <<"base", "seg">>
    <3>1. r \in Segmented /\ Tail(todo[r]) = <<"seg">> /\ Len(todo[r]) > 1
      BY <2>2, <2>5, TodoFacts
    <3>2. todo'[r] = <<"seg">> /\ pc' = [pc EXCEPT ![r] = "floor"] /\ pc'[r] = "floor"
      BY <1>1, <2>1, <2>3, <3>1
    <3>3. Head(todo'[r]) = "seg" /\ todo'[r] # <<"base", "seg">>
      BY <3>2
    <3>4. \A b \in Buckets, m \in Measures : Ahead(r, b, m)' <=> b = "seg"
      BY <3>2, <3>3 DEF Ahead, Bucket
    <3>5. Once(r)'
      BY <2>1, <2>4, <2>5, <3>1, <3>2, <3>4 DEF Once, Folding, Folded, Plan, Plans
    <3> QED
      BY <2>1, <2>3, <3>2, <3>5, OneHandlerMoves DEF Steps, Folding
  <2>6. CASE todo[r] # <<"base", "seg">>
    <3> DEFINE p == IF r \in Depth THEN "look" ELSE "done"
    <3>1. ~(Len(todo[r]) > 1)
      <4>1. Len(todo[r]) = 1
        BY <2>2, <2>6, TodoFacts, Zenon
      <4> QED
        BY <4>1
    <3>2. pc' = [pc EXCEPT ![r] = p] /\ pc'[r] = p
      BY <1>1, <2>1, <3>1
    <3>3. Once(r)'
      BY <2>1, <2>4, <2>6, <3>2 DEF Once, Folding, Folded, Plan
    <3> QED
      BY <2>1, <2>3, <3>2, <3>3, OneHandlerMoves DEF Steps, Folded
  <2> QED
    BY <2>5, <2>6
<1>7. CASE ReadFloor(r)
  <2>1. pc[r] = "floor" /\ pc' = [pc EXCEPT ![r] = "seed"] /\ UNCHANGED <<todo, added, upset>>
    BY <1>7 DEF ReadFloor, history, bounds
  <2> QED
    BY <1>4, <2>1
<1>8. CASE Seed(r)
  <2>1. pc[r] = "seed" /\ pc' = [pc EXCEPT ![r] = "amount"] /\ UNCHANGED <<todo, added, upset>>
    BY <1>8 DEF Seed, history, bounds
  <2> QED
    BY <1>4, <2>1
<1>9. CASE Look(r)
  BY <1>2, <1>9 DEF Look, history, bounds, Folded
<1>10. CASE PointRead(r)
  BY <1>2, <1>10 DEF PointRead, history, bounds, Folded
<1>11. CASE Decide(r)
  BY <1>2, <1>11 DEF Decide, bounds, Folded
<1>12. CASE MarkBalance(r)
  BY <1>2, <1>12 DEF MarkBalance, history, bounds, Folded
<1> QED
  BY <1>3, <1>5, <1>6, <1>7, <1>8, <1>9, <1>10, <1>11, <1>12 DEF Handle

LEMMA ThrowAdds ==
    ASSUME AddsOnce, NEW r \in Records, Throw(r)
    PROVE  AddsOnce'
<1>1. /\ pc' = [pc EXCEPT ![r] = "failed"] /\ todo' = [todo EXCEPT ![r] = <<>>]
      /\ upset' = upset \cup {"record"} /\ UNCHANGED added
  BY DEF Throw, history
<1>2. pc'[r] = "failed" /\ todo' = [todo EXCEPT ![r] = todo'[r]]
  BY <1>1 DEF AddsOnce
<1>3. Once(r)'
  BY <1>1, <1>2 DEF Once, Folding, Folded
<1> QED
  BY <1>1, <1>2, <1>3, OneHandlerMoves DEF Steps

LEMMA AddsStays ==
    ASSUME AddsOnce, UNCHANGED <<pc, todo, added>>, upset \subseteq upset'
    PROVE  AddsOnce'
<1>1. \A r \in Records : Once(r)'
  BY OthersOnce DEF AddsOnce
<1> QED
  BY <1>1 DEF AddsOnce

-----------------------------------------------------------------------------
(* What was counted never gets less, and no copy of it is beyond it *)

LEMMA Shapes ==
    ASSUME LatestInv
    PROVE  /\ DOMAIN name = Records /\ DOMAIN found = Records
           /\ \A r \in Records : pc[r] \in Folding => CellOf(r) \in Cells
           /\ sweep = [s \in Sweeps |-> sweep[s]]
<1>1. Reading /\ BalanceInv
  BY DEF LatestInv
<1>2. \A r \in Records : pc[r] \in Folding => name[r] \in Currencies
  BY <1>1 DEF Reading, Folding
<1>3. \A r \in Records : FlowOf[r] \in {"source", "sink"}
  OBVIOUS
<1> QED
  BY <1>1, <1>2, <1>3 DEF Reading, BalanceInv, CellOf, Cells

LEMMA FlowKeyIsAKey ==
    ASSUME NEW b \in Buckets
    PROVE  <<"eco", b>> # None
<1>1. <<"eco", b>> \in {"eco"} \X Buckets
  OBVIOUS
<1> QED
  BY <1>1

LEMMA AddedMoves ==
    ASSUME LatestInv, [Next]_vars, \A r \in Records, m \in Measures : ~Increment(r, m)
    PROVE  UNCHANGED added /\ \A r \in Records : pc[r] # "queued" => name'[r] = name[r]
<1>1. DOMAIN name = Records
  BY Shapes
<1>2. ASSUME NEW r \in Records, Handle(r) \/ Throw(r)
      PROVE  UNCHANGED added /\ \A q \in Records : pc[q] # "queued" => name'[q] = name[q]
  <2>1. CASE Begin(r)
    BY <1>1, <2>1 DEF Begin
  <2>2. CASE ReadFloor(r) \/ Seed(r) \/ Mark(r) \/ Look(r) \/ PointRead(r) \/ MarkBalance(r)
    BY <2>2 DEF ReadFloor, Seed, Mark, Look, PointRead, MarkBalance, history
  <2>3. CASE Decide(r) \/ Throw(r)
    BY <2>3 DEF Decide, Throw, history
  <2> QED
    BY <1>2, <2>1, <2>2, <2>3 DEF Handle, Measures
<1>3. ASSUME NEW s \in Sweeps, Flush(s) \/ SweepThrows(s)
      PROVE  UNCHANGED <<added, name>>
  BY <1>3 DEF Flush, DrainFlows, DrainBalances, Write, Read, SweepThrows, handlers, history
<1>4. CASE (\E c \in Viewed : \E open \in BOOLEAN : ReadRows(c, open)) \/ MergeLive \/ LoseRedis
  BY <1>4 DEF ReadRows, MergeLive, LoseRedis, handlers, history
<1>5. CASE UNCHANGED vars
  BY <1>5 DEF vars, handlers, history
<1> QED
  BY <1>2, <1>3, <1>4, <1>5 DEF Next

Rises ==
    \A b \in Buckets, c \in Cells, m \in Measures :
        /\ Counted(b, c, m) \in Nat /\ Counted(b, c, m)' \in Nat
        /\ Counted(b, c, m) <= Counted(b, c, m)'

LEMMA CountedRises ==
    ASSUME LatestInv, AddsOnce, [Next]_vars
    PROVE  Rises
<1> SUFFICES ASSUME NEW b \in Buckets, NEW c \in Cells, NEW m \in Measures
             PROVE  /\ Counted(b, c, m) \in Nat /\ Counted(b, c, m)' \in Nat
                    /\ Counted(b, c, m) <= Counted(b, c, m)'
  BY DEF Rises
<1>1. Counted(b, c, m) \in Nat
  BY OfFinite
<1>2. CASE \E r \in Records, k \in Measures : Increment(r, k)
  <2>1. PICK r \in Records, k \in Measures : Increment(r, k)
    BY <1>2
  <2>2. Weight(r, k) \in Nat
    BY WeightType
  <2> QED
    BY <1>1, <2>1, <2>2, CountedGrows
<1>3. CASE \A r \in Records, k \in Measures : ~Increment(r, k)
  <2>1. Counted(b, c, m)' = Counted(b, c, m)
    BY <1>3, AddedMoves, CountedSame
  <2> QED
    BY <1>1, <2>1
<1> QED
  BY <1>2, <1>3

LEMMA HashRises ==
    ASSUME Rises, NEW hash, NEW b \in Buckets, HashWithin(hash, b)
    PROVE  HashWithin(hash, b)'
BY DEF HashWithin, Within, Rises

LEMMA RowsRise ==
    ASSUME Rises, NEW rows, NEW b \in Buckets, RowsWithin(rows, b)
    PROVE  RowsWithin(rows, b)'
BY DEF RowsWithin, Within, Rises

(* The operators on hashes and rows *)

LEMMA FieldsWithin ==
    ASSUME NEW rows, NEW b, RowsWithin(rows, b)
    PROVE  HashWithin(Fields(rows), b)
<1>1. DOMAIN Fields(rows) = (DOMAIN rows) \X Measures
  BY DEF Fields
<1>2. \A c \in DOMAIN rows, m \in Measures : Fields(rows)[<<c, m>>] = rows[c][m]
  BY DEF Fields
<1>3. ASSUME NEW f \in DOMAIN Fields(rows)
      PROVE  f \in Cells \X Measures /\ Within(Fields(rows)[f], b, f[1], f[2])
  <2>1. PICK c \in DOMAIN rows, m \in Measures : f = <<c, m>>
    BY <1>1
  <2> QED
    BY <1>2, <2>1 DEF RowsWithin
<1> QED
  BY <1>3 DEF HashWithin

LEMMA OverWithin ==
    ASSUME NEW hash, NEW floor, NEW b, HashWithin(hash, b), HashWithin(floor, b)
    PROVE  HashWithin(Over(hash, floor), b)
<1>1. /\ DOMAIN Over(hash, floor) = DOMAIN hash \cup DOMAIN floor
      /\ \A f \in DOMAIN hash \cup DOMAIN floor :
           Over(hash, floor)[f] = IF f \in DOMAIN hash THEN hash[f] ELSE floor[f]
  BY DEF Over
<1> QED
  BY <1>1 DEF HashWithin

LEMMA FlowRowsFacts ==
    ASSUME NEW hash, DOMAIN hash \subseteq Cells \X Measures
    PROVE  /\ DOMAIN FlowRows(hash) \subseteq Cells
           /\ \A c \in Cells, m \in Measures :
                <<c, m>> \in DOMAIN hash => c \in DOMAIN FlowRows(hash)
           /\ \A c \in DOMAIN FlowRows(hash), m \in Measures :
                FlowRows(hash)[c][m] = IF <<c, m>> \in DOMAIN hash THEN hash[<<c, m>>] ELSE 0
<1>1. DOMAIN FlowRows(hash) = {f[1] : f \in DOMAIN hash}
  BY DEF FlowRows
<1>2. \A c \in DOMAIN FlowRows(hash) : FlowRows(hash)[c] =
        [m \in Measures |-> IF <<c, m>> \in DOMAIN hash THEN hash[<<c, m>>] ELSE 0]
  BY DEF FlowRows
<1>3. \A f \in DOMAIN hash : f[1] \in Cells
  OBVIOUS
<1>4. ASSUME NEW c \in Cells, NEW m \in Measures, <<c, m>> \in DOMAIN hash
      PROVE  c \in DOMAIN FlowRows(hash)
  <2>1. <<c, m>>[1] = c
    OBVIOUS
  <2> QED
    BY <1>1, <1>4, <2>1
<1>5. ASSUME NEW c \in DOMAIN FlowRows(hash), NEW m \in Measures
      PROVE  FlowRows(hash)[c][m] = IF <<c, m>> \in DOMAIN hash THEN hash[<<c, m>>] ELSE 0
  <2>1. FlowRows(hash)[c] =
          [k \in Measures |-> IF <<c, k>> \in DOMAIN hash THEN hash[<<c, k>>] ELSE 0]
    BY <1>2
  <2> QED
    BY <2>1
<1>6. DOMAIN FlowRows(hash) \subseteq Cells
  BY <1>1, <1>3
<1> QED
  BY <1>4, <1>5, <1>6

LEMMA FlowRowsWithin ==
    ASSUME AddsOnce, NEW hash, NEW b \in Buckets, HashWithin(hash, b)
    PROVE  RowsWithin(FlowRows(hash), b)
<1>1. DOMAIN hash \subseteq Cells \X Measures
  BY DEF HashWithin
<1> SUFFICES ASSUME NEW c \in DOMAIN FlowRows(hash), NEW m \in Measures
             PROVE  c \in Cells /\ Within(FlowRows(hash)[c][m], b, c, m)
  BY <1>1, FlowRowsFacts DEF RowsWithin
<1>2. c \in Cells
  BY <1>1, FlowRowsFacts
<1>3. CASE <<c, m>> \in DOMAIN hash
  <2>1. FlowRows(hash)[c][m] = hash[<<c, m>>]
    BY <1>1, <1>3, FlowRowsFacts
  <2>2. Within(hash[<<c, m>>], b, <<c, m>>[1], <<c, m>>[2])
    BY <1>3 DEF HashWithin
  <2> QED
    BY <1>2, <2>1, <2>2
<1>4. CASE <<c, m>> \notin DOMAIN hash
  <2>1. FlowRows(hash)[c][m] = 0
    BY <1>1, <1>4, FlowRowsFacts
  <2> QED
    BY <1>2, <2>1, OfFinite DEF Within
<1> QED
  BY <1>3, <1>4

LEMMA MergedDomain ==
    ASSUME NEW old, NEW new
    PROVE  DOMAIN MergedFlow(old, new) = DOMAIN old \cup DOMAIN new
BY DEF MergedFlow

LEMMA MergedCell ==
    ASSUME NEW old, NEW new, NEW c \in DOMAIN old \cup DOMAIN new, NEW m \in Measures
    PROVE  MergedFlow(old, new)[c][m] =
             IF c \notin DOMAIN old THEN new[c][m]
             ELSE IF c \notin DOMAIN new THEN old[c][m] ELSE Greatest(old[c][m], new[c][m])
<1>1. MergedFlow(old, new)[c] =
        IF c \notin DOMAIN old THEN new[c]
        ELSE IF c \notin DOMAIN new THEN old[c]
        ELSE [k \in Measures |-> Greatest(old[c][k], new[c][k])]
  BY DEF MergedFlow
<1>2. CASE c \in DOMAIN old /\ c \in DOMAIN new
  <2>1. MergedFlow(old, new)[c] = [k \in Measures |-> Greatest(old[c][k], new[c][k])]
    BY <1>1, <1>2
  <2> QED
    BY <1>2, <2>1
<1> QED
  BY <1>1, <1>2

LEMMA GreatestIs ==
    ASSUME NEW i \in Nat, NEW j \in Nat
    PROVE  Greatest(i, j) \in {i, j} /\ Greatest(i, j) >= i /\ Greatest(i, j) >= j
BY DEF Greatest

LEMMA MergedWithin ==
    ASSUME NEW old, NEW new, NEW b, RowsWithin(old, b), RowsWithin(new, b)
    PROVE  RowsWithin(MergedFlow(old, new), b)
<1> DEFINE row == MergedFlow(old, new)
<1>1. DOMAIN row = DOMAIN old \cup DOMAIN new
  BY MergedDomain
<1>2. ASSUME NEW c \in DOMAIN old \cup DOMAIN new, NEW m \in Measures
      PROVE  c \in Cells /\ Within(row[c][m], b, c, m)
  <2>1. c \in Cells
    BY DEF RowsWithin
  <2>2. c \in DOMAIN old => Within(old[c][m], b, c, m)
    BY DEF RowsWithin
  <2>3. c \in DOMAIN new => Within(new[c][m], b, c, m)
    BY DEF RowsWithin
  <2>4. row[c][m] = IF c \notin DOMAIN old THEN new[c][m]
                    ELSE IF c \notin DOMAIN new THEN old[c][m] ELSE Greatest(old[c][m], new[c][m])
    BY MergedCell
  <2>5. CASE c \in DOMAIN old /\ c \in DOMAIN new
    <3>1. row[c][m] \in {old[c][m], new[c][m]}
      BY <2>2, <2>3, <2>4, <2>5, GreatestIs DEF Within
    <3> QED
      BY <2>1, <2>2, <2>3, <2>5, <3>1
  <2> QED
    BY <2>1, <2>2, <2>3, <2>4, <2>5
<1> HIDE DEF row
<1>3. RowsWithin(row, b)
  BY <1>1, <1>2 DEF RowsWithin
<1> QED
  BY <1>3 DEF row

(* What a step moves *)

LEMMA HandlerFrame ==
    ASSUME LatestInv, AddsOnce, NEW r \in Records, Handle(r) \/ Throw(r)
    PROVE  /\ UNCHANGED <<flows, sweep, page>> /\ upset \subseteq upset'
           /\ "redis" \in upset' => "redis" \in upset
           /\ \A q \in Records \ {r} : pc'[q] = pc[q] /\ todo'[q] = todo[q] /\ found'[q] = found[q]
<1> USE DEF durable, history, bounds
<1>1. DOMAIN found = Records /\ DOMAIN pc = Records /\ DOMAIN todo = Records
  BY Shapes DEF AddsOnce
<1>2. CASE Begin(r)
  BY <1>1, <1>2 DEF Begin
<1>3. CASE ReadFloor(r) \/ Seed(r)
  BY <1>1, <1>3 DEF ReadFloor, Seed
<1>4. ASSUME NEW m \in Measures, Increment(r, m)
      PROVE  /\ UNCHANGED <<flows, sweep, page, upset>>
             /\ \A q \in Records \ {r} : pc'[q] = pc[q] /\ todo'[q] = todo[q] /\ found'[q] = found[q]
  BY <1>1, <1>4 DEF Increment
<1>5. CASE Mark(r)
  BY <1>1, <1>5 DEF Mark
<1>6. CASE Look(r) \/ PointRead(r)
  BY <1>1, <1>6 DEF Look, PointRead
<1>7. CASE Decide(r) \/ MarkBalance(r)
  BY <1>1, <1>7 DEF Decide, MarkBalance
<1>8. CASE Throw(r)
  BY <1>1, <1>8 DEF Throw
<1> QED
  BY <1>2, <1>3, <1>4, <1>5, <1>6, <1>7, <1>8 DEF Handle, Measures

LEMMA LeftKeeps ==
    ASSUME NEW w, w.key = None
    PROVE  Left(w).key = None /\ Left(w).left = w.left
BY DEF Left, Finished, NoSweep

LEMMA SweepFrame ==
    ASSUME LatestInv, NEW s \in Sweeps, Flush(s) \/ SweepThrows(s)
    PROVE  /\ UNCHANGED <<pc, todo, found, name, eco, seeded, added, page>>
           /\ upset \subseteq upset' /\ ("redis" \in upset' => "redis" \in upset)
           /\ \A t \in Sweeps \ {s} : sweep'[t] = sweep[t]
<1>1. sweep = [t \in Sweeps |-> sweep[t]]
  BY Shapes
<1> USE DEF handlers, hot, history, bounds
<1>2. CASE DrainFlows(s)
  BY <1>1, <1>2 DEF DrainFlows
<1>3. CASE DrainBalances(s)
  BY <1>1, <1>3 DEF DrainBalances
<1>4. CASE Write(s)
  BY <1>1, <1>4 DEF Write
<1>5. ASSUME NEW k \in sweep[s].left, Read(s, k)
      PROVE  /\ UNCHANGED <<pc, todo, found, name, eco, seeded, added, page, upset>>
             /\ \A t \in Sweeps \ {s} : sweep'[t] = sweep[t]
  BY <1>1, <1>5 DEF Read
<1>6. CASE SweepThrows(s)
  BY <1>1, <1>6 DEF SweepThrows
<1> QED
  BY <1>2, <1>3, <1>4, <1>5, <1>6 DEF Flush

LEMMA DrainDoes ==
    ASSUME LatestInv, NEW s \in Sweeps, DrainFlows(s) \/ DrainBalances(s)
    PROVE  \E d \in {"eco", "bal"} :
             /\ sweep[s].left = {} /\ sweep[s].key = None
             /\ sweep'[s].left = Keys(d) /\ sweep'[s].key = None
             /\ dirty' = dirty \ Keys(d) /\ UNCHANGED flows
<1>1. sweep = [t \in Sweeps |-> sweep[t]]
  BY Shapes
<1>2. CASE DrainFlows(s)
  <2>1. sweep[s].left = {} /\ sweep[s].key = None
    BY <1>2 DEF DrainFlows, LatestInv, Sweeping
  <2> QED
    BY <1>1, <1>2, <2>1 DEF DrainFlows, Drained, durable
<1>3. CASE DrainBalances(s)
  <2>1. sweep[s].left = {} /\ sweep[s].key = None
    BY <1>3 DEF DrainBalances, Finished
  <2>2. sweep'[s] = Left(Drained("bal"))
    BY <1>1, <1>3 DEF DrainBalances
  <2>3. Drained("bal").key = None /\ Drained("bal").left = Keys("bal")
    BY DEF Drained
  <2>4. sweep'[s].left = Keys("bal") /\ sweep'[s].key = None
    BY <2>2, <2>3, LeftKeeps
  <2> QED
    BY <1>3, <2>1, <2>4 DEF DrainBalances, durable
<1> QED
  BY <1>2, <1>3

LEMMA ReadDoes ==
    ASSUME LatestInv, NEW s \in Sweeps, NEW k \in sweep[s].left, Read(s, k)
    PROVE  /\ sweep[s].key = None /\ sweep'[s].left = sweep[s].left \ {k} /\ UNCHANGED flows
           /\ IF IsSeeded(k)
              THEN /\ sweep'[s].key = k /\ UNCHANGED dirty
                   /\ k[1] = "eco" => sweep'[s].rows = FlowRows(eco[k[2]])
              ELSE sweep'[s].key = None /\ dirty' = dirty \cup {k}
<1>1. sweep = [t \in Sweeps |-> sweep[t]]
  BY Shapes
<1>2. CASE IsSeeded(k)
  BY <1>1, <1>2 DEF Read, Moved, durable
<1>3. CASE ~IsSeeded(k)
  <2> DEFINE w == Moved(sweep[s], sweep[s].left \ {k}, None, Empty)
  <2>1. sweep'[s] = Left(w)
    BY <1>1, <1>3 DEF Read
  <2>2. w.key = None /\ w.left = sweep[s].left \ {k}
    BY DEF Moved
  <2>3. sweep'[s].key = None /\ sweep'[s].left = sweep[s].left \ {k}
    <3> HIDE DEF w
    <3> QED
      BY <2>1, <2>2, LeftKeeps
  <2> QED
    BY <1>3, <2>3 DEF Read, durable
<1> QED
  BY <1>2, <1>3

LEMMA WriteDoes ==
    ASSUME LatestInv, NEW s \in Sweeps, Write(s)
    PROVE  /\ sweep[s].key # None
           /\ sweep'[s].left = sweep[s].left /\ sweep'[s].key = None /\ UNCHANGED dirty
           /\ IF sweep[s].key[1] = "eco"
              THEN flows' = [flows EXCEPT ![sweep[s].key[2]] = MergedFlow(@, sweep[s].rows)]
              ELSE UNCHANGED flows
<1>1. sweep = [t \in Sweeps |-> sweep[t]]
  BY Shapes
<1> DEFINE w == Moved(sweep[s], sweep[s].left, None, Empty)
<1>2. sweep'[s] = Left(w)
  BY <1>1 DEF Write
<1>3. w.key = None /\ w.left = sweep[s].left
  BY DEF Moved
<1>4. sweep'[s].key = None /\ sweep'[s].left = sweep[s].left
  <2> HIDE DEF w
  <2> QED
    BY <1>2, <1>3, LeftKeeps
<1> QED
  BY <1>4 DEF Write, hot

LEMMA SweepThrowsDoes ==
    ASSUME LatestInv, NEW s \in Sweeps, SweepThrows(s)
    PROVE  /\ sweep'[s].left = {} /\ sweep'[s].key = None
           /\ UNCHANGED <<dirty, flows>> /\ "sweep" \in upset'
<1>1. sweep = [t \in Sweeps |-> sweep[t]]
  BY Shapes
<1> QED
  BY <1>1 DEF SweepThrows, NoSweep, hot, durable

(* Keys *)

LEMMA KeysStay == LatestInv /\ AddsOnce /\ FlowKeys /\ [Next]_vars => FlowKeys'
<1> SUFFICES ASSUME LatestInv, AddsOnce, FlowKeys, [Next]_vars PROVE FlowKeys'
  OBVIOUS
<1>1. ASSUME \A k \in dirty' : FlowKey(k), UNCHANGED sweep PROVE FlowKeys'
  BY <1>1 DEF FlowKeys, FlowKey
<1>2. ASSUME NEW r \in Records, Handle(r) \/ Throw(r) PROVE FlowKeys'
  <2>1. UNCHANGED sweep
    BY <1>2, HandlerFrame
  <2>2. CASE Mark(r)
    <3>1. dirty' = dirty \cup {<<"eco", Bucket(r)>>} /\ pc[r] \in Folding
      BY <2>2 DEF Mark, Folding
    <3>2. <<"eco", Bucket(r)>> \in {"eco"} \X Buckets
      BY <3>1, TodoFacts DEF Buckets
    <3> QED
      BY <1>1, <2>1, <3>1, <3>2 DEF FlowKeys, FlowKey
  <2>3. CASE MarkBalance(r)
    <3>1. FlowKey(<<"bal", name[r]>>)
      BY DEF FlowKey
    <3> QED
      BY <1>1, <2>1, <2>3, <3>1 DEF MarkBalance, FlowKeys
  <2>4. CASE ~Mark(r) /\ ~MarkBalance(r)
    <3>1. UNCHANGED dirty
      BY <1>2, <2>4 DEF Handle, Begin, ReadFloor, Seed, Increment, Look, PointRead, Decide, Throw, hot
    <3> QED
      BY <1>1, <2>1, <3>1 DEF FlowKeys
  <2> QED
    BY <2>2, <2>3, <2>4
<1>3. ASSUME NEW s \in Sweeps, NEW l, sweep'[s].left = l, \A k \in l \cup dirty' : FlowKey(k),
             sweep'[s].key # None => FlowKey(sweep'[s].key),
             \A t \in Sweeps \ {s} : sweep'[t] = sweep[t]
      PROVE  FlowKeys'
  BY <1>3 DEF FlowKeys, FlowKey
<1>4. ASSUME NEW s \in Sweeps, Flush(s) \/ SweepThrows(s) PROVE FlowKeys'
  <2>1. \A t \in Sweeps \ {s} : sweep'[t] = sweep[t]
    BY <1>4, SweepFrame
  <2>2. CASE DrainFlows(s) \/ DrainBalances(s)
    <3>1. PICK d \in {"eco", "bal"} :
             /\ sweep'[s].left = Keys(d) /\ sweep'[s].key = None /\ dirty' = dirty \ Keys(d)
      BY <2>2, DrainDoes
    <3>2. \A k \in Keys(d) \cup dirty' : FlowKey(k)
      BY <3>1 DEF FlowKeys, Keys
    <3> QED
      BY <1>3, <2>1, <3>1, <3>2
  <2>3. CASE \E k \in sweep[s].left : Read(s, k)
    <3>1. PICK k \in sweep[s].left : Read(s, k)
      BY <2>3
    <3>2. \A x \in sweep[s].left \cup dirty : FlowKey(x)
      BY DEF FlowKeys
    <3>3. /\ sweep'[s].left = sweep[s].left \ {k} /\ sweep'[s].key \in {k, None}
          /\ dirty' \subseteq dirty \cup {k}
      BY <3>1, ReadDoes
    <3> QED
      BY <1>3, <2>1, <3>2, <3>3
  <2>4. CASE Write(s)
    BY <1>3, <2>1, <2>4, WriteDoes DEF FlowKeys
  <2>5. CASE SweepThrows(s)
    BY <1>3, <2>1, <2>5, SweepThrowsDoes DEF FlowKeys
  <2> QED
    BY <1>4, <2>2, <2>3, <2>4, <2>5 DEF Flush
<1>5. CASE LoseRedis
  BY <1>1, <1>5 DEF LoseRedis
<1>6. CASE (\E c \in Viewed : \E open \in BOOLEAN : ReadRows(c, open)) \/ MergeLive \/ UNCHANGED vars
  <2>1. UNCHANGED <<dirty, sweep>>
    BY <1>6 DEF ReadRows, MergeLive, vars, hot
  <2> QED
    BY <1>1, <2>1 DEF FlowKeys
<1> QED
  BY <1>2, <1>4, <1>5, <1>6 DEF Next

(* Hashes, tables, floors and the rows a sweep has in hand *)

LEMMA HashesStay ==
    ASSUME Rises, HashesWithin, UNCHANGED eco
    PROVE  HashesWithin'
BY HashRises DEF HashesWithin

LEMMA TablesStay ==
    ASSUME Rises, TablesWithin, UNCHANGED flows
    PROVE  TablesWithin'
BY RowsRise DEF TablesWithin

LEMMA FloorsStay ==
    ASSUME AddsOnce, Rises, FloorsWithin,
           \A r \in Records : pc'[r] = "seed" =>
             pc[r] = "seed" /\ found'[r] = found[r] /\ todo'[r] = todo[r]
    PROVE  FloorsWithin'
<1> SUFFICES ASSUME NEW r \in Records, pc'[r] = "seed" PROVE HashWithin(found[r], Bucket(r))'
  BY DEF FloorsWithin
<1>1. pc[r] = "seed" /\ found'[r] = found[r] /\ Bucket(r)' = Bucket(r)
  BY DEF Bucket
<1>2. Bucket(r) \in Buckets
  BY <1>1, TodoFacts DEF Folding, Buckets
<1>3. HashWithin(found[r], Bucket(r))
  BY <1>1 DEF FloorsWithin
<1>4. PICK hash, b : hash = found[r] /\ b = Bucket(r)
  OBVIOUS
<1>5. HashWithin(hash, b)'
  BY <1>2, <1>3, <1>4, HashRises
<1> QED
  BY <1>1, <1>4, <1>5

LEMMA SweptStays ==
    ASSUME Rises, SweptWithin, NEW s \in Sweeps,
           \A t \in Sweeps \ {s} : sweep'[t] = sweep[t],
           \A b \in Buckets : Carried(s, b)' => RowsWithin(sweep[s].rows, b)'
    PROVE  SweptWithin'
<1> SUFFICES ASSUME NEW t \in Sweeps, NEW b \in Buckets, t # s, Carried(t, b)'
             PROVE  RowsWithin(sweep[t].rows, b)'
  BY DEF SweptWithin
<1>1. sweep'[t] = sweep[t]
  OBVIOUS
<1>2. RowsWithin(sweep[t].rows, b)
  BY <1>1 DEF SweptWithin, Carried
<1>3. PICK rows : rows = sweep[t].rows
  OBVIOUS
<1>4. RowsWithin(rows, b)'
  BY <1>2, <1>3, RowsRise
<1> QED
  BY <1>1, <1>3, <1>4

LEMMA SweptKeeps ==
    ASSUME Rises, SweptWithin, UNCHANGED sweep
    PROVE  SweptWithin'
<1> SUFFICES ASSUME NEW t \in Sweeps, NEW b \in Buckets, Carried(t, b)
             PROVE  RowsWithin(sweep[t].rows, b)'
  BY DEF SweptWithin, Carried
<1>1. RowsWithin(sweep[t].rows, b)
  BY DEF SweptWithin
<1>2. PICK rows : rows = sweep[t].rows
  OBVIOUS
<1>3. RowsWithin(rows, b)'
  BY <1>1, <1>2, RowsRise
<1> QED
  BY <1>2, <1>3

LEMMA SeedWithin ==
    ASSUME AddsOnce, Bounded, Rises, NEW r \in Records, Seed(r)
    PROVE  HashesWithin'
<1> DEFINE B == Bucket(r)
           new == Over(eco[B], found[r])
<1>1. pc[r] = "seed" /\ B \in Buckets
  BY TodoFacts DEF Seed, Folding, Buckets
<1>2. CASE B \in seeded
  BY <1>2, HashesStay DEF Seed, Bounded
<1>3. CASE B \notin seeded
  <2>1. eco' = [eco EXCEPT ![B] = new]
    BY <1>3 DEF Seed
  <2>2. HashWithin(new, B)
    BY <1>1, OverWithin DEF Bounded, HashesWithin, FloorsWithin
  <2>3. ASSUME NEW b \in Buckets PROVE HashWithin(eco[b], b)'
    <3>1. PICK hash : hash = IF b = B THEN new ELSE eco[b]
      OBVIOUS
    <3>2. HashWithin(hash, b)
      BY <2>2, <3>1 DEF Bounded, HashesWithin
    <3>3. HashWithin(hash, b)'
      BY <3>2, HashRises
    <3>4. eco'[b] = hash
      BY <1>1, <2>1, <3>1 DEF Bounded, HashesWithin
    <3> QED
      BY <3>3, <3>4
  <2>4. eco' = [b \in Buckets |-> eco'[b]]
    BY <2>1 DEF Bounded, HashesWithin
  <2> QED
    BY <2>3, <2>4 DEF HashesWithin
<1> QED
  BY <1>2, <1>3

LEMMA IncrementWithin ==
    ASSUME LatestInv, AddsOnce, Bounded, Rises, NEW r \in Records, NEW m \in Measures, Increment(r, m)
    PROVE  HashesWithin'
<1>1. PICK B \in Buckets, cell \in Cells, w \in Nat :
        B = Bucket(r) /\ cell = CellOf(r) /\ w = Weight(r, m)
  <2>1. pc[r] = m
    BY DEF Increment
  <2> QED
    BY <2>1, NotAddedYet, Shapes, WeightType DEF Folding, Measures
<1> DEFINE hash == eco[B]
           new == Increased(hash, <<cell, m>>, w)
<1>2. eco' = [eco EXCEPT ![B] = new]
  BY <1>1 DEF Increment
<1>3. eco'[B] = new /\ \A b \in Buckets \ {B} : eco'[b] = eco[b]
  BY <1>1, <1>2 DEF Bounded, HashesWithin
<1>4. ASSUME NEW b \in Buckets, b # B PROVE HashWithin(eco[b], b)'
  <2>1. PICK old : old = eco[b]
    OBVIOUS
  <2>2. HashWithin(old, b)'
    BY <2>1, HashRises DEF Bounded, HashesWithin
  <2> QED
    BY <1>3, <1>4, <2>1, <2>2
<1>5. ASSUME NEW f \in DOMAIN new
      PROVE  f \in Cells \X Measures /\ new[f] \in Nat /\ new[f] <= Counted(B, f[1], f[2])'
  <2>1. /\ f \in DOMAIN hash \cup {<<cell, m>>}
        /\ new[f] = IF f \notin DOMAIN hash THEN w
                    ELSE IF f = <<cell, m>> THEN hash[f] + w ELSE hash[f]
    BY DEF Increased
  <2>2. f \in DOMAIN hash =>
          f \in Cells \X Measures /\ hash[f] \in Nat /\ hash[f] <= Counted(B, f[1], f[2])
    BY DEF Bounded, HashesWithin, HashWithin, Within
  <2>3. PICK c \in Cells, k \in Measures : f = <<c, k>>
    BY <2>1, <2>2
  <2> HIDE DEF hash, new
  <2>4. Counted(B, c, k) \in Nat /\ Counted(B, c, k)' \in Nat /\ Counted(B, c, k) <= Counted(B, c, k)'
    BY DEF Rises
  <2>5. c = cell /\ k = m => Counted(B, c, k)' = Counted(B, c, k) + w
    BY <1>1, CountedGrows
  <2>6. f[1] = c /\ f[2] = k
    BY <2>3
  <2>7. new[f] \in Nat /\ new[f] <= Counted(B, c, k)'
    <3>1. CASE f \notin DOMAIN hash
      BY <2>1, <2>3, <2>4, <2>5, <3>1
    <3>2. CASE f \in DOMAIN hash
      <4>1. hash[f] \in Nat /\ hash[f] <= Counted(B, c, k)
        BY <2>2, <2>6, <3>2
      <4> QED
        BY <2>1, <2>3, <2>4, <2>5, <3>2, <4>1
    <3> QED
      BY <3>1, <3>2
  <2> QED
    BY <2>3, <2>6, <2>7
<1>6. HashWithin(eco[B], B)'
  <2> HIDE DEF new
  <2> QED
    BY <1>3, <1>5 DEF HashWithin, Within
<1>7. eco' = [b \in Buckets |-> eco'[b]]
  BY <1>2 DEF Bounded, HashesWithin
<1> QED
  BY <1>4, <1>6, <1>7 DEF HashesWithin

LEMMA ReadFloorWithin ==
    ASSUME LatestInv, AddsOnce, Bounded, Rises, NEW r \in Records, ReadFloor(r)
    PROVE  FloorsWithin'
<1>1. /\ pc[r] = "floor" /\ found' = [found EXCEPT ![r] = Fields(flows[Bucket(r)])]
      /\ UNCHANGED todo
  BY DEF ReadFloor
<1>2. PICK B \in Buckets : B = Bucket(r)
  BY <1>1, TodoFacts DEF Folding, Buckets
<1>3. PICK floor : floor = Fields(flows[B])
  OBVIOUS
<1>4. HashWithin(floor, B)'
  BY <1>3, FieldsWithin, HashRises DEF Bounded, TablesWithin
<1>5. found'[r] = floor
  BY <1>1, <1>2, <1>3, Shapes
<1>6. ASSUME NEW q \in Records, pc'[q] = "seed" PROVE HashWithin(found[q], Bucket(q))'
  <2>1. CASE q = r
    BY <1>1, <1>2, <1>4, <1>5, <2>1 DEF Bucket
  <2>2. CASE q # r
    <3>1. pc[q] = "seed" /\ found'[q] = found[q] /\ Bucket(q)' = Bucket(q)
      BY <1>6, <2>2, HandlerFrame DEF Handle, Bucket
    <3>2. Bucket(q) \in Buckets
      BY <3>1, TodoFacts DEF Folding, Buckets
    <3>3. PICK hash, b : hash = found[q] /\ b = Bucket(q)
      OBVIOUS
    <3>4. HashWithin(hash, b)'
      BY <3>1, <3>2, <3>3, HashRises DEF Bounded, FloorsWithin
    <3> QED
      BY <3>1, <3>3, <3>4
  <2> QED
    BY <2>1, <2>2
<1> QED
  BY <1>6 DEF FloorsWithin

LEMMA WriteWithin ==
    ASSUME LatestInv, FlowKeys, Bounded, Rises, NEW s \in Sweeps, Write(s)
    PROVE  TablesWithin'
<1>1. CASE sweep[s].key[1] # "eco"
  BY <1>1, WriteDoes, TablesStay DEF Bounded
<1>2. CASE sweep[s].key[1] = "eco"
  <2>1. sweep[s].key # None
    BY WriteDoes
  <2>2. PICK B \in Buckets : sweep[s].key = <<"eco", B>>
    BY <1>2, <2>1 DEF FlowKeys, FlowKey
  <2>3. flows' = [flows EXCEPT ![B] = MergedFlow(@, sweep[s].rows)]
    BY <1>2, <2>2, WriteDoes
  <2>4. RowsWithin(MergedFlow(flows[B], sweep[s].rows), B)
    BY <2>2, MergedWithin DEF Bounded, TablesWithin, SweptWithin, Carried
  <2>5. ASSUME NEW b \in Buckets PROVE RowsWithin(flows[b], b)'
    <3>1. PICK rows : rows = IF b = B THEN MergedFlow(flows[B], sweep[s].rows) ELSE flows[b]
      OBVIOUS
    <3>2. RowsWithin(rows, b)
      BY <2>4, <3>1 DEF Bounded, TablesWithin
    <3>3. RowsWithin(rows, b)'
      BY <3>2, RowsRise
    <3>4. flows'[b] = rows
      BY <2>3, <3>1 DEF Bounded, TablesWithin
    <3> QED
      BY <3>3, <3>4
  <2>6. flows' = [b \in Buckets |-> flows'[b]]
    BY <2>3 DEF Bounded, TablesWithin
  <2> QED
    BY <2>5, <2>6 DEF TablesWithin
<1> QED
  BY <1>1, <1>2

LEMMA ReadWithin ==
    ASSUME LatestInv, AddsOnce, FlowKeys, Bounded, Rises,
           NEW s \in Sweeps, NEW k \in sweep[s].left, Read(s, k)
    PROVE  SweptWithin'
<1>1. \A t \in Sweeps \ {s} : sweep'[t] = sweep[t]
  BY SweepFrame DEF Flush
<1>2. ASSUME NEW b \in Buckets, Carried(s, b)' PROVE RowsWithin(sweep[s].rows, b)'
  <2>2. sweep'[s].key = <<"eco", b>> /\ <<"eco", b>> # None
    BY <1>2, FlowKeyIsAKey DEF Carried
  <2>3. k = <<"eco", b>> /\ sweep'[s].rows = FlowRows(eco[b])
    <3>1. IsSeeded(k)
      BY <2>2, ReadDoes
    <3>2. k = <<"eco", b>>
      BY <2>2, <3>1, ReadDoes
    <3>3. k[1] = "eco" /\ k[2] = b
      BY <3>2
    <3>4. k[1] = "eco" => sweep'[s].rows = FlowRows(eco[k[2]])
      BY <3>1, ReadDoes
    <3> QED
      BY <3>2, <3>3, <3>4
  <2>4. PICK rows : rows = FlowRows(eco[b])
    OBVIOUS
  <2>5. RowsWithin(rows, b)
    BY <2>4, FlowRowsWithin DEF Bounded, HashesWithin
  <2>6. RowsWithin(rows, b)'
    BY <2>5, RowsRise
  <2> QED
    BY <2>3, <2>4, <2>6
<1> QED
  BY <1>1, <1>2, SweptStays DEF Bounded

LEMMA BoundedNext == LatestInv /\ AddsOnce /\ FlowKeys /\ Bounded /\ [Next]_vars => Bounded'
<1> SUFFICES ASSUME LatestInv, AddsOnce, FlowKeys, Bounded, [Next]_vars PROVE Bounded'
  OBVIOUS
<1>1. Rises
  BY CountedRises
<1> USE <1>1 DEF Bounded
<1>2. ASSUME NEW r \in Records, Handle(r) \/ Throw(r) PROVE Bounded'
  <2>1. UNCHANGED <<flows, sweep>>
    BY <1>2, HandlerFrame
  <2>2. TablesWithin' /\ SweptWithin'
    BY <2>1, TablesStay, SweptKeeps
  <2>3. HashesWithin'
    <3>1. CASE Seed(r)
      BY <3>1, SeedWithin
    <3>2. ASSUME NEW m \in Measures, Increment(r, m) PROVE HashesWithin'
      BY <3>2, IncrementWithin
    <3>3. CASE ~Seed(r) /\ \A m \in Measures : ~Increment(r, m)
      <4>1. UNCHANGED eco
        BY <1>2, <3>3 DEF Handle, Begin, ReadFloor, Mark, Look, PointRead, Decide, MarkBalance,
                          Throw, hot, Measures
      <4> QED
        BY <4>1, HashesStay
    <3> QED
      BY <3>1, <3>2, <3>3
  <2>4. FloorsWithin'
    <3>1. CASE ReadFloor(r)
      BY <3>1, ReadFloorWithin
    <3>2. CASE ~ReadFloor(r)
      <4>1. pc'[r] # "seed"
        <5>1. DOMAIN pc = Records
          BY DEF AddsOnce
        <5> QED
          BY <1>2, <3>2, <5>1 DEF Handle, Begin, Seed, Increment, Mark, Look, PointRead, Decide,
                                  MarkBalance, Throw
      <4> QED
        BY <1>2, <4>1, HandlerFrame, FloorsStay
    <3> QED
      BY <3>1, <3>2
  <2> QED
    BY <2>2, <2>3, <2>4
<1>3. ASSUME NEW s \in Sweeps, Flush(s) \/ SweepThrows(s) PROVE Bounded'
  <2>1. UNCHANGED <<pc, todo, found, eco>> /\ \A t \in Sweeps \ {s} : sweep'[t] = sweep[t]
    BY <1>3, SweepFrame
  <2>2. HashesWithin' /\ FloorsWithin'
    BY <2>1, HashesStay, FloorsStay
  <2>3. CASE \E k \in sweep[s].left : Read(s, k)
    <3>1. UNCHANGED flows
      BY <2>3, ReadDoes
    <3> QED
      BY <2>2, <2>3, <3>1, TablesStay, ReadWithin
  <2>4. CASE DrainFlows(s) \/ DrainBalances(s) \/ Write(s) \/ SweepThrows(s)
    <3>1. sweep'[s].key = None
      BY <2>4, DrainDoes, WriteDoes, SweepThrowsDoes
    <3>2. \A b \in Buckets : ~Carried(s, b)'
      BY <3>1, FlowKeyIsAKey DEF Carried
    <3>3. SweptWithin'
      BY <2>1, <3>2, SweptStays
    <3>4. TablesWithin'
      <4>1. CASE Write(s)
        BY <4>1, WriteWithin
      <4>2. CASE DrainFlows(s) \/ DrainBalances(s) \/ SweepThrows(s)
        BY <4>2, DrainDoes, SweepThrowsDoes, TablesStay
      <4> QED
        BY <2>4, <4>1, <4>2
    <3> QED
      BY <2>2, <3>3, <3>4
  <2> QED
    BY <1>3, <2>3, <2>4 DEF Flush
<1>4. CASE LoseRedis
  <2>1. eco' = [b \in Buckets |-> Empty] /\ UNCHANGED <<pc, todo, found, flows, sweep>>
    BY <1>4 DEF LoseRedis, handlers, durable
  <2>2. HashesWithin'
    BY <2>1 DEF HashesWithin, HashWithin, Empty
  <2> QED
    BY <2>1, <2>2, TablesStay, SweptKeeps, FloorsStay
<1>5. CASE (\E c \in Viewed : \E open \in BOOLEAN : ReadRows(c, open)) \/ MergeLive \/ UNCHANGED vars
  <2>1. UNCHANGED <<pc, todo, found, eco, flows, sweep>>
    BY <1>5 DEF ReadRows, MergeLive, vars, handlers, hot, durable
  <2> QED
    BY <2>1, HashesStay, TablesStay, SweptKeeps, FloorsStay
<1> QED
  BY <1>2, <1>3, <1>4, <1>5 DEF Next

(* While Redis is not lost, a marked hash is exact *)

LEMMA ExactStays ==
    ASSUME AddsOnce, SeededExact, UNCHANGED <<eco, seeded, added>>,
           \A r \in Records : pc[r] # "queued" => name'[r] = name[r]
    PROVE  SeededExact'
<1> SUFFICES ASSUME NEW b \in Buckets, b \in seeded, NEW c \in Cells, NEW m \in Measures
             PROVE  Held(b, c, m)' = Counted(b, c, m)'
  BY DEF SeededExact
<1>1. Held(b, c, m)' = Held(b, c, m)
  BY DEF Held
<1>2. Counted(b, c, m)' = Counted(b, c, m)
  BY CountedSame
<1> QED
  BY <1>1, <1>2 DEF SeededExact

LEMMA NothingCounted ==
    ASSUME NEW b \in Buckets, NEW c, NEW m \in Measures,
           \A r \in Records : <<r, b, m>> \notin added
    PROVE  Counted(b, c, m) = 0
<1>1. Of(b, c, m) = {}
  BY DEF Of
<1> QED
  BY <1>1, SumEmpty DEF Counted

LEMMA SeedExact ==
    ASSUME LatestInv, AddsOnce, Bounded, Exact, NEW r \in Records, Seed(r)
    PROVE  Exact'
<1>1. /\ pc[r] = "seed" /\ pc' = [pc EXCEPT ![r] = "amount"]
      /\ UNCHANGED <<todo, name, added, flows, sweep>>
  BY DEF Seed, durable, history
<1>2. PICK B \in Buckets : B = Bucket(r)
  BY <1>1, TodoFacts DEF Folding, Buckets
<1>3. B \in seeded' /\ \A b \in Buckets \ {B} : b \in seeded' <=> b \in seeded
  BY <1>2 DEF Seed
<1>4. \A q \in Records \ {r} : pc'[q] = pc[q] /\ found'[q] = found[q]
  BY HandlerFrame DEF Handle
<1>5. SeededFirst'
  <2>1. pc'[r] = "amount"
    BY <1>1 DEF AddsOnce
  <2>2. seeded \subseteq seeded'
    BY <1>2 DEF Seed
  <2> QED
    BY <1>1, <1>2, <1>3, <1>4, <2>1, <2>2 DEF Exact, SeededFirst, Bucket
<1>6. CASE B \in seeded
  <2>1. UNCHANGED <<eco, seeded>>
    BY <1>2, <1>6 DEF Seed
  <2>2. SeededExact'
    BY <1>1, <2>1, ExactStays DEF Exact
  <2>3. UnseededEmpty'
    BY <1>1, <2>1 DEF Exact, UnseededEmpty, Carried
  <2> QED
    BY <1>5, <2>2, <2>3 DEF Exact
<1>7. CASE B \notin seeded
  <2>1. eco' = [eco EXCEPT ![B] = Over(@, found[r])]
    BY <1>2, <1>7 DEF Seed
  <2>2. DOMAIN eco[B] = {} /\ DOMAIN found[r] = {}
    BY <1>1, <1>2, <1>7 DEF Exact, UnseededEmpty, SeededFirst
  <2>3. DOMAIN eco'[B] = {} /\ \A b \in Buckets \ {B} : eco'[b] = eco[b]
    BY <2>1, <2>2 DEF Over, Bounded, HashesWithin
  <2>4. UnseededEmpty'
    BY <1>1, <1>3, <2>3 DEF Exact, UnseededEmpty, Carried
  <2>5. ASSUME NEW b \in Buckets, b \in seeded', NEW c \in Cells, NEW m \in Measures
        PROVE  Held(b, c, m)' = Counted(b, c, m)'
    <3>1. Counted(b, c, m)' = Counted(b, c, m)
      BY <1>1, CountedSame
    <3>2. CASE b = B
      <4>1. Counted(b, c, m) = 0
        BY <1>7, <3>2, NothingCounted DEF Exact, UnseededEmpty
      <4> QED
        BY <2>3, <3>1, <3>2, <4>1 DEF Held
    <3>3. CASE b # B
      <4>1. Held(b, c, m)' = Held(b, c, m)
        BY <2>3, <3>3 DEF Held
      <4> QED
        BY <1>3, <2>5, <3>1, <3>3, <4>1 DEF Exact, SeededExact
    <3> QED
      BY <3>2, <3>3
  <2>6. SeededExact'
    BY <2>5 DEF SeededExact
  <2> QED
    BY <1>5, <2>4, <2>6 DEF Exact
<1> QED
  BY <1>6, <1>7

LEMMA IncrementExact ==
    ASSUME LatestInv, AddsOnce, Bounded, Exact,
           NEW r \in Records, NEW m \in Measures, Increment(r, m)
    PROVE  Exact'
<1>1. /\ pc[r] = m /\ pc' = [pc EXCEPT ![r] = IF m = "amount" THEN "count" ELSE "mark"]
      /\ UNCHANGED <<todo, name, found, seeded, flows, sweep>>
      /\ added' = added \cup {<<r, Bucket(r), m>>}
  BY DEF Increment, durable
<1>2. PICK B \in Buckets, cell \in Cells, w \in Nat :
        B = Bucket(r) /\ cell = CellOf(r) /\ w = Weight(r, m)
  BY <1>1, NotAddedYet, Shapes, WeightType DEF Folding, Measures
<1>3. B \in seeded
  BY <1>1, <1>2 DEF Exact, SeededFirst, Measures
<1> DEFINE at == <<cell, m>>
<1>4. eco' = [eco EXCEPT ![B] = Increased(@, at, w)]
  BY <1>2 DEF Increment
<1>5. /\ \A b \in Buckets \ {B} : eco'[b] = eco[b]
      /\ eco'[B] = Increased(eco[B], at, w)
  BY <1>4 DEF Bounded, HashesWithin
<1>6. SeededFirst'
  <2>1. \A q \in Records : pc'[q] = "seed" => pc[q] = "seed"
    BY <1>1 DEF AddsOnce
  <2>2. \A q \in Records : pc'[q] \in {"amount", "count", "mark"} => pc[q] \in {"amount", "count", "mark"}
    BY <1>1 DEF AddsOnce, Measures
  <2> QED
    BY <1>1, <2>1, <2>2 DEF Exact, SeededFirst, Bucket
<1>7. UnseededEmpty'
  BY <1>1, <1>2, <1>3, <1>5 DEF Exact, UnseededEmpty, Carried
<1>8. ASSUME NEW b \in Buckets, b \in seeded, NEW c \in Cells, NEW k \in Measures
      PROVE  Held(b, c, k)' = Counted(b, c, k)'
  <2>1. Counted(b, c, k)' = IF b = B /\ c = cell /\ k = m THEN Counted(b, c, k) + w ELSE Counted(b, c, k)
    BY <1>2, CountedGrows
  <2>2. Held(b, c, k) = Counted(b, c, k) /\ Counted(b, c, k) \in Nat
    BY <1>8, OfFinite DEF Exact, SeededExact
  <2>3. CASE b # B
    <3>1. Held(b, c, k)' = Held(b, c, k)
      BY <1>5, <2>3 DEF Held
    <3> QED
      BY <2>1, <2>2, <2>3, <3>1
  <2>4. CASE b = B
    <3>1. <<c, k>> = at <=> c = cell /\ k = m
      OBVIOUS
    <3>2. Held(b, c, k)' = IF c = cell /\ k = m THEN Held(b, c, k) + w ELSE Held(b, c, k)
      <4> HIDE DEF at
      <4>1. /\ DOMAIN Increased(eco[B], at, w) = DOMAIN eco[B] \cup {at}
            /\ \A g \in DOMAIN eco[B] \cup {at} : Increased(eco[B], at, w)[g] =
                 IF g \notin DOMAIN eco[B] THEN w ELSE IF g = at THEN eco[B][g] + w ELSE eco[B][g]
        BY DEF Increased
      <4>2. Held(b, c, k) = IF <<c, k>> \in DOMAIN eco[B] THEN eco[B][<<c, k>>] ELSE 0
        BY <2>4 DEF Held
      <4>3. Held(b, c, k)' = IF <<c, k>> \in DOMAIN eco'[B] THEN eco'[B][<<c, k>>] ELSE 0
        BY <2>4 DEF Held
      <4>4. CASE <<c, k>> = at
        BY <1>2, <1>5, <3>1, <4>1, <4>2, <4>3, <4>4
      <4>5. CASE <<c, k>> # at
        BY <1>5, <3>1, <4>1, <4>2, <4>3, <4>5
      <4> QED
        BY <4>4, <4>5
    <3> QED
      BY <2>1, <2>2, <2>4, <3>2
  <2> QED
    BY <2>3, <2>4
<1>9. SeededExact'
  BY <1>1, <1>8 DEF SeededExact
<1> QED
  BY <1>6, <1>7, <1>9 DEF Exact

LEMMA ExactNext ==
    LatestInv /\ AddsOnce /\ FlowKeys /\ Bounded /\ Exact /\ [Next]_vars /\ "redis" \notin upset'
      => Exact'
<1> SUFFICES ASSUME LatestInv, AddsOnce, FlowKeys, Bounded, Exact, [Next]_vars, "redis" \notin upset'
             PROVE  Exact'
  OBVIOUS
<1>1. ASSUME \A r \in Records, m \in Measures : ~Increment(r, m), UNCHANGED <<eco, seeded>>
      PROVE  SeededExact' /\ UNCHANGED added
  BY <1>1, AddedMoves, ExactStays DEF Exact
<1>2. ASSUME \A r \in Records, m \in Measures : ~Increment(r, m),
             UNCHANGED <<eco, seeded, flows, sweep>>
      PROVE  SeededExact' /\ UnseededEmpty'
  BY <1>1, <1>2 DEF Exact, UnseededEmpty, Carried
<1>3. ASSUME NEW r \in Records, Handle(r) \/ Throw(r) PROVE Exact'
  <2>1. UNCHANGED <<flows, sweep>>
    BY <1>3, HandlerFrame
  <2>2. \A q \in Records \ {r} : pc'[q] = pc[q] /\ todo'[q] = todo[q] /\ found'[q] = found[q]
    BY <1>3, HandlerFrame
  <2>3. DOMAIN pc = Records
    BY DEF AddsOnce
  <2>4. CASE Seed(r)
    BY <2>4, SeedExact
  <2>5. ASSUME NEW m \in Measures, Increment(r, m) PROVE Exact'
    BY <2>5, IncrementExact
  <2>6. CASE ~Seed(r) /\ \A m \in Measures : ~Increment(r, m)
    <3>1. UNCHANGED <<eco, seeded>>
      BY <1>3, <2>6 DEF Handle, Begin, ReadFloor, Mark, Look, PointRead, Decide, MarkBalance,
                        Throw, hot, Measures
    <3>2. \A q \in Records, m \in Measures : ~Increment(q, m)
      <4>1. ASSUME NEW q \in Records, NEW m \in Measures, Increment(q, m) PROVE FALSE
        <5>1. q # r
          BY <2>6, <4>1
        <5>2. pc'[q] = pc[q]
          BY <2>2, <5>1
        <5> QED
          BY <2>3, <4>1, <5>2 DEF Increment, Measures
      <4> QED
        BY <4>1
    <3>3. SeededExact' /\ UnseededEmpty'
      BY <1>2, <2>1, <3>1, <3>2
    <3>4. pc'[r] \notin {"amount", "count", "mark"}
      BY <1>3, <2>3, <2>6 DEF Handle, Begin, ReadFloor, Mark, Look, PointRead, Decide, MarkBalance,
                              Throw, Measures
    <3>5. pc'[r] = "seed" /\ Bucket(r)' \notin seeded' => DOMAIN found'[r] = {}
      <4>1. CASE ReadFloor(r)
        <5>1. /\ pc[r] = "floor" /\ found'[r] = Fields(flows[Bucket(r)]) /\ Bucket(r)' = Bucket(r)
          BY <4>1, Shapes DEF ReadFloor, Bucket
        <5>2. PICK B \in Buckets : B = Bucket(r)
          BY <5>1, TodoFacts DEF Folding, Buckets
        <5>3. B \notin seeded => DOMAIN flows[B] = {}
          BY DEF Exact, UnseededEmpty
        <5> QED
          BY <3>1, <5>1, <5>2, <5>3 DEF Fields
      <4>2. CASE ~ReadFloor(r)
        BY <1>3, <2>3, <2>6, <4>2 DEF Handle, Begin, Mark, Look, PointRead, Decide, MarkBalance,
                                      Throw, Measures
      <4> QED
        BY <4>1, <4>2
    <3>6. SeededFirst'
      BY <2>2, <3>1, <3>4, <3>5 DEF Exact, SeededFirst, Bucket
    <3> QED
      BY <3>3, <3>6 DEF Exact
  <2> QED
    BY <2>4, <2>5, <2>6
<1>4. ASSUME NEW s \in Sweeps, Flush(s) \/ SweepThrows(s) PROVE Exact'
  <2>1. /\ UNCHANGED <<pc, todo, found, name, eco, seeded, added>>
        /\ \A t \in Sweeps \ {s} : sweep'[t] = sweep[t]
    BY <1>4, SweepFrame
  <2>2. SeededFirst' /\ SeededExact'
    <3>1. SeededFirst'
      BY <2>1 DEF Exact, SeededFirst, Bucket
    <3>2. SeededExact'
      BY <2>1, ExactStays DEF Exact
    <3> QED
      BY <3>1, <3>2
  <2>3. ASSUME NEW b \in Buckets, b \notin seeded PROVE ~Carried(s, b)'
    <3>1. <<"eco", b>> # None
      BY FlowKeyIsAKey
    <3>2. CASE \E k \in sweep[s].left : Read(s, k)
      <4>1. PICK k \in sweep[s].left : Read(s, k)
        BY <3>2
      <4>2. CASE IsSeeded(k)
        <5>1. sweep'[s].key = k
          BY <4>1, <4>2, ReadDoes
        <5> QED
          BY <2>3, <4>2, <5>1 DEF Carried, IsSeeded
      <4>3. CASE ~IsSeeded(k)
        <5>1. sweep'[s].key = None
          BY <4>1, <4>3, ReadDoes
        <5> QED
          BY <3>1, <5>1 DEF Carried
      <4> QED
        BY <4>2, <4>3
    <3>3. CASE DrainFlows(s) \/ DrainBalances(s) \/ Write(s) \/ SweepThrows(s)
      <4>1. sweep'[s].key = None
        BY <3>3, DrainDoes, WriteDoes, SweepThrowsDoes
      <4> QED
        BY <3>1, <4>1 DEF Carried
    <3> QED
      BY <1>4, <3>2, <3>3 DEF Flush
  <2>4. ASSUME NEW b \in Buckets, b \notin seeded PROVE flows'[b] = flows[b]
    <3>1. CASE Write(s)
      <4>1. CASE sweep[s].key[1] # "eco"
        BY <3>1, <4>1, WriteDoes
      <4>2. CASE sweep[s].key[1] = "eco"
        <5>1. PICK B \in Buckets : sweep[s].key = <<"eco", B>>
          BY <3>1, <4>2, WriteDoes DEF FlowKeys, FlowKey
        <5>2. B # b
          BY <2>4, <5>1 DEF Exact, UnseededEmpty, Carried
        <5>3. flows' = [flows EXCEPT ![B] = MergedFlow(@, sweep[s].rows)]
          BY <3>1, <4>2, <5>1, WriteDoes
        <5> QED
          BY <5>2, <5>3 DEF Bounded, TablesWithin
      <4> QED
        BY <4>1, <4>2
    <3>2. CASE \E k \in sweep[s].left : Read(s, k)
      BY <3>2, ReadDoes
    <3>3. CASE DrainFlows(s) \/ DrainBalances(s) \/ SweepThrows(s)
      BY <3>3, DrainDoes, SweepThrowsDoes
    <3> QED
      BY <1>4, <3>1, <3>2, <3>3 DEF Flush
  <2>5. UnseededEmpty'
    BY <2>1, <2>3, <2>4 DEF Exact, UnseededEmpty, Carried
  <2> QED
    BY <2>2, <2>5 DEF Exact
<1>5. CASE LoseRedis
  BY <1>5 DEF LoseRedis
<1>6. CASE (\E c \in Viewed : \E open \in BOOLEAN : ReadRows(c, open)) \/ MergeLive \/ UNCHANGED vars
  <2>1. UNCHANGED <<pc, todo, name, found, eco, seeded, flows, sweep, added>>
    BY <1>6 DEF ReadRows, MergeLive, vars, handlers, hot, durable, history
  <2>2. SeededExact'
    BY <2>1, ExactStays DEF Exact
  <2>3. UnseededEmpty' /\ SeededFirst'
    BY <2>1 DEF Exact, UnseededEmpty, SeededFirst, Carried, Bucket
  <2> QED
    BY <2>2, <2>3 DEF Exact
<1> QED
  BY <1>3, <1>4, <1>5, <1>6 DEF Next

(* While nothing throws, a row is exact or what it lacks is on its way *)

LEMMA HandlerFollows ==
    ASSUME LatestInv, AddsOnce, Followed, NEW r \in Records, Handle(r),
           NEW b \in Buckets, NEW c \in Cells, NEW m \in Measures
    PROVE  Follows(b, c, m)'
<1>0. Follows(b, c, m)
  BY DEF Followed, Follows
<1>1. UNCHANGED <<flows, sweep>> /\ \A q \in Records \ {r} : pc'[q] = pc[q] /\ todo'[q] = todo[q]
  BY HandlerFrame
<1>2. DOMAIN pc = Records /\ [Next]_vars
  BY DEF AddsOnce, Next
<1>3. Row(b, c, m)' = Row(b, c, m)
  BY <1>1 DEF Row
<1>4. ASSUME \A k \in Measures : ~Increment(r, k), Noted(b) => Noted(b)'
      PROVE  Follows(b, c, m)'
  <2>1. \A q \in Records, k \in Measures : ~Increment(q, k)
    <3>1. ASSUME NEW q \in Records, NEW k \in Measures, Increment(q, k) PROVE FALSE
      <4>1. q # r
        BY <1>4, <3>1
      <4>2. pc'[q] = pc[q]
        BY <1>1, <4>1
      <4> QED
        BY <1>2, <3>1, <4>2 DEF Increment, Measures
    <3> QED
      BY <3>1
  <2>2. Counted(b, c, m)' = Counted(b, c, m)
    BY <1>2, <2>1, AddedMoves, CountedSame
  <2> QED
    BY <1>0, <1>1, <1>3, <1>4, <2>2 DEF Follows, Carried
<1>5. ASSUME UNCHANGED dirty, pc[r] \notin {"count", "mark"} PROVE Noted(b) => Noted(b)'
  BY <1>1, <1>5 DEF Noted, Bucket
<1>6. ASSUME NEW k \in Measures, Increment(r, k) PROVE Follows(b, c, m)'
  <2>1. /\ pc[r] = k /\ UNCHANGED <<todo, dirty>> /\ pc'[r] \in {"count", "mark"}
        /\ added' = added \cup {<<r, Bucket(r), k>>}
    BY <1>2, <1>6 DEF Increment, Measures
  <2>2. CASE b = Bucket(r)
    <3>1. Noted(b)'
      BY <2>1, <2>2 DEF Noted, Bucket
    <3> QED
      BY <3>1 DEF Follows
  <2>3. CASE b # Bucket(r)
    <3>1. Counted(b, c, m)' = Counted(b, c, m)
      BY <1>6, <2>3, CountedGrows
    <3>2. Noted(b) => Noted(b)'
      BY <1>1, <2>1, <2>3 DEF Noted, Bucket
    <3> QED
      BY <1>0, <1>1, <1>3, <3>1, <3>2 DEF Follows, Carried
  <2> QED
    BY <2>2, <2>3
<1>7. CASE Mark(r)
  <2>1. dirty' = dirty \cup {<<"eco", Bucket(r)>>} /\ pc[r] = "mark"
    BY <1>7 DEF Mark
  <2>2. Noted(b) => Noted(b)'
    BY <1>1, <2>1 DEF Noted, Bucket
  <2>3. \A k \in Measures : ~Increment(r, k)
    BY <2>1 DEF Increment, Measures
  <2> QED
    BY <1>4, <2>2, <2>3
<1>8. CASE MarkBalance(r)
  <2>1. dirty \subseteq dirty' /\ pc[r] = "markBal"
    BY <1>8 DEF MarkBalance
  <2>2. Noted(b) => Noted(b)'
    BY <1>1, <2>1 DEF Noted, Bucket
  <2>3. \A k \in Measures : ~Increment(r, k)
    BY <2>1 DEF Increment, Measures
  <2> QED
    BY <1>4, <2>2, <2>3
<1>9. CASE ~Mark(r) /\ ~MarkBalance(r) /\ \A k \in Measures : ~Increment(r, k)
  <2>1. UNCHANGED dirty /\ pc[r] \notin {"count", "mark"}
    BY <1>9 DEF Handle, Begin, ReadFloor, Seed, Look, PointRead, Decide, hot, Measures
  <2> QED
    BY <1>4, <1>5, <1>9, <2>1
<1> QED
  BY <1>6, <1>7, <1>8, <1>9

LEMMA InWithin ==
    ASSUME AddsOnce, NEW rows, NEW b \in Buckets, RowsWithin(rows, b), NEW c \in Cells, NEW m \in Measures
    PROVE  In(rows, c, m) \in Nat /\ In(rows, c, m) <= Counted(b, c, m)
<1>1. Counted(b, c, m) \in Nat
  BY OfFinite
<1> QED
  BY <1>1 DEF RowsWithin, Within, In

LEMMA RowIsIn ==
    ASSUME NEW b, NEW c, NEW m
    PROVE  Row(b, c, m) = In(flows[b], c, m)
BY DEF Row, In

LEMMA MergedIn ==
    ASSUME AddsOnce, NEW old, NEW new, NEW b \in Buckets, RowsWithin(old, b), RowsWithin(new, b),
           NEW c \in Cells, NEW m \in Measures
    PROVE  In(MergedFlow(old, new), c, m) = Greatest(In(old, c, m), In(new, c, m))
<1>1. In(old, c, m) \in Nat /\ In(new, c, m) \in Nat
  BY InWithin
<1>2. DOMAIN MergedFlow(old, new) = DOMAIN old \cup DOMAIN new
  BY MergedDomain
<1>3. CASE c \notin DOMAIN old \cup DOMAIN new
  BY <1>2, <1>3 DEF In, Greatest
<1>4. CASE c \in DOMAIN old \cup DOMAIN new
  <2>1. MergedFlow(old, new)[c][m] =
          IF c \notin DOMAIN old THEN new[c][m]
          ELSE IF c \notin DOMAIN new THEN old[c][m] ELSE Greatest(old[c][m], new[c][m])
    BY <1>4, MergedCell
  <2> QED
    BY <1>1, <1>2, <1>4, <2>1 DEF In, Greatest
<1> QED
  BY <1>3, <1>4

LEMMA HeldIn ==
    ASSUME NEW b \in Buckets, HashWithin(eco[b], b), NEW c \in Cells, NEW m \in Measures
    PROVE  In(FlowRows(eco[b]), c, m) = Held(b, c, m)
<1>1. DOMAIN eco[b] \subseteq Cells \X Measures
  BY DEF HashWithin
<1>2. PICK hash : hash = eco[b]
  OBVIOUS
<1>3. <<c, m>> \in DOMAIN hash => c \in DOMAIN FlowRows(hash)
  BY <1>1, <1>2, FlowRowsFacts
<1>4. c \in DOMAIN FlowRows(hash) =>
        FlowRows(hash)[c][m] = IF <<c, m>> \in DOMAIN hash THEN hash[<<c, m>>] ELSE 0
  BY <1>1, <1>2, FlowRowsFacts
<1> QED
  BY <1>2, <1>3, <1>4 DEF In, Held

LEMMA FollowsOn ==
    ASSUME NEW b \in Buckets, NEW c \in Cells, NEW m \in Measures,
           Follows(b, c, m), Counted(b, c, m)' = Counted(b, c, m), Row(b, c, m)' = Row(b, c, m),
           Noted(b) => Noted(b)', \A t \in Sweeps : Carried(t, b) => sweep'[t] = sweep[t]
    PROVE  Follows(b, c, m)'
<1>1. CASE Row(b, c, m) = Counted(b, c, m) \/ Noted(b)
  BY <1>1 DEF Follows
<1>2. CASE \E t \in Sweeps : Carried(t, b) /\ In(sweep[t].rows, c, m) = Counted(b, c, m)
  <2>1. PICK t \in Sweeps : Carried(t, b) /\ In(sweep[t].rows, c, m) = Counted(b, c, m)
    BY <1>2
  <2>2. sweep'[t] = sweep[t]
    BY <2>1
  <2>3. Carried(t, b)' /\ In(sweep[t].rows, c, m)' = In(sweep[t].rows, c, m)
    BY <2>1, <2>2 DEF Carried, In
  <2> QED
    BY <2>1, <2>3 DEF Follows
<1> QED
  BY <1>1, <1>2 DEF Follows

LEMMA DrainFollows ==
    ASSUME LatestInv, Followed, NEW s \in Sweeps, DrainFlows(s) \/ DrainBalances(s),
           NEW b \in Buckets, NEW c \in Cells, NEW m \in Measures,
           Counted(b, c, m)' = Counted(b, c, m)
    PROVE  Follows(b, c, m)'
<1>1. UNCHANGED <<pc, todo>> /\ \A t \in Sweeps \ {s} : sweep'[t] = sweep[t]
  BY SweepFrame DEF Flush
<1>2. PICK d : /\ sweep[s].left = {} /\ sweep[s].key = None
               /\ sweep'[s].left = Keys(d) /\ dirty' = dirty \ Keys(d) /\ UNCHANGED flows
  BY DrainDoes
<1>3. Row(b, c, m)' = Row(b, c, m)
  BY <1>2 DEF Row
<1>4. Noted(b) => Noted(b)'
  <2>1. CASE <<"eco", b>> \in dirty
    BY <1>2, <2>1 DEF Noted
  <2>2. CASE \E t \in Sweeps : <<"eco", b>> \in sweep[t].left
    BY <1>1, <1>2, <2>2 DEF Noted
  <2>3. CASE \E r \in Records : pc[r] \in {"count", "mark"} /\ Bucket(r) = b
    BY <1>1, <2>3 DEF Noted, Bucket
  <2> QED
    BY <2>1, <2>2, <2>3 DEF Noted
<1>5. \A t \in Sweeps : Carried(t, b) => sweep'[t] = sweep[t]
  BY <1>1, <1>2, FlowKeyIsAKey DEF Carried
<1> QED
  BY <1>3, <1>4, <1>5, FollowsOn DEF Followed

LEMMA ReadFollows ==
    ASSUME LatestInv, AddsOnce, Bounded, Exact, Followed,
           NEW s \in Sweeps, NEW k \in sweep[s].left, Read(s, k),
           NEW b \in Buckets, NEW c \in Cells, NEW m \in Measures,
           Counted(b, c, m)' = Counted(b, c, m)
    PROVE  Follows(b, c, m)'
<1>1. UNCHANGED <<pc, todo>> /\ \A t \in Sweeps \ {s} : sweep'[t] = sweep[t]
  BY SweepFrame DEF Flush
<1>2. sweep[s].key = None /\ sweep'[s].left = sweep[s].left \ {k} /\ UNCHANGED flows
  BY ReadDoes
<1>3. CASE k = <<"eco", b>>
  <2>1. CASE IsSeeded(k)
    <3>1. sweep'[s].key = k /\ sweep'[s].rows = FlowRows(eco[b]) /\ b \in seeded
      BY <1>3, <2>1, ReadDoes DEF IsSeeded
    <3>2. In(FlowRows(eco[b]), c, m) = Counted(b, c, m)
      BY <3>1, HeldIn DEF Bounded, HashesWithin, Exact, SeededExact
    <3>3. In(sweep[s].rows, c, m)' = In(FlowRows(eco[b]), c, m)
      BY <3>1 DEF In
    <3> QED
      BY <1>3, <3>1, <3>2, <3>3 DEF Follows, Carried
  <2>2. CASE ~IsSeeded(k)
    <3>1. dirty' = dirty \cup {k}
      BY <2>2, ReadDoes
    <3> QED
      BY <1>3, <3>1 DEF Follows, Noted
  <2> QED
    BY <2>1, <2>2
<1>4. CASE k # <<"eco", b>>
  <2>1. Row(b, c, m)' = Row(b, c, m)
    BY <1>2 DEF Row
  <2>2. dirty \subseteq dirty'
    BY ReadDoes
  <2>3. Noted(b) => Noted(b)'
    <3>1. CASE <<"eco", b>> \in dirty
      BY <2>2, <3>1 DEF Noted
    <3>2. CASE \E t \in Sweeps : <<"eco", b>> \in sweep[t].left
      BY <1>1, <1>2, <1>4, <3>2 DEF Noted
    <3>3. CASE \E r \in Records : pc[r] \in {"count", "mark"} /\ Bucket(r) = b
      BY <1>1, <3>3 DEF Noted, Bucket
    <3> QED
      BY <3>1, <3>2, <3>3 DEF Noted
  <2>4. \A t \in Sweeps : Carried(t, b) => sweep'[t] = sweep[t]
    BY <1>1, <1>2, FlowKeyIsAKey DEF Carried
  <2> QED
    BY <2>1, <2>3, <2>4, FollowsOn DEF Followed
<1> QED
  BY <1>3, <1>4

LEMMA WriteFollows ==
    ASSUME LatestInv, AddsOnce, FlowKeys, Bounded, Followed, NEW s \in Sweeps, Write(s),
           NEW b \in Buckets, NEW c \in Cells, NEW m \in Measures,
           Counted(b, c, m)' = Counted(b, c, m)
    PROVE  Follows(b, c, m)'
<1>1. UNCHANGED <<pc, todo>> /\ \A t \in Sweeps \ {s} : sweep'[t] = sweep[t]
  BY SweepFrame DEF Flush
<1>2. sweep'[s].left = sweep[s].left /\ UNCHANGED dirty /\ sweep[s].key # None
  BY WriteDoes
<1>3. Noted(b) => Noted(b)'
  BY <1>1, <1>2 DEF Noted, Bucket
<1>4. \A t \in Sweeps \ {s} : Carried(t, b) => sweep'[t] = sweep[t]
  BY <1>1
<1>5. CASE ~Carried(s, b)
  <2>1. flows'[b] = flows[b]
    <3>1. CASE sweep[s].key[1] # "eco"
      BY <3>1, WriteDoes
    <3>2. CASE sweep[s].key[1] = "eco"
      <4>1. PICK B \in Buckets : sweep[s].key = <<"eco", B>>
        BY <1>2, <3>2 DEF FlowKeys, FlowKey
      <4>2. flows' = [flows EXCEPT ![B] = MergedFlow(@, sweep[s].rows)]
        BY <3>2, <4>1, WriteDoes
      <4> QED
        BY <1>5, <4>1, <4>2 DEF Bounded, TablesWithin, Carried
    <3> QED
      BY <3>1, <3>2
  <2>2. Row(b, c, m)' = Row(b, c, m)
    BY <2>1 DEF Row
  <2> QED
    BY <1>3, <1>4, <1>5, <2>2, FollowsOn DEF Followed
<1>6. CASE Carried(s, b)
  <2>1. flows'[b] = MergedFlow(flows[b], sweep[s].rows)
    <3>1. sweep[s].key = <<"eco", b>> /\ sweep[s].key[1] = "eco" /\ sweep[s].key[2] = b
      BY <1>6 DEF Carried
    <3>2. flows' = [flows EXCEPT ![b] = MergedFlow(@, sweep[s].rows)]
      BY <3>1, WriteDoes
    <3> QED
      BY <3>2 DEF Bounded, TablesWithin
  <2>2. RowsWithin(flows[b], b) /\ RowsWithin(sweep[s].rows, b)
    BY <1>6 DEF Bounded, TablesWithin, SweptWithin
  <2>3. Row(b, c, m)' = Greatest(Row(b, c, m), In(sweep[s].rows, c, m))
    <3>1. In(MergedFlow(flows[b], sweep[s].rows), c, m)
            = Greatest(In(flows[b], c, m), In(sweep[s].rows, c, m))
      BY <2>2, MergedIn
    <3>2. Row(b, c, m)' = In(MergedFlow(flows[b], sweep[s].rows), c, m)
      BY <2>1 DEF Row, In
    <3> QED
      BY <3>1, <3>2, RowIsIn
  <2>4. /\ Row(b, c, m) \in Nat /\ Row(b, c, m) <= Counted(b, c, m)
        /\ In(sweep[s].rows, c, m) \in Nat /\ In(sweep[s].rows, c, m) <= Counted(b, c, m)
        /\ Counted(b, c, m) \in Nat
    BY <2>2, InWithin, RowIsIn, OfFinite
  <2>5. Row(b, c, m) = Counted(b, c, m) \/ In(sweep[s].rows, c, m) = Counted(b, c, m)
          => Row(b, c, m)' = Counted(b, c, m)
    BY <2>3, <2>4 DEF Greatest
  <2> QED
    <3>1. CASE Noted(b)
      BY <1>3, <3>1 DEF Follows
    <3>2. CASE Row(b, c, m) = Counted(b, c, m) \/ In(sweep[s].rows, c, m) = Counted(b, c, m)
      BY <2>5, <3>2 DEF Follows
    <3>3. CASE \E t \in Sweeps \ {s} : Carried(t, b) /\ In(sweep[t].rows, c, m) = Counted(b, c, m)
      <4>1. PICK t \in Sweeps \ {s} : Carried(t, b) /\ In(sweep[t].rows, c, m) = Counted(b, c, m)
        BY <3>3
      <4>2. Carried(t, b)' /\ In(sweep[t].rows, c, m)' = In(sweep[t].rows, c, m)
        BY <1>4, <4>1 DEF Carried, In
      <4> QED
        BY <4>1, <4>2 DEF Follows
    <3> QED
      BY <3>1, <3>2, <3>3 DEF Followed, Follows
<1> QED
  BY <1>5, <1>6

LEMMA FollowedNext ==
    /\ LatestInv /\ AddsOnce /\ FlowKeys /\ Bounded /\ Exact /\ Followed
    /\ [Next]_vars /\ upset' \subseteq {"overlap"}
    => Followed'
<1> SUFFICES ASSUME LatestInv, AddsOnce, FlowKeys, Bounded, Exact, Followed,
                    [Next]_vars, upset' \subseteq {"overlap"},
                    NEW b \in Buckets, NEW c \in Cells, NEW m \in Measures
             PROVE  Follows(b, c, m)'
  BY DEF Followed
<1>1. ASSUME NEW r \in Records, Handle(r) PROVE Follows(b, c, m)'
  BY <1>1, HandlerFollows
<1>2. ASSUME NEW r \in Records, Throw(r) PROVE FALSE
  BY <1>2 DEF Throw
<1>3. ASSUME UNCHANGED <<added, name>> PROVE Counted(b, c, m)' = Counted(b, c, m)
  BY <1>3, CountedSame
<1>4. ASSUME NEW s \in Sweeps, Flush(s) PROVE Follows(b, c, m)'
  <2>1. Counted(b, c, m)' = Counted(b, c, m)
    BY <1>3, <1>4, SweepFrame
  <2> QED
    BY <1>4, <2>1, DrainFollows, ReadFollows, WriteFollows DEF Flush
<1>5. ASSUME NEW s \in Sweeps, SweepThrows(s) PROVE FALSE
  BY <1>5 DEF SweepThrows
<1>6. CASE LoseRedis
  BY <1>6 DEF LoseRedis
<1>7. CASE (\E d \in Viewed : \E open \in BOOLEAN : ReadRows(d, open)) \/ MergeLive \/ UNCHANGED vars
  <2>1. UNCHANGED <<pc, todo, name, dirty, flows, sweep, added>>
    BY <1>7 DEF ReadRows, MergeLive, vars, handlers, hot, durable, history
  <2>2. Row(b, c, m)' = Row(b, c, m) /\ (Noted(b) => Noted(b)')
    BY <2>1 DEF Row, Noted, Bucket
  <2> QED
    BY <1>3, <2>1, <2>2 DEF Followed, Follows, Carried
<1> QED
  BY <1>1, <1>2, <1>4, <1>5, <1>6, <1>7 DEF Next

(* The page *)

LEMMA FigureFacts ==
    ASSUME NEW c \in Currencies, NEW f \in Figures(c)
    PROVE  CellAt(f) \in Cells /\ f[3] \in Measures
BY DEF Figures, CellAt, Cells

LEMMA ShownFacts ==
    ASSUME AddsOnce, NEW rows, RowsWithin(rows, "base"), NEW c \in Currencies
    PROVE  /\ Shown(rows, c) \in [Figures(c) -> Nat]
           /\ \A f \in Figures(c) :
                /\ Shown(rows, c)[f] = In(rows, CellAt(f), f[3])
                /\ Shown(rows, c)[f] <= Counted("base", CellAt(f), f[3])
<1>1. Shown(rows, c) = [f \in Figures(c) |-> In(rows, CellAt(f), f[3])]
  BY DEF Shown, Figures, In, CellAt
<1>2. ASSUME NEW f \in Figures(c)
      PROVE  /\ In(rows, CellAt(f), f[3]) \in Nat
             /\ In(rows, CellAt(f), f[3]) <= Counted("base", CellAt(f), f[3])
  BY FigureFacts, InWithin DEF Buckets
<1> QED
  BY <1>1, <1>2

LEMMA MergedFigures ==
    ASSUME NEW c, NEW figures \in [Figures(c) -> Nat], NEW live \in [Figures(c) -> Nat]
    PROVE  /\ Merged(figures, live) \in [Figures(c) -> Nat]
           /\ \A f \in Figures(c) :
                /\ Merged(figures, live)[f] \in {figures[f], live[f]}
                /\ Merged(figures, live)[f] >= figures[f] /\ Merged(figures, live)[f] >= live[f]
<1>1. Merged(figures, live) = [f \in Figures(c) |-> Greatest(figures[f], live[f])]
  BY DEF Merged
<1>2. \A f \in Figures(c) : figures[f] \in Nat /\ live[f] \in Nat
  OBVIOUS
<1>3. \A f \in Figures(c) :
        /\ Greatest(figures[f], live[f]) \in {figures[f], live[f]}
        /\ Greatest(figures[f], live[f]) >= figures[f] /\ Greatest(figures[f], live[f]) >= live[f]
        /\ Greatest(figures[f], live[f]) \in Nat
  BY <1>2 DEF Greatest
<1> QED
  BY <1>1, <1>3

LEMMA SeededStays ==
    ASSUME [Next]_vars, "redis" \notin upset'
    PROVE  seeded \subseteq seeded'
<1>1. ASSUME NEW r \in Records, Handle(r) \/ Throw(r) PROVE seeded \subseteq seeded'
  <2>1. CASE Seed(r)
    BY <2>1 DEF Seed
  <2>2. CASE ~Seed(r)
    BY <1>1, <2>2 DEF Handle, Begin, ReadFloor, Increment, Mark, Look, PointRead, Decide, MarkBalance,
                      Throw, hot
  <2> QED
    BY <2>1, <2>2
<1>2. ASSUME NEW s \in Sweeps, Flush(s) \/ SweepThrows(s) PROVE seeded \subseteq seeded'
  BY <1>2 DEF Flush, DrainFlows, DrainBalances, Read, Write, SweepThrows, hot
<1>3. CASE LoseRedis
  BY <1>3 DEF LoseRedis
<1>4. CASE (\E c \in Viewed : \E open \in BOOLEAN : ReadRows(c, open)) \/ MergeLive \/ UNCHANGED vars
  BY <1>4 DEF ReadRows, MergeLive, vars, hot
<1> QED
  BY <1>1, <1>2, <1>3, <1>4 DEF Next

LEMMA HeldIs ==
    ASSUME AddsOnce, Exact, NEW c \in Cells, NEW m \in Measures
    PROVE  /\ Held("base", c, m) \in Nat
           /\ "base" \in seeded => Held("base", c, m) = Counted("base", c, m)
           /\ "base" \notin seeded => Held("base", c, m) = 0
<1>1. "base" \in Buckets
  BY DEF Buckets
<1>2. Counted("base", c, m) \in Nat
  BY <1>1, OfFinite
<1>3. "base" \in seeded => Held("base", c, m) = Counted("base", c, m)
  BY <1>1 DEF Exact, SeededExact
<1>4. "base" \notin seeded => Held("base", c, m) = 0
  BY <1>1 DEF Exact, UnseededEmpty, Held
<1> QED
  BY <1>2, <1>3, <1>4

\* Unless Redis is lost the live figures never fall.
LEMMA HeldRises ==
    ASSUME AddsOnce, Exact, Rises, Exact', [Next]_vars, "redis" \notin upset',
           NEW c \in Cells, NEW m \in Measures
    PROVE  Held("base", c, m) <= Held("base", c, m)'
<1>1. /\ Held("base", c, m) \in Nat
      /\ "base" \in seeded => Held("base", c, m) = Counted("base", c, m)
      /\ "base" \notin seeded => Held("base", c, m) = 0
  BY HeldIs
<1>2. "base" \in Buckets
  BY DEF Buckets
<1>3. Counted("base", c, m)' \in Nat /\ Counted("base", c, m) <= Counted("base", c, m)'
  BY <1>2 DEF Rises
<1>4. /\ "base" \in seeded' => Held("base", c, m)' = Counted("base", c, m)'
      /\ "base" \notin seeded' => Held("base", c, m)' = 0
  BY <1>2 DEF Exact, SeededExact, UnseededEmpty, Held
<1> QED
  BY <1>1, <1>3, <1>4, SeededStays

LEMMA PageStays ==
    ASSUME PageInv, Rises, UNCHANGED page, upset \subseteq upset',
           "redis" \notin upset' => \A c \in Cells, m \in Measures : Held("base", c, m) <= Held("base", c, m)',
           "redis" \notin upset' => \A c \in Cells, m \in Measures :
             Held("base", c, m) \in Nat /\ Held("base", c, m)' \in Nat
    PROVE  PageInv'
<1> SUFFICES ASSUME page.pc \in {"live", "shown"}
             PROVE  /\ \A f \in Figures(page.currency) : page.figures[f] <= Counted("base", CellAt(f), f[3])'
                    /\ "redis" \notin upset' => \A f \in Figures(page.currency) :
                         \/ page.before[f] <= page.figures[f]
                         \/ page.pc = "live" /\ page.before[f] <= Held("base", CellAt(f), f[3])'
  BY DEF PageInv
<1>1. "base" \in Buckets /\ page.currency \in Currencies /\ page.figures \in [Figures(page.currency) -> Nat]
  BY DEF PageInv, Buckets
<1>2. ASSUME NEW f \in Figures(page.currency)
      PROVE  page.figures[f] <= Counted("base", CellAt(f), f[3])'
  <2>1. PICK c \in Cells, m \in Measures : c = CellAt(f) /\ m = f[3]
    BY <1>1, FigureFacts
  <2>2. page.figures[f] \in Nat /\ page.figures[f] <= Counted("base", c, m)
    BY <1>1, <2>1 DEF PageInv
  <2>3. /\ Counted("base", c, m) \in Nat /\ Counted("base", c, m)' \in Nat
        /\ Counted("base", c, m) <= Counted("base", c, m)'
    BY <1>1 DEF Rises
  <2> QED
    BY <2>1, <2>2, <2>3
<1>3. ASSUME "redis" \notin upset', NEW f \in Figures(page.currency)
      PROVE  \/ page.before[f] <= page.figures[f]
             \/ page.pc = "live" /\ page.before[f] <= Held("base", CellAt(f), f[3])'
  <2>1. PICK c \in Cells, m \in Measures : c = CellAt(f) /\ m = f[3]
    BY <1>1, FigureFacts
  <2>2. /\ page.before[f] \in Nat
        /\ \/ page.before[f] <= page.figures[f]
           \/ page.pc = "live" /\ page.before[f] <= Held("base", c, m)
    BY <1>3, <2>1 DEF PageInv
  <2>3. /\ Held("base", c, m) <= Held("base", c, m)'
        /\ Held("base", c, m) \in Nat /\ Held("base", c, m)' \in Nat
    BY <1>3
  <2> QED
    BY <2>1, <2>2, <2>3
<1> QED
  BY <1>2, <1>3

LEMMA PageAsked ==
    ASSUME AddsOnce, Bounded, NEW c \in Viewed, NEW open \in BOOLEAN, ReadRows(c, open)
    PROVE  PageInv'
<1> DEFINE rows == Shown(flows["base"], c)
           live == Shown(FlowRows(eco["base"]), c)
<1>1. "base" \in Buckets /\ c \in Currencies
  BY DEF Buckets
<1>2. page' = [pc |-> IF open THEN "live" ELSE "shown", currency |-> c, figures |-> rows,
               before |-> IF open THEN Merged(rows, live) ELSE rows]
  BY DEF ReadRows
<1>3. UNCHANGED <<added, name, eco>>
  BY DEF ReadRows, handlers, hot, history
<1>4. /\ rows \in [Figures(c) -> Nat]
      /\ \A f \in Figures(c) : rows[f] <= Counted("base", CellAt(f), f[3])
  BY <1>1, ShownFacts DEF Bounded, TablesWithin
<1>5. RowsWithin(FlowRows(eco["base"]), "base")
  BY <1>1, FlowRowsWithin DEF Bounded, HashesWithin
<1>6. /\ live \in [Figures(c) -> Nat]
      /\ \A f \in Figures(c) : live[f] = Held("base", CellAt(f), f[3])
  <2>1. /\ live \in [Figures(c) -> Nat]
        /\ \A f \in Figures(c) : live[f] = In(FlowRows(eco["base"]), CellAt(f), f[3])
    BY <1>1, <1>5, ShownFacts
  <2>2. \A f \in Figures(c) : In(FlowRows(eco["base"]), CellAt(f), f[3]) = Held("base", CellAt(f), f[3])
    BY <1>1, HeldIn, FigureFacts DEF Bounded, HashesWithin
  <2> QED
    BY <2>1, <2>2
<1> HIDE DEF rows, live
<1>7. \A f \in Figures(c) :
        Merged(rows, live)[f] \in Nat /\ Merged(rows, live)[f] \in {rows[f], live[f]}
  BY <1>4, <1>6, MergedFigures
<1>8. PICK p, figures, before :
        /\ p = IF open THEN "live" ELSE "shown"
        /\ figures = rows /\ before = IF open THEN Merged(rows, live) ELSE rows
  OBVIOUS
<1>9. page' = [pc |-> p, currency |-> c, figures |-> figures, before |-> before]
  BY <1>2, <1>8
<1>10. ASSUME NEW f \in Figures(c)
       PROVE  /\ figures[f] <= Counted("base", CellAt(f), f[3])'
              /\ before[f] \in Nat
              /\ \/ before[f] <= figures[f]
                 \/ p = "live" /\ before[f] <= Held("base", CellAt(f), f[3])'
  <2>1. PICK cell \in Cells, m \in Measures : cell = CellAt(f) /\ m = f[3]
    BY <1>1, FigureFacts
  <2>2. Counted("base", cell, m)' = Counted("base", cell, m)
    BY <1>1, <1>3, CountedSame
  <2>3. Held("base", cell, m)' = Held("base", cell, m)
    BY <1>3 DEF Held
  <2>4. rows[f] \in Nat /\ rows[f] <= Counted("base", cell, m)
    BY <1>4, <2>1
  <2>5. live[f] \in Nat /\ live[f] = Held("base", cell, m)
    BY <1>6, <2>1
  <2>6. before[f] \in Nat /\ (before[f] <= rows[f] \/ (p = "live" /\ before[f] <= live[f]))
    <3>1. CASE open
      <4>1. before[f] \in Nat /\ before[f] \in {rows[f], live[f]} /\ p = "live"
        BY <1>7, <1>8, <3>1
      <4> QED
        BY <2>4, <2>5, <4>1
    <3>2. CASE ~open
      BY <1>8, <2>4, <3>2
    <3> QED
      BY <3>1, <3>2
  <2> QED
    BY <1>8, <2>1, <2>2, <2>3, <2>4, <2>5, <2>6
<1> QED
  BY <1>1, <1>4, <1>8, <1>9, <1>10 DEF PageInv

LEMMA PageMerged ==
    ASSUME AddsOnce, Bounded, PageInv, MergeLive
    PROVE  PageInv'
<1> DEFINE c == page.currency
           old == page.figures
           live == Shown(FlowRows(eco["base"]), c)
           new == Merged(old, live)
<1>1. "base" \in Buckets /\ page.pc = "live" /\ c \in Currencies /\ old \in [Figures(c) -> Nat]
  BY DEF Buckets, MergeLive, PageInv
<1>2. page = [pc |-> page.pc, currency |-> c, figures |-> old, before |-> page.before]
  BY <1>1 DEF PageInv
<1>3. page' = [pc |-> "shown", currency |-> c, figures |-> new, before |-> page.before]
  BY <1>2 DEF MergeLive
<1>4. UNCHANGED <<added, name, upset>>
  BY DEF MergeLive, handlers, history, bounds
<1>5. RowsWithin(FlowRows(eco["base"]), "base")
  BY <1>1, FlowRowsWithin DEF Bounded, HashesWithin
<1>6. /\ live \in [Figures(c) -> Nat]
      /\ \A f \in Figures(c) : /\ live[f] = Held("base", CellAt(f), f[3])
                               /\ live[f] <= Counted("base", CellAt(f), f[3])
  <2>1. /\ live \in [Figures(c) -> Nat]
        /\ \A f \in Figures(c) : /\ live[f] = In(FlowRows(eco["base"]), CellAt(f), f[3])
                                 /\ live[f] <= Counted("base", CellAt(f), f[3])
    BY <1>1, <1>5, ShownFacts
  <2>2. \A f \in Figures(c) : In(FlowRows(eco["base"]), CellAt(f), f[3]) = Held("base", CellAt(f), f[3])
    BY <1>1, HeldIn, FigureFacts DEF Bounded, HashesWithin
  <2> QED
    BY <2>1, <2>2
<1>7. /\ new \in [Figures(c) -> Nat]
      /\ \A f \in Figures(c) : new[f] \in {old[f], live[f]} /\ new[f] >= old[f] /\ new[f] >= live[f]
  <2> HIDE DEF old, live
  <2> QED
    BY <1>1, <1>6, MergedFigures
<1>8. \A f \in Figures(c) :
        /\ old[f] <= Counted("base", CellAt(f), f[3])
        /\ "redis" \notin upset =>
             /\ page.before[f] \in Nat
             /\ page.before[f] <= old[f] \/ page.before[f] <= Held("base", CellAt(f), f[3])
  BY <1>1 DEF PageInv
<1>9. PICK cur0, figures, before : cur0 = c /\ figures = new /\ before = page.before
  OBVIOUS
<1>10. page' = [pc |-> "shown", currency |-> cur0, figures |-> figures, before |-> before]
  BY <1>3, <1>9
<1>11. ASSUME NEW f \in Figures(cur0)
       PROVE  /\ figures[f] <= Counted("base", CellAt(f), f[3])'
              /\ "redis" \notin upset => before[f] \in Nat /\ before[f] <= figures[f]
  <2>1. PICK cell \in Cells, m \in Measures : cell = CellAt(f) /\ m = f[3]
    BY <1>1, <1>9, FigureFacts
  <2>2. Counted("base", cell, m)' = Counted("base", cell, m)
    BY <1>1, <1>4, CountedSame
  <2>3. old[f] \in Nat /\ live[f] \in Nat /\ figures[f] \in {old[f], live[f]}
        /\ figures[f] >= old[f] /\ figures[f] >= live[f]
    BY <1>1, <1>6, <1>7, <1>9
  <2>4. old[f] <= Counted("base", cell, m) /\ live[f] <= Counted("base", cell, m)
    BY <1>6, <1>8, <1>9, <2>1
  <2>5. "redis" \notin upset =>
          before[f] \in Nat /\ (before[f] <= old[f] \/ before[f] <= live[f])
    BY <1>6, <1>8, <1>9, <2>1
  <2> HIDE DEF old, live, new, c
  <2> QED
    BY <2>1, <2>2, <2>3, <2>4, <2>5
<1>12. cur0 \in Currencies /\ figures \in [Figures(cur0) -> Nat]
  BY <1>1, <1>7, <1>9
<1> HIDE DEF old, live, new, c
<1> QED
  BY <1>4, <1>10, <1>11, <1>12 DEF PageInv

LEMMA PageNext ==
    ASSUME LatestInv, AddsOnce, FlowKeys, Bounded, PageInv, Rises, [Next]_vars,
           upset \subseteq upset', "redis" \notin upset' => Exact /\ Exact'
    PROVE  PageInv'
<1>1. CASE UNCHANGED page
  <2>1. ASSUME "redis" \notin upset', NEW c \in Cells, NEW m \in Measures
        PROVE  /\ Held("base", c, m) \in Nat /\ Held("base", c, m)' \in Nat
               /\ Held("base", c, m) <= Held("base", c, m)'
    <3>1. Held("base", c, m) <= Held("base", c, m)' /\ Held("base", c, m) \in Nat
      BY <2>1, HeldRises, HeldIs
    <3>2. "base" \in Buckets /\ Counted("base", c, m)' \in Nat
      BY DEF Rises, Buckets
    <3>3. Held("base", c, m)' \in Nat
      BY <2>1, <3>2 DEF Exact, SeededExact, UnseededEmpty, Held
    <3> QED
      BY <3>1, <3>3
  <2> QED
    BY <1>1, <2>1, PageStays
<1>2. CASE \E c \in Viewed : \E open \in BOOLEAN : ReadRows(c, open)
  BY <1>2, PageAsked
<1>3. CASE MergeLive
  BY <1>3, PageMerged
<1>4. ASSUME NEW r \in Records, Handle(r) \/ Throw(r) PROVE UNCHANGED page
  BY <1>4, HandlerFrame
<1>5. ASSUME NEW s \in Sweeps, Flush(s) \/ SweepThrows(s) PROVE UNCHANGED page
  BY <1>5, SweepFrame
<1>6. CASE LoseRedis \/ UNCHANGED vars
  BY <1>1, <1>6 DEF LoseRedis, vars
<1> QED
  BY <1>1, <1>2, <1>3, <1>4, <1>5, <1>6 DEF Next

LEMMA UpsetGrows == ASSUME LatestInv, AddsOnce, [Next]_vars PROVE upset \subseteq upset'
<1>1. ASSUME NEW r \in Records, Handle(r) \/ Throw(r) PROVE upset \subseteq upset'
  BY <1>1, HandlerFrame
<1>2. ASSUME NEW s \in Sweeps, Flush(s) \/ SweepThrows(s) PROVE upset \subseteq upset'
  BY <1>2, SweepFrame
<1>3. CASE (\E c \in Viewed : \E open \in BOOLEAN : ReadRows(c, open)) \/ MergeLive \/ UNCHANGED vars
  BY <1>3 DEF ReadRows, MergeLive, vars, bounds
<1>4. CASE LoseRedis
  BY <1>4 DEF LoseRedis
<1> QED
  BY <1>1, <1>2, <1>3, <1>4 DEF Next

LEMMA AddsNext == ASSUME LatestInv, AddsOnce, [Next]_vars PROVE AddsOnce'
<1>1. ASSUME NEW r \in Records, Handle(r) \/ Throw(r) PROVE AddsOnce'
  BY <1>1, HandlerAdds, ThrowAdds
<1>2. ASSUME NEW s \in Sweeps, Flush(s) \/ SweepThrows(s) PROVE AddsOnce'
  BY <1>2, SweepFrame, AddsStays
<1>3. CASE (\E c \in Viewed : \E open \in BOOLEAN : ReadRows(c, open)) \/ MergeLive \/ LoseRedis
            \/ UNCHANGED vars
  <2>1. UNCHANGED <<pc, todo, added>>
    BY <1>3 DEF ReadRows, MergeLive, LoseRedis, vars, handlers, history
  <2> QED
    BY <2>1, UpsetGrows, AddsStays
<1> QED
  BY <1>1, <1>2, <1>3 DEF Next

LEMMA FlowInit == Init => FlowInv
<1> SUFFICES ASSUME Init PROVE FlowInv
  OBVIOUS
<1>1. /\ pc = [r \in Records |-> "queued"] /\ dirty = {} /\ sweep = [s \in Sweeps |-> NoSweep]
      /\ eco = [b \in Buckets |-> Empty] /\ flows = [b \in Buckets |-> Empty]
      /\ page = NoPage /\ added = {} /\ seeded = {}
  BY DEF Init
<1>2. NoSweep.left = {} /\ NoSweep.key = None /\ DOMAIN Empty = {}
  BY DEF NoSweep, Empty
<1>3. AddsOnce
  BY AddsInit
<1>4. FlowKeys
  BY <1>1, <1>2 DEF FlowKeys
<1>5. \A s \in Sweeps, b \in Buckets : ~Carried(s, b)
  BY <1>1, <1>2, FlowKeyIsAKey DEF Carried
<1>6. Bounded
  BY <1>1, <1>2, <1>5 DEF Bounded, HashesWithin, TablesWithin, FloorsWithin, SweptWithin,
                          HashWithin, RowsWithin
<1>7. PageInv
  BY <1>1 DEF PageInv, NoPage
<1>8. Exact
  BY <1>1, <1>2, <1>5 DEF Exact, SeededExact, UnseededEmpty, SeededFirst
<1>9. Followed
  <2> SUFFICES ASSUME NEW b \in Buckets, NEW c \in Cells, NEW m \in Measures
               PROVE  Row(b, c, m) = Counted(b, c, m)
    BY DEF Followed, Follows
  <2>1. Counted(b, c, m) = 0
    BY <1>1, NothingCounted
  <2> QED
    BY <1>1, <1>2, <2>1 DEF Row
<1> QED
  BY <1>3, <1>4, <1>6, <1>7, <1>8, <1>9 DEF FlowInv

LEMMA FlowNext == LatestInv /\ FlowInv /\ [Next]_vars => FlowInv'
<1> SUFFICES ASSUME LatestInv, FlowInv, [Next]_vars PROVE FlowInv'
  OBVIOUS
<1>1. AddsOnce /\ FlowKeys /\ Bounded /\ PageInv
  BY DEF FlowInv
<1>2. AddsOnce' /\ FlowKeys' /\ Bounded'
  BY <1>1, AddsNext, KeysStay, BoundedNext
<1>3. upset \subseteq upset'
  BY <1>1, UpsetGrows
<1>4. "redis" \notin upset' => Exact /\ Exact'
  BY <1>1, <1>3, ExactNext DEF FlowInv
<1>5. upset' \subseteq {"overlap"} => Followed'
  BY <1>1, <1>3, <1>4, FollowedNext DEF FlowInv
<1>6. PageInv'
  BY <1>1, <1>3, <1>4, CountedRises, PageNext
<1> QED
  BY <1>2, <1>4, <1>5, <1>6 DEF FlowInv

\* At rest nothing waits, so every row is exact, and what was counted are the
\* records whose handlers ran to their end.
LEMMA FlowsAtRest == LatestInv /\ FlowInv => FlowsAddUp
<1> SUFFICES ASSUME LatestInv, FlowInv, NEW b \in Buckets, NEW m \in Measures
             PROVE  /\ \A c \in DOMAIN flows[b] : flows[b][c][m] <= Counted(b, c, m)
                    /\ Settled /\ upset \subseteq {"overlap"} => \A c \in Cells :
                         Row(b, c, m) = AddedUp({r \in Records : pc[r] = "done" /\ CellOf(r) = c
                                                       /\ (b = "seg" => r \in Segmented)}, m)
  BY DEF FlowsAddUp
<1>1. \A c \in DOMAIN flows[b] : flows[b][c][m] <= Counted(b, c, m)
  BY DEF FlowInv, Bounded, TablesWithin, RowsWithin, Within
<1>2. ASSUME Settled, upset \subseteq {"overlap"}, NEW c \in Cells
      PROVE  Row(b, c, m) = AddedUp({r \in Records : pc[r] = "done" /\ CellOf(r) = c
                                           /\ (b = "seg" => r \in Segmented)}, m)
  <2>1. AddsOnce
    BY DEF FlowInv
  <2>2. \A r \in Records : pc[r] \in {"queued", "refused", "done"}
    BY <1>2, <2>1 DEF Settled, InHook, AddsOnce, Once
  <2>3. dirty = {} /\ \A s \in Sweeps : sweep[s].left = {} /\ sweep[s].key = None
    BY <1>2 DEF Settled, LatestInv, Sweeping
  <2>4. ~Noted(b) /\ \A s \in Sweeps : ~Carried(s, b)
    BY <2>2, <2>3, FlowKeyIsAKey DEF Noted, Carried
  <2>5. Row(b, c, m) = Counted(b, c, m)
    BY <1>2, <2>4 DEF FlowInv, Followed, Follows
  <2>6. \A r \in Records :
          <<r, b, m>> \in added <=> pc[r] = "done" /\ (b = "seg" => r \in Segmented)
    BY <2>1, <2>2 DEF AddsOnce, Once, Folded, Plan, Buckets
  <2>7. Of(b, c, m) = {r \in Records : pc[r] = "done" /\ CellOf(r) = c /\ (b = "seg" => r \in Segmented)}
    BY <2>6 DEF Of
  <2> QED
    BY <2>5, <2>7 DEF Counted
<1> QED
  BY <1>1, <1>2

LEMMA PageShows == FlowInv => PageWithinFlows
<1> SUFFICES ASSUME FlowInv, page.pc = "shown", NEW f \in DOMAIN page.figures
             PROVE  /\ page.figures[f] <= Counted("base", <<f[1], f[2]>>, f[3])
                    /\ "redis" \notin upset => page.figures[f] >= page.before[f]
  BY DEF PageWithinFlows
<1>1. /\ page.figures \in [Figures(page.currency) -> Nat]
      /\ \A g \in Figures(page.currency) : page.figures[g] <= Counted("base", CellAt(g), g[3])
      /\ "redis" \notin upset => \A g \in Figures(page.currency) :
           page.before[g] \in Nat /\ page.before[g] <= page.figures[g]
  BY DEF FlowInv, PageInv
<1>2. f \in Figures(page.currency)
  BY <1>1
<1> QED
  BY <1>1, <1>2 DEF CellAt

LEMMA FlowInvariant == Spec => [](LatestInv /\ FlowInv)
BY LatestInit, LatestNext, FlowInit, FlowNext, PTL DEF Spec

\* No figure of the two flow tables exceeds what was counted, whatever is lost, thrown
\* or flushed twice; and when the system has come to rest and nothing went wrong, each is
\* the sum over the records that were handled, however many sweeps overlapped
\* (economy-hooks.service.ts, economy-flush-plans.ts).
THEOREM FlowsCorrect == Spec => []FlowsAddUp
BY FlowInvariant, FlowsAtRest, PTL

\* A day page shows nothing that was not counted and, unless Redis was lost, nothing
\* less than what the tables and the live hash held when it was asked for
\* (economy-read.service.ts, economyDay).
THEOREM PageCorrect == Spec => []PageWithinFlows
BY FlowInvariant, PageShows, PTL
=============================================================================
