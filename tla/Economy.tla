------------------------------- MODULE Economy -------------------------------
(***************************************************************************)
(* The economy of one game on one day: how the worker folds an economy     *)
(* event into the day's flow hashes and into the user's last known         *)
(* balance, how the sweeps flush both, and the day page of the read model. *)
(*                                                                         *)
(* A cell of a flow hash is a currency and a direction; provenance, reason *)
(* and the segment value stand beside them in every field and are fixed.   *)
(* The base hash and the segment hash of the day are the two Buckets.      *)
(*                                                                         *)
(* One Redis command and one Lua script are atomic.  The look at a         *)
(* bucket's marker and its seeding are one step here, and so are the rows  *)
(* of one bucket: DayCountFlush takes both apart.                          *)
(***************************************************************************)
EXTENDS Integers, Sequences, FiniteSetsExt, TLC

CONSTANTS
    Records,         \* economy events that passed the validator and the dedup gate
    Users, Currencies, Other, None,
    Allowed,         \* economy_currency_allowlist, or all currencies when it is empty
    Cap,             \* economy_currency_cap_per_game
    UserOf, CurrencyOf, FlowOf,
    AmountOf,        \* amount in tenths of a unit
    Segmented,       \* records with a level or a region
    Depth,           \* records with a usable balance_after and a user, while depth is on
    AsOf, Arrived,   \* corrected time and server_received of a record
    IdOf,            \* order of the event ids
    Sweeps,
    Viewed,          \* currencies whose day page is asked for, once
    Registries,      \* what eco:cur may hold when the day starts to be looked at
    StoredBalances,  \* balance_snapshot by then
    MaxTrouble       \* bound on losses of Redis, thrown records and thrown sweeps

Buckets == {"base", "seg"}
Cells == Currencies \X {"source", "sink"}
Measures == {"amount", "count"}
Accounts == Users \X Currencies
Empty == [x \in {} |-> 0]

ASSUME EconomyAssumption ==
    /\ Other \in Currencies /\ Allowed \subseteq Currencies /\ Cap \in Nat
    /\ CurrencyOf \in [Records -> Currencies] /\ UserOf \in [Records -> Users]
    /\ FlowOf \in [Records -> {"source", "sink"}] /\ AmountOf \in [Records -> Nat \ {0}]
    /\ Segmented \subseteq Records /\ Depth \subseteq Records /\ Viewed \subseteq Currencies
    /\ AsOf \in [Records -> Nat] /\ Arrived \in [Records -> Nat]
    /\ IdOf \in [Records -> Nat \ {0}]
    /\ \A r1, r2 \in Records : IdOf[r1] = IdOf[r2] => r1 = r2
    /\ \A c \in Registries : c \subseteq Currencies /\ Cardinality(c \ {Other}) <= Cap
    /\ DOMAIN StoredBalances \subseteq Accounts
    /\ \A a \in DOMAIN StoredBalances :
         StoredBalances[a].asOf \in Nat /\ StoredBalances[a].from \notin Records
    /\ None \notin (({"eco"} \X Buckets) \cup ({"bal"} \X Currencies))
    /\ MaxTrouble \in Nat

VARIABLES
    pc, todo, name, found,  \* handlers: step, hashes left, resolved currency, what was read
    cur,                    \* eco:cur, the currencies seen
    eco, seeded,            \* bucket -> its fields (cell and measure), and the marked ones
    bal,                    \* user and currency -> entry of the balance hash
    dirty,                  \* the dirty registry: pairs of domain and key
    flows, balances,        \* Postgres: rows of the two flow tables and of balance_snapshot
    sweep,                  \* sweep -> step, keys left, and the rows at hand
    page,                   \* the page of one currency
    added,                  \* history: <<record, bucket, measure>> that were counted
    begun,                  \* history: records begun since Redis was last lost
    trouble, upset

hot == <<cur, eco, seeded, bal, dirty>>
handlers == <<pc, todo, name, found>>
durable == <<flows, balances>>
history == <<added, begun>>
bounds == <<trouble, upset>>
vars == <<handlers, hot, durable, sweep, page, history, bounds>>

NoPage == [pc |-> "idle"]
NoSweep == [domain |-> "none", left |-> {}, key |-> None, rows |-> Empty]

Init ==
    /\ pc = [r \in Records |-> "queued"] /\ todo = [r \in Records |-> <<>>]
    /\ name = [r \in Records |-> None] /\ found = [r \in Records |-> Empty]
    /\ cur \in Registries /\ eco = [b \in Buckets |-> Empty] /\ seeded = {} /\ bal = Empty
    /\ dirty = {}
    /\ flows = [b \in Buckets |-> Empty] /\ balances = StoredBalances
    /\ sweep = [s \in Sweeps |-> NoSweep]
    /\ page = NoPage
    /\ added = {} /\ begun = {}
    /\ trouble = 0 /\ upset = {}

Account(r) == <<UserOf[r], name[r]>>
CellOf(r) == <<name[r], FlowOf[r]>>

-----------------------------------------------------------------------------
(* The hot hook.                                                           *)

\* Admit a new currency below the cap; beyond it the event counts as Other.
Resolved(c) == IF c \in cur \/ c = Other \/ Cardinality(cur) < Cap THEN c ELSE Other

Begin(r) ==
    /\ pc[r] = "queued"
    /\ IF CurrencyOf[r] \in Allowed
       THEN LET c == Resolved(CurrencyOf[r])
            IN  /\ name' = [name EXCEPT ![r] = c]
                /\ cur' = cur \cup {c}
                /\ todo' = [todo EXCEPT ![r] = IF r \in Segmented THEN <<"base", "seg">>
                                                                  ELSE <<"base">>]
                /\ pc' = [pc EXCEPT ![r] = "floor"]
                /\ begun' = begun \cup {r}
       ELSE /\ pc' = [pc EXCEPT ![r] = "refused"]
            /\ UNCHANGED <<name, cur, todo, begun>>
    /\ UNCHANGED <<found, eco, seeded, bal, dirty, durable, sweep, page, added, bounds>>

Bucket(r) == Head(todo[r])

\* The fields a durable row turns into.
Fields(rows) == [f \in (DOMAIN rows) \X Measures |-> rows[f[1]][f[2]]]

\* The floor is read before the marker is looked at.
ReadFloor(r) ==
    /\ pc[r] = "floor"
    /\ found' = [found EXCEPT ![r] = Fields(flows[Bucket(r)])]
    /\ pc' = [pc EXCEPT ![r] = "seed"]
    /\ UNCHANGED <<todo, name, hot, durable, sweep, page, history, bounds>>

\* Fields that are there stay as they are.
Over(hash, floor) ==
    [f \in DOMAIN hash \cup DOMAIN floor |-> IF f \in DOMAIN hash THEN hash[f] ELSE floor[f]]

Seed(r) ==
    /\ pc[r] = "seed"
    /\ pc' = [pc EXCEPT ![r] = "amount"]
    /\ found' = [found EXCEPT ![r] = Empty]
    /\ IF Bucket(r) \in seeded
       THEN UNCHANGED <<eco, seeded>>
       ELSE /\ eco' = [eco EXCEPT ![Bucket(r)] = Over(@, found[r])]
            /\ seeded' = seeded \cup {Bucket(r)}
    /\ UNCHANGED <<todo, name, cur, bal, dirty, durable, sweep, page, history, bounds>>

\* Amounts are cut to whole units.
Whole(r) == AmountOf[r] \div 10
Weight(r, m) == IF m = "amount" THEN Whole(r) ELSE 1

Increased(hash, f, by) ==
    [g \in DOMAIN hash \cup {f} |->
        IF g \notin DOMAIN hash THEN by ELSE IF g = f THEN hash[g] + by ELSE hash[g]]

\* Amount and count are two commands.
Increment(r, m) ==
    /\ pc[r] = m
    /\ eco' = [eco EXCEPT ![Bucket(r)] = Increased(@, <<CellOf(r), m>>, Weight(r, m))]
    /\ added' = added \cup {<<r, Bucket(r), m>>}
    /\ pc' = [pc EXCEPT ![r] = IF m = "amount" THEN "count" ELSE "mark"]
    /\ UNCHANGED <<todo, name, found, cur, seeded, bal, dirty, durable, sweep, page,
                   begun, bounds>>

Mark(r) ==
    /\ pc[r] = "mark"
    /\ dirty' = dirty \cup {<<"eco", Bucket(r)>>}
    /\ todo' = [todo EXCEPT ![r] = Tail(@)]
    /\ pc' = [pc EXCEPT ![r] = IF Len(todo[r]) > 1 THEN "floor"
                               ELSE IF r \in Depth THEN "look" ELSE "done"]
    /\ UNCHANGED <<name, found, cur, eco, seeded, bal, durable, sweep, page, history, bounds>>

-----------------------------------------------------------------------------
(* The balance: the entry that happened last wins, whatever arrives last.  *)

\* Look for the entry, and on a miss go to the table.
Look(r) ==
    /\ pc[r] = "look"
    /\ pc' = [pc EXCEPT ![r] = IF Account(r) \in DOMAIN bal THEN "decide" ELSE "read"]
    /\ UNCHANGED <<todo, name, found, hot, durable, sweep, page, history, bounds>>

\* A row carries no tie-break keys: neutral ones stand in.
PointRead(r) ==
    LET a == Account(r)
    IN  /\ pc[r] = "read"
        /\ found' = [found EXCEPT ![r] =
               IF a \notin DOMAIN balances THEN Empty
               ELSE [x \in {a} |-> [asOf |-> balances[a].asOf, arrived |-> balances[a].asOf,
                                     id |-> 0, from |-> balances[a].from]]]
        /\ pc' = [pc EXCEPT ![r] = "decide"]
        /\ UNCHANGED <<todo, name, hot, durable, sweep, page, history, bounds>>

Entry(r) == [asOf |-> AsOf[r], arrived |-> Arrived[r], id |-> IdOf[r], from |-> r]

Put(hash, a, entry) == [x \in DOMAIN hash \cup {a} |-> IF x = a THEN entry ELSE hash[x]]

\* Mutated form of IncomingWins: what arrives later wins.
LaterArrivalWins(new, old) == new.arrived >= old.arrived

IncomingWins(new, old) ==
    IF new.asOf # old.asOf THEN new.asOf > old.asOf
    ELSE IF new.arrived # old.arrived THEN new.arrived > old.arrived
    ELSE new.id > old.id

\* The script: entry, else what the table held, against the incoming one.
Decide(r) ==
    LET known == Over(bal, found[r])
        a == Account(r)
        wins == a \in DOMAIN known => IncomingWins(Entry(r), known[a])
    IN  /\ pc[r] = "decide"
        /\ bal' = IF wins THEN Put(bal, a, Entry(r)) ELSE bal
        /\ pc' = [pc EXCEPT ![r] = IF wins THEN "markBal" ELSE "done"]
        /\ found' = [found EXCEPT ![r] = Empty]
        /\ UNCHANGED <<todo, name, cur, eco, seeded, dirty, durable, sweep, page,
                       added, begun, bounds>>

MarkBalance(r) ==
    /\ pc[r] = "markBal"
    /\ dirty' = dirty \cup {<<"bal", name[r]>>}
    /\ pc' = [pc EXCEPT ![r] = "done"]
    /\ UNCHANGED <<todo, name, found, cur, eco, seeded, bal, durable, sweep, page,
                   history, bounds>>

InHook(r) == pc[r] \notin {"queued", "refused", "done", "failed"}

\* A command throws: the worker swallows it and acknowledges the job.
Throw(r) ==
    /\ InHook(r) /\ trouble < MaxTrouble
    /\ pc' = [pc EXCEPT ![r] = "failed"]
    /\ todo' = [todo EXCEPT ![r] = <<>>] /\ found' = [found EXCEPT ![r] = Empty]
    /\ trouble' = trouble + 1 /\ upset' = upset \cup {"record"}
    /\ UNCHANGED <<name, hot, durable, sweep, page, history>>

LoseRedis ==
    /\ trouble < MaxTrouble
    /\ cur' = {} /\ eco' = [b \in Buckets |-> Empty] /\ seeded' = {} /\ bal' = Empty
    /\ dirty' = {}
    /\ begun' = {} /\ trouble' = trouble + 1 /\ upset' = upset \cup {"redis"}
    /\ UNCHANGED <<handlers, durable, sweep, page, added>>

-----------------------------------------------------------------------------
(* The sweep: first the flow domain, then the balances, each drained once  *)
(* and flushed hash by hash.                                               *)

Keys(domain) == {k \in dirty : k[1] = domain}
Finished(w) == w.left = {} /\ w.key = None

Drained(domain) == [domain |-> domain, left |-> Keys(domain), key |-> None, rows |-> Empty]
Moved(w, left, key, rows) == [domain |-> w.domain, left |-> left, key |-> key, rows |-> rows]

\* A sweep ends with the last balance hash.
Left(w) == IF w.domain = "bal" /\ Finished(w) THEN NoSweep ELSE w

DrainFlows(s) ==
    /\ sweep[s].domain = "none" /\ dirty # {}
    /\ sweep' = [sweep EXCEPT ![s] = Drained("eco")]
    /\ dirty' = dirty \ Keys("eco")
    /\ upset' = IF \E t \in Sweeps : sweep[t].domain # "none" THEN upset \cup {"overlap"} ELSE upset
    /\ UNCHANGED <<handlers, cur, eco, seeded, bal, durable, page, history, trouble>>

DrainBalances(s) ==
    /\ sweep[s].domain = "eco" /\ Finished(sweep[s])
    /\ sweep' = [sweep EXCEPT ![s] = Left(Drained("bal"))]
    /\ dirty' = dirty \ Keys("bal")
    /\ UNCHANGED <<handlers, cur, eco, seeded, bal, durable, page, history, bounds>>

\* A script that writes a balance marks its hash as seeded, too.
IsSeeded(k) ==
    IF k[1] = "eco" THEN k[2] \in seeded ELSE \E a \in DOMAIN bal : a[2] = k[2]

\* A cell whose other measure is not there yet counts 0 of it.
FlowRows(hash) ==
    [c \in {f[1] : f \in DOMAIN hash} |->
        [m \in Measures |-> IF <<c, m>> \in DOMAIN hash THEN hash[<<c, m>>] ELSE 0]]

BalanceRows(c) ==
    [a \in {x \in DOMAIN bal : x[2] = c} |-> [asOf |-> bal[a].asOf, from |-> bal[a].from]]

Read(s, k) ==
    LET left == sweep[s].left \ {k} IN
    /\ sweep[s].key = None /\ k \in sweep[s].left
    /\ IF IsSeeded(k)
       THEN /\ sweep' = [sweep EXCEPT ![s] = Moved(sweep[s], left, k,
                           IF k[1] = "eco" THEN FlowRows(eco[k[2]]) ELSE BalanceRows(k[2]))]
            /\ UNCHANGED dirty
       ELSE /\ sweep' = [sweep EXCEPT ![s] = Left(Moved(sweep[s], left, None, Empty))]
            /\ dirty' = dirty \cup {k}
    /\ UNCHANGED <<handlers, cur, eco, seeded, bal, durable, page, history, bounds>>

Greatest(i, j) == IF i >= j THEN i ELSE j

\* Mutated form of MergedFlow: the snapshot is added to the row.
MergedByAdding(old, new) ==
    [c \in DOMAIN old \cup DOMAIN new |->
        IF c \notin DOMAIN old THEN new[c]
        ELSE IF c \notin DOMAIN new THEN old[c]
        ELSE [m \in Measures |-> old[c][m] + new[c][m]]]

MergedFlow(old, new) ==
    [c \in DOMAIN old \cup DOMAIN new |->
        IF c \notin DOMAIN old THEN new[c]
        ELSE IF c \notin DOMAIN new THEN old[c]
        ELSE [m \in Measures |-> Greatest(old[c][m], new[c][m])]]

\* Mutated form of MergedBalance: no guard on the upsert.
MergedUnguarded(old, new) == Over(new, old)

\* The upsert is refused when the row is of a later time.
MergedBalance(old, new) ==
    [a \in DOMAIN old \cup DOMAIN new |->
        IF a \in DOMAIN old /\ (a \in DOMAIN new => new[a].asOf < old[a].asOf)
        THEN old[a] ELSE new[a]]

Write(s) ==
    LET k == sweep[s].key
    IN  /\ k # None
        /\ IF k[1] = "eco"
           THEN flows' = [flows EXCEPT ![k[2]] = MergedFlow(@, sweep[s].rows)] /\ UNCHANGED balances
           ELSE balances' = MergedBalance(balances, sweep[s].rows) /\ UNCHANGED flows
        /\ sweep' = [sweep EXCEPT ![s] = Left(Moved(sweep[s], sweep[s].left, None, Empty))]
        /\ UNCHANGED <<handlers, hot, page, history, bounds>>

\* Postgres or Redis throws: what was drained is forgotten.
SweepThrows(s) ==
    /\ sweep[s].domain # "none" /\ trouble < MaxTrouble
    /\ sweep' = [sweep EXCEPT ![s] = NoSweep]
    /\ trouble' = trouble + 1 /\ upset' = upset \cup {"sweep"}
    /\ UNCHANGED <<handlers, hot, durable, page, history>>

-----------------------------------------------------------------------------
(* The day page: the rows, then for a day that has not ended the live hash  *)
(* over them.  Traffic and sweeps go on for a while after a day's end.     *)

Shown(rows, c) ==
    [f \in {c} \X {"source", "sink"} \X Measures |->
        LET cell == <<f[1], f[2]>> IN IF cell \in DOMAIN rows THEN rows[cell][f[3]] ELSE 0]

\* Mutated form of Merged: rows and live fields are added up.
Summed(figures, live) == [f \in DOMAIN figures |-> figures[f] + live[f]]

\* Per cell and measure the greater of the two.
Merged(figures, live) == [f \in DOMAIN figures |-> Greatest(figures[f], live[f])]

ReadRows(c, open) ==
    /\ page.pc = "idle"
    /\ page' = [pc |-> IF open THEN "live" ELSE "shown", currency |-> c,
                figures |-> Shown(flows["base"], c),
                before |-> IF open THEN Merged(Shown(flows["base"], c),
                                               Shown(FlowRows(eco["base"]), c))
                                   ELSE Shown(flows["base"], c)]
    /\ UNCHANGED <<handlers, hot, durable, sweep, history, bounds>>

MergeLive ==
    /\ page.pc = "live"
    /\ page' = [page EXCEPT !.pc = "shown",
                   !.figures = Merged(@, Shown(FlowRows(eco["base"]), page.currency))]
    /\ UNCHANGED <<handlers, hot, durable, sweep, history, bounds>>

-----------------------------------------------------------------------------
Handle(r) ==
    \/ Begin(r) \/ ReadFloor(r) \/ Seed(r) \/ Increment(r, "amount") \/ Increment(r, "count")
    \/ Mark(r) \/ Look(r) \/ PointRead(r) \/ Decide(r) \/ MarkBalance(r)

Flush(s) ==
    DrainFlows(s) \/ DrainBalances(s) \/ Write(s) \/ \E k \in sweep[s].left : Read(s, k)

Next ==
    \/ \E r \in Records : Handle(r) \/ Throw(r)
    \/ \E s \in Sweeps : Flush(s) \/ SweepThrows(s)
    \/ \E c \in Viewed : \E open \in BOOLEAN : ReadRows(c, open)
    \/ MergeLive \/ LoseRedis

Spec == Init /\ [][Next]_vars

-----------------------------------------------------------------------------
(* Properties                                                              *)

Settled ==
    /\ \A r \in Records : ~InHook(r)
    /\ dirty = {} /\ \A s \in Sweeps : sweep[s].domain = "none"

\* Every variable keeps its type, and no more than Cap currencies of the
\* game's own are admitted: what the gate's script (eco-currency-cap.gate.ts)
\* promises however the handlers race at the boundary.
TypeOK ==
    /\ cur \subseteq Currencies /\ Cardinality(cur \ {Other}) <= Cap
    /\ \A b \in Buckets : DOMAIN eco[b] \subseteq Cells \X Measures /\ DOMAIN flows[b] \subseteq Cells
    /\ \A b \in Buckets : \A f \in DOMAIN eco[b] : eco[b][f] \in Nat
    /\ seeded \subseteq Buckets /\ dirty \subseteq ({"eco"} \X Buckets) \cup ({"bal"} \X Currencies)
    /\ DOMAIN bal \subseteq Accounts /\ DOMAIN balances \subseteq Accounts
    /\ \A r \in Records : name[r] \in Currencies \cup {None}
    /\ page.pc \in {"idle", "live", "shown"} /\ trouble \in 0 .. MaxTrouble

Of(b, c, m) == {r \in Records : <<r, b, m>> \in added /\ CellOf(r) = c}
AddedUp(rs, m) == MapThenSumSet(LAMBDA r : Weight(r, m), rs)
Counted(b, c, m) == AddedUp(Of(b, c, m), m)
Row(b, c, m) == IF c \in DOMAIN flows[b] THEN flows[b][c][m] ELSE 0

\* Whatever is lost, thrown, seeded twice or flushed by overlapping sweeps,
\* no figure of the flow tables exceeds what was counted; and once the system
\* is at rest and nothing went wrong, each is exactly that, the event count
\* beside its amount, with the events of currencies beyond the cap under Other.
FlowsAddUp ==
    \A b \in Buckets, m \in Measures :
        /\ \A c \in DOMAIN flows[b] : flows[b][c][m] <= Counted(b, c, m)
        /\ Settled /\ upset \subseteq {"overlap"} => \A c \in Cells :
               Row(b, c, m) = AddedUp({r \in Records : pc[r] = "done" /\ CellOf(r) = c
                                                    /\ (b = "seg" => r \in Segmented)}, m)

\* At rest, the balance in Postgres is one that happened last among those
\* whose handler ran to its end since Redis was last lost, whatever order
\* they came in; with ties broken as documented when no sweeps overlapped
\* and Redis was never lost (balance-lww.service.ts, eco-keys.ts).
LatestBalanceWins ==
    Settled /\ upset \subseteq {"redis", "overlap"} =>
        \A r \in Depth \cap begun :
            pc[r] = "done" =>
                /\ Account(r) \in DOMAIN balances
                /\ balances[Account(r)].asOf >= AsOf[r]
                /\ upset = {} /\ balances[Account(r)].from \in Records =>
                       ~IncomingWins(Entry(r), Entry(balances[Account(r)].from))

\* An older balance never replaces a newer one: in Postgres, and in the hash
\* of the game's currency, whatever is lost, redelivered or flushed twice.
NewerBalanceStays ==
    [][/\ \A a \in DOMAIN balances : balances'[a].asOf >= balances[a].asOf
       /\ \A a \in DOMAIN bal \cap DOMAIN bal' : bal'[a].asOf >= bal[a].asOf]_vars

\* A page shows nothing that was not counted and, unless Redis was lost,
\* nothing less than the tables, and for an open day the live hash, held when
\* it was asked for (economy-read.service.ts, economyDay).
PageWithinFlows ==
    page.pc = "shown" =>
        \A f \in DOMAIN page.figures :
            /\ page.figures[f] <= Counted("base", <<f[1], f[2]>>, f[3])
            /\ "redis" \notin upset => page.figures[f] >= page.before[f]
=============================================================================
