------------------------- MODULE IngestKernel_proofs -------------------------
(***************************************************************************)
(* Theorems about IngestKernel, for every set of nodes, administrators,    *)
(* batches and records, every refresh interval and latency, any requests   *)
(* and any number of exceptions and crashes.  First the configuration's    *)
(* copies and what rests on them, then what becomes of every record.       *)
(***************************************************************************)
EXTENDS IngestKernel, FiniteSetTheorems, TLAPS

DenyKnob == "pii_prop_denylist"
CapKnob  == "event_name_cap_per_game"
Tasks    == Operators \cup Readers

-----------------------------------------------------------------------------
(* What is known of the copies of the configuration *)

\* No stamp is in the future, and no answer of the database is kept for longer
\* than MaxLatency.
Times ==
    /\ clock \in Nat
    /\ SetAt(DenyKnob) \in Nat /\ SetAt(DenyKnob) <= clock
    /\ DOMAIN cache = Nodes /\ DOMAIN fetch = Tasks
    /\ \A n \in Nodes : cache[n].at \in Int /\ cache[n].at <= clock
    /\ \A t \in Tasks : fetch[t] # Nothing =>
         /\ fetch[t].at \in Nat /\ fetch[t].at <= clock
         /\ clock - fetch[t].at <= MaxLatency

\* An answer that is younger than the last change of the list holds the list; so
\* does a copy whose answer must have been younger.
CopiesAgree ==
    /\ \A t \in Tasks : fetch[t] # Nothing /\ SetAt(DenyKnob) < fetch[t].at
         => Denylist(fetch[t].cfg) = Denylist(row)
    /\ \A n \in Nodes : cache[n].at >= 0 /\ SetAt(DenyKnob) + MaxLatency < cache[n].at
         => Denylist(cache[n].cfg) = Denylist(row)

\* Every cap that is stored, copied or asked for is one the audit accounts for.
CapsKnown ==
    /\ \E S : audit \in Seq(S)
    /\ CapsEver \subseteq Nat
    /\ \E m \in CapsEver : \A c \in CapsEver : m >= c
    /\ ValueAt(row, CapKnob).v \in CapsEver
    /\ \A t \in Tasks : fetch[t] # Nothing => NameCap(fetch[t].cfg) \in CapsEver
    /\ \A n \in Nodes : cache[n].at >= 0 => NameCap(cache[n].cfg) \in CapsEver

RequestsKnown ==
    /\ DOMAIN request = Operators
    /\ \A o \in Operators :
         /\ "phase" \in DOMAIN request[o]
         /\ request[o].phase \in {"prior", "commit"} /\ request[o].knob = CapKnob
              => request[o].value.v \in Nat

CopiesInv == Times /\ CopiesAgree /\ CapsKnown
ConfigInv == CopiesInv /\ RequestsKnown

-----------------------------------------------------------------------------
(* Helpers *)

LEMMA MaxProperty ==
    ASSUME NEW S, NEW m \in S, \A y \in S : m >= y
    PROVE  Max(S) \in S /\ \A y \in S : Max(S) >= y
BY DEF Max

LEMMA DenylistKeeps ==
    ASSUME NEW object, NEW k, NEW v, k # DenyKnob
    PROVE  Denylist(With(object, k, v)) = Denylist(object)
<1> DEFINE other == With(object, k, v)
<1>1. /\ DOMAIN other = DOMAIN object \cup {k}
      /\ \A x \in DOMAIN object : x # k => other[x] = object[x]
  BY DEF With
<1> HIDE DEF other
<1>2. DenyKnob \in DOMAIN other <=> DenyKnob \in DOMAIN object
  BY <1>1
<1>3. DenyKnob \in DOMAIN object => other[DenyKnob] = object[DenyKnob]
  BY <1>1
<1>4. Denylist(other) = Denylist(object)
  BY <1>2, <1>3 DEF Denylist, DenyKnob
<1> QED BY <1>4 DEF other

\* The cap is no secret: it is stored and audited as it was sent.
LEMMA CapIsPlain ==
    ASSUME NEW n, NEW v
    PROVE  Stored(n, CapKnob, v) = v /\ AuditValue(CapKnob, v) = v
BY DEF Stored, AuditValue, CapKnob, InfraSecretKnobs

LEMMA ValueKeeps ==
    ASSUME NEW object, NEW k, NEW v
    PROVE  ValueAt(With(object, k, v), CapKnob) = IF k = CapKnob THEN v ELSE ValueAt(object, CapKnob)
<1> DEFINE other == With(object, k, v)
<1>1. /\ DOMAIN other = DOMAIN object \cup {k}
      /\ other[k] = v
      /\ \A x \in DOMAIN object : x # k => other[x] = object[x]
  BY DEF With
<1> HIDE DEF other
<1>2. ValueAt(other, CapKnob) = IF k = CapKnob THEN v ELSE ValueAt(object, CapKnob)
  BY <1>1 DEF ValueAt
<1> QED BY <1>2 DEF other

-----------------------------------------------------------------------------
(* Steps of the configuration *)

LEMMA ConfigAtFirst == Init => ConfigInv
<1> SUFFICES ASSUME Init PROVE ConfigInv
  OBVIOUS
<1> USE DEF Init, ConfigInit, Nothing, Idle
<1>1. SetAt(DenyKnob) = 0
  BY DEF SetAt
<1>2. Times
  BY <1>1, ConfigAssumption DEF Times, Tasks
<1>3. CopiesAgree
  BY DEF CopiesAgree, Tasks
<1>4. CapsEver = {ValueAt(InitialRow, CapKnob).v}
  BY DEF CapsEver, CapKnob
<1>5. CapsKnown
  <2>1. ValueAt(InitialRow, CapKnob).v \in Nat
    BY CapAssumption DEF CapKnob
  <2>2. audit \in Seq({})
    OBVIOUS
  <2>3. \A t \in Tasks : fetch[t] = Nothing
    BY DEF Tasks
  <2>4. \A n \in Nodes : cache[n].at = -1
    OBVIOUS
  <2> QED BY <1>4, <2>1, <2>2, <2>3, <2>4 DEF CapsKnown
<1>6. RequestsKnown
  BY DEF RequestsKnown
<1> QED BY <1>2, <1>3, <1>5, <1>6 DEF ConfigInv, CopiesInv

\* A step that reads or forgets: the database answers with the row, a node
\* stores an answer as of now, copies and answers are dropped.
ReadsOrForgets ==
    /\ UNCHANGED <<clock, row, audit, changedAt>>
    /\ DOMAIN cache' = Nodes /\ DOMAIN fetch' = Tasks
    /\ \A t \in Tasks : fetch'[t] \in {Nothing, fetch[t], [cfg |-> row, at |-> clock]}
    /\ \A n \in Nodes :
        \/ cache'[n] \in {Nothing, cache[n]}
        \/ \E t \in Tasks : fetch[t] # Nothing /\ cache'[n] = [cfg |-> fetch[t].cfg, at |-> clock]

LEMMA ReadingKeeps ==
    ASSUME CopiesInv, ReadsOrForgets
    PROVE  CopiesInv'
<1> USE DEF CopiesInv
<1>1. SetAt(DenyKnob)' = SetAt(DenyKnob)
  BY DEF ReadsOrForgets, SetAt
<1>2. Nothing.at = -1
  BY DEF Nothing
<1>3. Times'
  BY <1>1, <1>2, ConfigAssumption DEF ReadsOrForgets, Times
<1>4. CopiesAgree'
  BY <1>1, <1>2, ConfigAssumption DEF ReadsOrForgets, Times, CopiesAgree
<1>5. CapsEver' = CapsEver
  BY DEF ReadsOrForgets, CapsEver
<1>6. NameCap(row) = ValueAt(row, CapKnob).v
  BY DEF NameCap, CapKnob
<1>7. CapsKnown'
  <2>1. ASSUME NEW t \in Tasks, fetch'[t] # Nothing PROVE NameCap(fetch'[t].cfg) \in CapsEver
    BY <2>1, <1>6 DEF ReadsOrForgets, CapsKnown
  <2>2. ASSUME NEW n \in Nodes, cache'[n].at >= 0 PROVE NameCap(cache'[n].cfg) \in CapsEver
    BY <2>2, <1>2 DEF ReadsOrForgets, CapsKnown
  <2>3. ValueAt(row', CapKnob).v \in CapsEver /\ audit' = audit
    BY DEF ReadsOrForgets, CapsKnown
  <2> QED BY <1>5, <2>1, <2>2, <2>3 DEF CapsKnown
<1> QED BY <1>3, <1>4, <1>7

\* The copies of the configuration do not depend on the requests.
LEMMA QueryReads ==
    ASSUME CopiesInv, NEW t \in Tasks, Query(t), UNCHANGED <<clock, row, audit, cache, changedAt>>
    PROVE  CopiesInv'
<1>1. ReadsOrForgets
  BY DEF CopiesInv, Times, Query, ReadsOrForgets
<1> QED BY <1>1, ReadingKeeps

LEMMA FillReads ==
    ASSUME CopiesInv, NEW t \in Tasks, NEW cfg, Fill(t, cfg), UNCHANGED <<clock, row, audit, changedAt>>
    PROVE  CopiesInv'
<1>1. ReadsOrForgets
  BY DEF CopiesInv, Times, Fill, ReadsOrForgets
<1> QED BY <1>1, ReadingKeeps

LEMMA TickKeeps ==
    ASSUME ConfigInv, Tick
    PROVE  ConfigInv'
<1>1. SetAt(DenyKnob)' = SetAt(DenyKnob) /\ CapsEver' = CapsEver
  BY DEF Tick, SetAt, CapsEver
<1>2. Times'
  BY <1>1, ConfigAssumption DEF Tick, ConfigInv, CopiesInv, Times
<1>3. CopiesAgree'
  BY <1>1 DEF Tick, ConfigInv, CopiesInv, CopiesAgree
<1>4. CapsKnown'
  BY <1>1 DEF Tick, ConfigInv, CopiesInv, CapsKnown
<1>5. RequestsKnown'
  BY DEF Tick, ConfigInv, RequestsKnown
<1> QED BY <1>2, <1>3, <1>4, <1>5 DEF ConfigInv, CopiesInv

\* A value asked for is kept as it was sent until it is committed.
LEMMA PriorKeeps ==
    ASSUME RequestsKnown, NEW o \in Operators, NEW cfg, request[o].phase = "prior", HasPrior(o, cfg)
    PROVE  RequestsKnown'
BY DEF RequestsKnown, HasPrior

\* The commit is the one step that changes the row: a new list makes every copy
\* a candidate to disagree and none that is too young to; a new cap is audited.
LEMMA CommitKeeps ==
    ASSUME ConfigInv, NEW o \in Operators, Commit(o)
    PROVE  ConfigInv'
<1> DEFINE q == request[o]
           v == Stored(NodeOf[o], q.knob, q.value)
<1> USE DEF ConfigInv, CopiesInv
<1>1. /\ row' = With(row, q.knob, v)
      /\ audit' = Append(audit, [knob |-> q.knob, old |-> q.old, new |-> AuditValue(q.knob, q.value)])
      /\ changedAt' = With(changedAt, q.knob, clock)
      /\ request' = [request EXCEPT ![o].phase = "invalidate"]
      /\ UNCHANGED <<clock, key, cache, fetch>>
      /\ request[o].phase = "commit"
  BY DEF Commit
<1>2. SetAt(DenyKnob)' = IF q.knob = DenyKnob THEN clock ELSE SetAt(DenyKnob)
  <2> DEFINE after == With(changedAt, q.knob, clock)
  <2>1. /\ DOMAIN after = DOMAIN changedAt \cup {q.knob}
        /\ after[q.knob] = clock
        /\ \A x \in DOMAIN changedAt : x # q.knob => after[x] = changedAt[x]
    BY DEF With
  <2>2. changedAt' = after
    BY <1>1
  <2> HIDE DEF after
  <2> QED BY <2>1, <2>2 DEF SetAt
<1>3. Times'
  BY <1>1, <1>2 DEF Times
<1>4. CopiesAgree'
  <2>1. CASE q.knob = DenyKnob
    BY <1>1, <1>2, <2>1, ConfigAssumption DEF CopiesAgree, Times
  <2>2. CASE q.knob # DenyKnob
    <3>1. Denylist(row') = Denylist(row)
      BY <1>1, <2>2, DenylistKeeps
    <3> QED BY <1>1, <1>2, <2>2, <3>1 DEF CopiesAgree
  <2> QED BY <2>1, <2>2
<1>5. CapsKnown'
  <2> DEFINE entry == [knob |-> q.knob, old |-> q.old, new |-> AuditValue(q.knob, q.value)]
  <2>1. PICK S : audit \in Seq(S)
    BY DEF CapsKnown
  <2>2. audit' = Append(audit, entry)
    BY <1>1
  <2> DEFINE T == S \cup {entry}
  <2>3. audit \in Seq(T) /\ entry \in T
    BY <2>1
  <2>4. entry.knob = q.knob /\ entry.new = AuditValue(q.knob, q.value)
    OBVIOUS
  <2> HIDE DEF entry, T
  <2>5. /\ audit' \in Seq(T) /\ Len(audit) \in Nat
        /\ DOMAIN audit = 1 .. Len(audit) /\ DOMAIN audit' = 1 .. Len(audit) + 1
        /\ audit'[Len(audit) + 1] = entry
        /\ \A i \in 1 .. Len(audit) : audit'[i] = audit[i]
    BY <2>2, <2>3
  <2>6. \E new : audit' \in Seq(new)
    BY <2>5
  <2>7. CapsEver' = IF q.knob = CapKnob THEN CapsEver \cup {q.value.v} ELSE CapsEver
    <3>1. q.knob = CapKnob => AuditValue(q.knob, q.value) = q.value
      BY CapIsPlain
    <3> DEFINE Caps(a) == {a[i].new.v : i \in {j \in DOMAIN a : a[j].knob = CapKnob}}
    <3>2. Caps(audit') = IF q.knob = CapKnob THEN Caps(audit) \cup {q.value.v} ELSE Caps(audit)
      BY <2>4, <2>5, <3>1
    <3>3. /\ CapsEver = {ValueAt(InitialRow, CapKnob).v} \cup Caps(audit)
          /\ CapsEver' = {ValueAt(InitialRow, CapKnob).v} \cup Caps(audit')
      BY DEF CapsEver, CapKnob
    <3> QED BY <3>2, <3>3
  <2>8. q.knob = CapKnob => q.value.v \in Nat
    BY <1>1 DEF RequestsKnown
  <2>9. CapsEver' \subseteq Nat /\ CapsEver \subseteq CapsEver'
    BY <2>7, <2>8 DEF CapsKnown
  <2>10. \E m \in CapsEver' : \A c \in CapsEver' : m >= c
    <3>1. PICK m \in CapsEver : \A c \in CapsEver : m >= c
      BY DEF CapsKnown
    <3>2. m \in Nat
      BY <3>1 DEF CapsKnown
    <3>3. CASE q.knob # CapKnob
      BY <2>7, <3>1, <3>3
    <3>4. CASE q.knob = CapKnob /\ m >= q.value.v
      BY <2>7, <3>1, <3>4
    <3>5. CASE q.knob = CapKnob /\ q.value.v > m
      BY <2>7, <2>8, <3>1, <3>2, <3>5 DEF CapsKnown
    <3> QED BY <2>8, <3>2, <3>3, <3>4, <3>5
  <2>11. ValueAt(row', CapKnob).v \in CapsEver'
    <3>1. ValueAt(row', CapKnob) = IF q.knob = CapKnob THEN v ELSE ValueAt(row, CapKnob)
      BY <1>1, ValueKeeps
    <3>2. q.knob = CapKnob => v = q.value
      BY CapIsPlain
    <3> QED BY <2>7, <3>1, <3>2 DEF CapsKnown
  <2> QED BY <1>1, <2>6, <2>9, <2>10, <2>11 DEF CapsKnown
<1>6. RequestsKnown'
  BY <1>1 DEF RequestsKnown
<1> QED BY <1>3, <1>4, <1>5, <1>6

LEMMA SetKeeps ==
    ASSUME ConfigInv, NEW o \in Operators, Set(o)
    PROVE  ConfigInv'
<1> USE DEF ConfigInv
<1>1. o \in Tasks
  BY DEF Tasks
<1>2. CASE Submit(o)
  <2>1. ReadsOrForgets
    BY <1>2 DEF Submit, CopiesInv, Times, ReadsOrForgets
  <2>2. PICK p \in Requests :
          /\ Settable(p[1], p[2])
          /\ request' = [request EXCEPT ![o] = [phase |-> "prior", knob |-> p[1], value |-> p[2]]]
    BY <1>2 DEF Submit
  <2>3. p[1] = CapKnob => p[2].v \in Nat
    BY <2>2, CapAssumption DEF CapKnob
  <2>4. RequestsKnown'
    BY <2>2, <2>3 DEF RequestsKnown
  <2> QED BY <2>1, <2>4, ReadingKeeps
<1>3. CASE PriorHit(o)
  <2>1. ReadsOrForgets
    BY <1>3 DEF PriorHit, CopiesInv, Times, ReadsOrForgets
  <2>2. request[o].phase = "prior" /\ \E cfg : HasPrior(o, cfg)
    BY <1>3 DEF PriorHit
  <2> QED BY <2>1, <2>2, ReadingKeeps, PriorKeeps
<1>4. CASE PriorQuery(o)
  <2>1. CopiesInv'
    BY <1>1, <1>4, QueryReads DEF PriorQuery
  <2>2. RequestsKnown'
    BY <1>4 DEF PriorQuery, RequestsKnown
  <2> QED BY <2>1, <2>2
<1>5. CASE PriorFill(o)
  <2>1. PICK cfg : Fill(o, cfg) /\ HasPrior(o, cfg)
    BY <1>5 DEF PriorFill
  <2>2. request[o].phase = "prior" /\ UNCHANGED <<clock, row, audit, changedAt>>
    BY <1>5 DEF PriorFill
  <2>3. CopiesInv'
    BY <1>1, <2>1, <2>2, FillReads
  <2> QED BY <2>1, <2>2, <2>3, PriorKeeps
<1>6. CASE Commit(o)
  BY <1>6, CommitKeeps
<1>7. CASE Invalidate(o)
  <2>1. ReadsOrForgets
    BY <1>7 DEF Invalidate, CopiesInv, Times, ReadsOrForgets
  <2>2. RequestsKnown'
    BY <1>7 DEF Invalidate, RequestsKnown, Idle
  <2> QED BY <2>1, <2>2, ReadingKeeps
<1> QED BY <1>2, <1>3, <1>4, <1>5, <1>6, <1>7 DEF Set

-----------------------------------------------------------------------------
(* The deny list *)

\* Once the list has stood for a refresh interval and an answer's latency, every
\* copy a handler may use holds it: a fresh one, and an answer under way.
LEMMA FreshHoldsTheList ==
    ASSUME ConfigInv, NEW n \in Nodes, Fresh(n)
    PROVE  LongListed \subseteq Denylist(cache[n].cfg)
<1> USE DEF ConfigInv, CopiesInv
<1>1. SUFFICES ASSUME clock - SetAt(DenyKnob) >= Ttl + MaxLatency
               PROVE  Denylist(cache[n].cfg) = Denylist(row)
  BY DEF LongListed, DenyKnob
<1>2. SetAt(DenyKnob) + MaxLatency < cache[n].at
  BY <1>1, ConfigAssumption DEF Fresh, Times
<1> QED BY <1>2 DEF Fresh, CopiesAgree

LEMMA AnswerHoldsTheList ==
    ASSUME ConfigInv, NEW t \in Tasks, fetch[t] # Nothing
    PROVE  LongListed \subseteq Denylist(fetch[t].cfg)
<1> USE DEF ConfigInv, CopiesInv
<1>1. SUFFICES ASSUME clock - SetAt(DenyKnob) >= Ttl + MaxLatency
               PROVE  Denylist(fetch[t].cfg) = Denylist(row)
  BY DEF LongListed, DenyKnob
<1>2. SetAt(DenyKnob) < fetch[t].at
  BY <1>1, ConfigAssumption DEF Times
<1> QED BY <1>2 DEF CopiesAgree

LEMMA ScrubbedIsClean ==
    ASSUME NEW fields, NEW cfg, NEW listed, listed \subseteq Denylist(cfg)
    PROVE  Scrub(fields, cfg) \cap listed = {}
BY DEF Scrub

-----------------------------------------------------------------------------
(* The records *)

Shape ==
    /\ DOMAIN pc = Records /\ DOMAIN props = Records /\ DOMAIN cap = Records
    /\ DOMAIN bucket = Records /\ DOMAIN banned = Records

\* Between the scrubber and its frame a record holds no key long listed when it
\* was scrubbed; neither does a frame.
ScrubbedClean ==
    /\ \A r \in Records : pc[r] \in {"gate", "append", "quarantine"} => props[r] \cap banned[r] = {}
    /\ PolicyTakesEffect

\* The gate is asked with a cap that was in force, and a name is admitted below
\* it; a record counts under an admitted name.
NamesBounded ==
    /\ \A r \in Records : pc[r] = "gate" => cap[r] \in CapsEver
    /\ IsFiniteSet(names)
    /\ \E c \in CapsEver : Cardinality(names \ {Other}) <= c
    /\ \A r \in Records : bucket[r] \in names \cup {Other}

IInv == ConfigInv /\ Shape /\ ScrubbedClean /\ NamesBounded

LEMMA KernelAtFirst == Init => IInv
<1> SUFFICES ASSUME Init PROVE IInv
  OBVIOUS
<1>1. ConfigInv
  BY ConfigAtFirst
<1>2. Shape
  BY DEF Init, Shape
<1>3. ScrubbedClean
  BY DEF Init, ScrubbedClean, PolicyTakesEffect
<1>4. NamesBounded
  <2>1. names = {} /\ \A r \in Records : pc[r] = "queued" /\ bucket[r] = Other
    BY DEF Init
  <2>2. names \ {Other} = {} /\ Cardinality({}) = 0 /\ IsFiniteSet({})
    BY <2>1, FS_EmptySet
  <2>3. \E c \in CapsEver : c >= 0
    BY <1>1 DEF ConfigInv, CopiesInv, CapsKnown
  <2> QED BY <2>1, <2>2, <2>3 DEF NamesBounded
<1> QED BY <1>1, <1>2, <1>3, <1>4 DEF IInv

\* Caps that were in force stay in the audit.
LEMMA CapsOnlyGrow ==
    ASSUME ConfigInv, NEW o \in Operators, Set(o)
    PROVE  CapsEver \subseteq CapsEver'
<1>1. CASE audit' = audit
  BY <1>1 DEF CapsEver
<1>2. CASE Commit(o)
  <2>1. PICK S : audit \in Seq(S)
    BY DEF ConfigInv, CopiesInv, CapsKnown
  <2>2. PICK x : audit' = Append(audit, x)
    BY <1>2 DEF Commit
  <2>3. /\ DOMAIN audit = 1 .. Len(audit) /\ DOMAIN audit' = 1 .. Len(audit) + 1 /\ Len(audit) \in Nat
        /\ \A i \in 1 .. Len(audit) : audit'[i] = audit[i]
    <3>1. audit \in Seq(S \cup {x}) /\ x \in S \cup {x}
      BY <2>1
    <3> QED BY <2>2, <3>1
  <2> QED BY <2>3 DEF CapsEver
<1> QED BY <1>1, <1>2 DEF Set, Submit, PriorHit, PriorQuery, PriorFill, Invalidate

\* A step that leaves the names, the buckets and the caps of the waiting alone.
LEMMA NamesKeep ==
    ASSUME NamesBounded, CapsEver \subseteq CapsEver', UNCHANGED <<names, bucket>>,
           \A r \in Records : pc'[r] = "gate" =>
                cap'[r] \in CapsEver \/ (pc[r] = "gate" /\ cap'[r] = cap[r])
    PROVE  NamesBounded'
BY DEF NamesBounded

LEMMA AdministerKeeps ==
    ASSUME IInv, NEW o \in Operators, Set(o), UNCHANGED kernelVars
    PROVE  IInv'
<1> USE DEF IInv
<1>1. ConfigInv'
  BY SetKeeps
<1>2. Shape' /\ ScrubbedClean'
  BY DEF kernelVars, Shape, ScrubbedClean, PolicyTakesEffect
<1>3. NamesBounded'
  BY CapsOnlyGrow DEF kernelVars, NamesBounded
<1> QED BY <1>1, <1>2, <1>3

LEMMA PassKeeps ==
    ASSUME IInv, Tick, UNCHANGED kernelVars
    PROVE  IInv'
<1> USE DEF IInv
<1>1. ConfigInv'
  BY TickKeeps
<1>2. Shape' /\ ScrubbedClean'
  BY DEF kernelVars, Shape, ScrubbedClean, PolicyTakesEffect
<1>3. CapsEver' = CapsEver
  BY DEF Tick, CapsEver
<1>4. NamesBounded'
  BY <1>3 DEF kernelVars, NamesBounded
<1> QED BY <1>1, <1>2, <1>4

LEMMA ConfigStays ==
    ASSUME ConfigInv, UNCHANGED configVars
    PROVE  ConfigInv' /\ CapsEver' = CapsEver
<1> USE DEF ConfigInv, configVars
<1>1. ReadsOrForgets
  BY DEF CopiesInv, Times, ReadsOrForgets
<1>2. RequestsKnown'
  BY DEF RequestsKnown
<1>3. CapsEver' = CapsEver
  BY DEF CapsEver
<1> QED BY <1>1, <1>2, <1>3, ReadingKeeps

LEMMA BeginKeeps ==
    ASSUME IInv, NEW j \in Jobs, Begin(j)
    PROVE  IInv'
<1> USE DEF IInv
<1>1. PICK n \in {NodeOf[r] : r \in Batch(j)} :
    LET cfg   == cache[n].cfg
        named == {r \in Batch(j) : envelope[r].name # ""}
        ready == IF Fresh(n) THEN named ELSE {}
        kept  == [r \in Records |-> Scrub(envelope[r].fields, cfg)]
    IN
    /\ pc' = [r \in Records |-> IF r \in ready THEN Routed(r, kept[r])
                                ELSE IF r \in named THEN "scrub"
                                ELSE IF r \in Batch(j) THEN "tally" ELSE pc[r]]
    /\ props' = [r \in Records |-> IF r \in ready THEN kept[r] ELSE props[r]]
    /\ cap' = [r \in Records |-> IF pc'[r] = "gate" /\ r \in ready THEN NameCap(cfg) ELSE cap[r]]
    /\ banned' = [r \in Records |-> IF r \in ready THEN LongListed ELSE banned[r]]
  BY DEF Begin
<1> DEFINE cfg   == cache[n].cfg
           named == {r \in Batch(j) : envelope[r].name # ""}
           ready == IF Fresh(n) THEN named ELSE {}
<1>2. n \in Nodes
  BY ConfigAssumption DEF Batch, Records
<1>3. UNCHANGED <<configVars, file, names, bucket>>
  BY DEF Begin
<1>4. ConfigInv' /\ CapsEver' = CapsEver
  BY <1>3, ConfigStays
<1>5. /\ DOMAIN pc' = Records /\ DOMAIN props' = Records /\ DOMAIN cap' = Records /\ DOMAIN banned' = Records
      /\ \A r \in Records :
          /\ r \in ready =>
               /\ Fresh(n)
               /\ props'[r] = Scrub(envelope[r].fields, cfg) /\ banned'[r] = LongListed
               /\ pc'[r] = "gate" => cap'[r] = NameCap(cfg)
          /\ r \notin ready =>
               /\ props'[r] = props[r] /\ banned'[r] = banned[r] /\ cap'[r] = cap[r]
               /\ pc'[r] \in {"scrub", "tally", pc[r]}
  BY <1>1
<1> HIDE DEF ready
<1>6. Shape'
  BY <1>3, <1>5 DEF Shape
<1>7. ASSUME NEW r \in Records, pc'[r] \in {"gate", "append", "quarantine"}
      PROVE  props'[r] \cap banned'[r] = {}
  <2>1. CASE r \in ready
    <3>1. LongListed \subseteq Denylist(cfg)
      BY <1>2, <1>5, <2>1, FreshHoldsTheList
    <3> QED BY <1>5, <2>1, <3>1, ScrubbedIsClean
  <2>2. CASE r \notin ready
    BY <1>5, <1>7, <2>2 DEF ScrubbedClean
  <2> QED BY <2>1, <2>2
<1>8. ScrubbedClean'
  BY <1>3, <1>7 DEF ScrubbedClean, PolicyTakesEffect
<1>9. NamesBounded'
  <2>1. Fresh(n) => NameCap(cfg) \in CapsEver
    BY <1>2 DEF Fresh, ConfigInv, CopiesInv, CapsKnown
  <2>2. \A r \in Records : pc'[r] = "gate" =>
           cap'[r] \in CapsEver \/ (pc[r] = "gate" /\ cap'[r] = cap[r])
    BY <1>5, <2>1
  <2> QED BY <1>3, <1>4, <2>2, NamesKeep
<1> QED BY <1>4, <1>6, <1>8, <1>9

LEMMA ScrubFillKeeps ==
    ASSUME IInv, NEW r \in Records, ScrubFill(r)
    PROVE  IInv'
<1> USE DEF IInv
<1> DEFINE cfg  == fetch[r].cfg
           kept == Scrub(envelope[r].fields, cfg)
<1>1. /\ Fill(r, cfg)
      /\ props' = [props EXCEPT ![r] = kept]
      /\ pc' = [pc EXCEPT ![r] = Routed(r, kept)]
      /\ cap' = [cap EXCEPT ![r] = IF Routed(r, kept) = "gate" THEN NameCap(cfg) ELSE @]
      /\ banned' = [banned EXCEPT ![r] = LongListed]
      /\ UNCHANGED <<clock, row, audit, key, request, changedAt, file, names, bucket>>
  BY DEF ScrubFill
<1>2. r \in Tasks /\ fetch[r] # Nothing
  BY <1>1 DEF Tasks, Records, Fill
<1>3. ConfigInv'
  <2>1. CopiesInv'
    BY <1>1, <1>2, FillReads DEF ConfigInv
  <2>2. RequestsKnown'
    BY <1>1 DEF ConfigInv, RequestsKnown
  <2> QED BY <2>1, <2>2 DEF ConfigInv
<1>4. CapsEver' = CapsEver
  BY <1>1 DEF CapsEver
<1>5. Shape'
  BY <1>1 DEF Shape
<1>6. kept \cap LongListed = {}
  BY <1>2, AnswerHoldsTheList, ScrubbedIsClean
<1> HIDE DEF kept
<1>7. ScrubbedClean'
  BY <1>1, <1>6 DEF Shape, ScrubbedClean, PolicyTakesEffect
<1>8. NameCap(cfg) \in CapsEver
  BY <1>2 DEF ConfigInv, CopiesInv, CapsKnown
<1>9. \A q \in Records : pc'[q] = "gate" =>
         cap'[q] \in CapsEver \/ (pc[q] = "gate" /\ cap'[q] = cap[q])
  BY <1>1, <1>8 DEF Shape
<1>10. NamesBounded'
  BY <1>1, <1>4, <1>9, NamesKeep
<1> QED BY <1>3, <1>5, <1>7, <1>10

\* The gate: below the cap there is room for one more name.
LEMMA GateKeeps ==
    ASSUME IInv, NEW r \in Records, Gate(r)
    PROVE  IInv'
<1> USE DEF IInv
<1> DEFINE name == envelope[r].name
<1>1. /\ pc[r] = "gate"
      /\ IF Admitted(name, cap[r])
           THEN names' = names \cup {name} /\ bucket' = [bucket EXCEPT ![r] = name]
           ELSE bucket' = [bucket EXCEPT ![r] = Other] /\ UNCHANGED names
      /\ pc' = [pc EXCEPT ![r] = "append"]
      /\ cap' = [cap EXCEPT ![r] = 0]
      /\ UNCHANGED <<configVars, props, file, banned>>
  BY DEF Gate
<1>2. ConfigInv' /\ CapsEver' = CapsEver
  BY <1>1, ConfigStays
<1>3. Shape'
  BY <1>1 DEF Shape
<1>4. ScrubbedClean'
  BY <1>1 DEF Shape, ScrubbedClean, PolicyTakesEffect
<1>5. \A q \in Records : pc'[q] = "gate" => cap'[q] \in CapsEver
  BY <1>1 DEF Shape, NamesBounded
<1>6. \A q \in Records : bucket'[q] \in names' \cup {Other}
  BY <1>1 DEF Shape, NamesBounded
<1>7. IsFiniteSet(names') /\ \E c \in CapsEver : Cardinality(names' \ {Other}) <= c
  <2>1. CASE names' \ {Other} = names \ {Other} /\ (names' = names \/ names' = names \cup {name})
    <3>1. IsFiniteSet(names) /\ \E c \in CapsEver : Cardinality(names \ {Other}) <= c
      BY DEF NamesBounded
    <3>2. IsFiniteSet(names \cup {name})
      BY <3>1, FS_AddElement
    <3> QED BY <2>1, <3>1, <3>2
  <2>2. CASE Cardinality(names) < cap[r] /\ names' = names \cup {name}
    <3>1. IsFiniteSet(names) /\ cap[r] \in CapsEver /\ cap[r] \in Nat
      BY <1>1 DEF NamesBounded, ConfigInv, CopiesInv, CapsKnown
    <3>2. /\ IsFiniteSet(names')
          /\ Cardinality(names') = Cardinality(names) \/ Cardinality(names') = Cardinality(names) + 1
      BY <2>2, <3>1, FS_AddElement
    <3>3. /\ Cardinality(names' \ {Other}) \in Nat /\ Cardinality(names) \in Nat
          /\ Cardinality(names' \ {Other}) <= Cardinality(names')
      <4>1. names' \ {Other} \subseteq names'
        OBVIOUS
      <4>2. IsFiniteSet(names' \ {Other}) /\ Cardinality(names' \ {Other}) <= Cardinality(names')
        BY <3>2, <4>1, FS_Subset
      <4> QED BY <3>1, <4>2, FS_CardinalityType
    <3> QED BY <2>2, <3>1, <3>2, <3>3
  <2>3. \/ names' \ {Other} = names \ {Other} /\ (names' = names \/ names' = names \cup {name})
        \/ Cardinality(names) < cap[r] /\ names' = names \cup {name}
    BY <1>1 DEF Admitted
  <2> QED BY <2>1, <2>2, <2>3
<1>8. NamesBounded'
  BY <1>2, <1>5, <1>6, <1>7 DEF NamesBounded
<1> QED BY <1>2, <1>3, <1>4, <1>8

\* A frame holds the fields the scrubber left.
LEMMA AppendKeeps ==
    ASSUME IInv, NEW r \in Records, RawAppend(r)
    PROVE  IInv'
<1> USE DEF IInv
<1>1. /\ pc[r] \in {"append", "quarantine"}
      /\ file' = file \cup {<<r, props[r], banned[r]>>}
      /\ \E next \in {"tally", "dedup"} : pc' = [pc EXCEPT ![r] = next]
      /\ UNCHANGED <<configVars, props, cap, bucket, names, banned>>
  BY DEF RawAppend
<1>2. ConfigInv' /\ CapsEver' = CapsEver
  BY <1>1, ConfigStays
<1>3. Shape'
  BY <1>1 DEF Shape
<1>4. ScrubbedClean'
  BY <1>1 DEF Shape, ScrubbedClean, PolicyTakesEffect
<1>5. NamesBounded'
  BY <1>1, <1>2 DEF Shape, NamesBounded
<1> QED BY <1>2, <1>3, <1>4, <1>5

\* Every other step of a handler or a batch moves records past these stages.
MovesOn ==
    /\ DOMAIN pc' = Records
    /\ \A r \in Records : pc'[r] \in {pc[r], "queued", "durable", "base", "story", "done"}
    /\ UNCHANGED <<props, cap, bucket, names, banned, file>>

LEMMA MovingOnKeeps ==
    ASSUME IInv, MovesOn, ConfigInv', CapsEver' = CapsEver
    PROVE  IInv'
<1> USE DEF IInv
<1>1. Shape'
  BY DEF MovesOn, Shape
<1>2. ScrubbedClean'
  BY DEF MovesOn, ScrubbedClean, PolicyTakesEffect
<1>3. NamesBounded'
  BY DEF MovesOn, NamesBounded
<1> QED BY <1>1, <1>2, <1>3

LEMMA LaterStepsMoveOn ==
    ASSUME Shape, NEW r \in Records, Dedup(r) \/ Durable(r) \/ Base(r) \/ Story(r) \/ Tally(r)
    PROVE  MovesOn /\ UNCHANGED configVars
<1>1. CASE Dedup(r)
  BY <1>1 DEF Dedup, MovesOn, Shape
<1>2. CASE Durable(r)
  BY <1>2 DEF Durable, MovesOn, Shape
<1>3. CASE Base(r)
  BY <1>3 DEF Base, MovesOn, Shape
<1>4. CASE Story(r)
  BY <1>4 DEF Story, MovesOn, Shape
<1>5. CASE Tally(r)
  BY <1>5 DEF Tally, MovesOn, Shape
<1> QED BY <1>1, <1>2, <1>3, <1>4, <1>5

LEMMA HandleKeeps ==
    ASSUME IInv, NEW r \in Records, Handle(r)
    PROVE  IInv'
<1>1. CASE ScrubQuery(r)
  <2>1. /\ Query(r) /\ r \in Tasks
        /\ UNCHANGED <<clock, row, audit, key, cache, request, changedAt, kernelVars>>
    BY <1>1 DEF ScrubQuery, Records, Tasks
  <2>2. CopiesInv'
    BY <2>1, QueryReads DEF IInv, ConfigInv
  <2>3. RequestsKnown' /\ CapsEver' = CapsEver
    BY <2>1 DEF IInv, ConfigInv, RequestsKnown, CapsEver
  <2>4. MovesOn
    BY <2>1 DEF MovesOn, kernelVars, IInv, Shape
  <2> QED BY <2>2, <2>3, <2>4, MovingOnKeeps DEF ConfigInv
<1>2. CASE ScrubFill(r)
  BY <1>2, ScrubFillKeeps
<1>3. CASE Gate(r)
  BY <1>3, GateKeeps
<1>4. CASE RawAppend(r)
  BY <1>4, AppendKeeps
<1>5. CASE Dedup(r) \/ Durable(r) \/ Base(r) \/ Story(r) \/ Tally(r)
  <2>1. MovesOn /\ UNCHANGED configVars
    BY <1>5, LaterStepsMoveOn DEF IInv
  <2>2. ConfigInv' /\ CapsEver' = CapsEver
    BY <2>1, ConfigStays DEF IInv
  <2> QED BY <2>1, <2>2, MovingOnKeeps
<1> QED BY <1>1, <1>2, <1>3, <1>4, <1>5 DEF Handle

\* An exception, a crash and an ack drop answers and copies, and move on.
LEMMA EndsKeep ==
    ASSUME IInv,
           \/ \E r \in Records : Throw(r)
           \/ \E n \in Nodes : Crash(n)
           \/ \E j \in Jobs : Ack(j)
    PROVE  IInv'
<1> USE DEF IInv
<1>1. CASE \E r \in Records : Throw(r)
  <2>1. PICK r \in Records : Throw(r)
    BY <1>1
  <2>2. ReadsOrForgets
    BY <2>1 DEF Throw, ReadsOrForgets, ConfigInv, CopiesInv, Times
  <2>3. RequestsKnown' /\ CapsEver' = CapsEver /\ MovesOn
    BY <2>1 DEF Throw, ConfigInv, RequestsKnown, CapsEver, MovesOn, Shape
  <2> QED BY <2>2, <2>3, ReadingKeeps, MovingOnKeeps DEF ConfigInv
<1>2. CASE \E n \in Nodes : Crash(n)
  <2>1. PICK n \in Nodes : Crash(n)
    BY <1>2
  <2>2. RestartNode(n, key[n])
    BY <2>1 DEF Crash
  <2>3. ReadsOrForgets
    BY <2>2 DEF RestartNode, ReadsOrForgets, ConfigInv, CopiesInv, Times
  <2>4. RequestsKnown' /\ CapsEver' = CapsEver
    BY <2>2 DEF RestartNode, ConfigInv, RequestsKnown, CapsEver, Idle
  <2>5. MovesOn
    BY <2>1 DEF Crash, MovesOn, Shape
  <2> QED BY <2>3, <2>4, <2>5, ReadingKeeps, MovingOnKeeps DEF ConfigInv
<1>3. CASE \E j \in Jobs : Ack(j)
  <2>1. UNCHANGED configVars /\ MovesOn
    BY <1>3 DEF Ack, MovesOn, Shape
  <2> QED BY <2>1, ConfigStays, MovingOnKeeps
<1> QED BY <1>1, <1>2, <1>3

LEMMA KernelNext == IInv /\ [Next]_vars => IInv'
<1> SUFFICES ASSUME IInv, [Next]_vars PROVE IInv'
  OBVIOUS
<1>1. CASE Administer
  <2>1. PICK o \in Operators : Set(o)
    BY <1>1 DEF Administer
  <2> QED BY <1>1, <2>1, AdministerKeeps DEF Administer
<1>2. CASE Pass
  BY <1>2, PassKeeps DEF Pass
<1>3. CASE \E j \in Jobs : Begin(j)
  BY <1>3, BeginKeeps
<1>4. CASE \/ \E r \in Records : Throw(r)
           \/ \E n \in Nodes : Crash(n)
           \/ \E j \in Jobs : Ack(j)
  BY <1>4, EndsKeep
<1>5. CASE \E r \in Records : Handle(r)
  BY <1>5, HandleKeeps
<1>6. CASE UNCHANGED vars
  <2>1. ConfigInv' /\ CapsEver' = CapsEver
    BY <1>6, ConfigStays DEF IInv, vars
  <2>2. MovesOn
    BY <1>6 DEF IInv, vars, kernelVars, MovesOn, Shape
  <2> QED BY <2>1, <2>2, MovingOnKeeps
<1> QED BY <1>1, <1>2, <1>3, <1>4, <1>5, <1>6 DEF Next

LEMMA NamesFollow == IInv => NamesWithinCap
<1> SUFFICES ASSUME IInv PROVE NamesWithinCap
  OBVIOUS
<1> DEFINE apart == {bucket[r] : r \in {q \in Records : Counted(q) /\ ResolvedKind(q) = "generic"}} \ {Other}
<1>1. PICK c \in CapsEver : Cardinality(names \ {Other}) <= c
  BY DEF IInv, NamesBounded
<1>2. CapsEver \subseteq Nat /\ \E m \in CapsEver : \A y \in CapsEver : m >= y
  BY DEF IInv, ConfigInv, CopiesInv, CapsKnown
<1>3. Max(CapsEver) \in CapsEver /\ Max(CapsEver) >= c
  BY <1>1, <1>2, MaxProperty
<1>4. apart \subseteq names \ {Other}
  BY DEF IInv, NamesBounded
<1>5. IsFiniteSet(names \ {Other})
  <2>1. names \ {Other} \subseteq names /\ IsFiniteSet(names)
    BY DEF IInv, NamesBounded
  <2> QED BY <2>1, FS_Subset
<1> HIDE DEF apart
<1>6. IsFiniteSet(apart) /\ Cardinality(apart) <= Cardinality(names \ {Other})
  BY <1>4, <1>5, FS_Subset
<1>7. Cardinality(apart) \in Nat /\ Cardinality(names \ {Other}) \in Nat
  BY <1>5, <1>6, FS_CardinalityType
<1>8. c \in Nat /\ Max(CapsEver) \in Nat
  BY <1>1, <1>2, <1>3
<1>9. Cardinality(apart) <= Max(CapsEver)
  BY <1>1, <1>3, <1>6, <1>7, <1>8
<1> QED BY <1>9 DEF apart, NamesWithinCap

-----------------------------------------------------------------------------
\* Ttl + MaxLatency after the deny list was changed, no frame of a record that is
\* scrubbed from then on holds a listed key: whichever node's copy its handler
\* reads, however reads, refreshes, crashes and the administrators' requests
\* interleave (StepScrub and ConfigService.getConfig).
THEOREM DenyListTakesEffect == Spec => []PolicyTakesEffect
<1>1. IInv => PolicyTakesEffect
  BY DEF IInv, ScrubbedClean
<1> QED BY <1>1, KernelAtFirst, KernelNext, PTL DEF Spec

\* No more names of generic events are counted apart than the largest cap that
\* was ever in force, with handlers that ask the gate with caps of different age
\* (EventNameGate.admit, one script of Redis).
THEOREM NamesStayWithinCap == Spec => []NamesWithinCap
BY KernelAtFirst, KernelNext, NamesFollow, PTL DEF Spec

-----------------------------------------------------------------------------
(* What becomes of every record *)

\* The fields that decide what a purchase claims and books.
KeyFields == {"transaction_id", "source=server", "eligible"}

\* A value of the deny list's knob.
ListedIn(v) == {v.v[i] : i \in DOMAIN v.v}

\* Neither the row at first nor a request an administrator may send lists them.
KeysKept ==
    /\ Denylist(InitialRow) \cap KeyFields = {}
    /\ \A q \in Requests : q[1] = DenyKnob /\ Settable(q[1], q[2]) => ListedIn(q[2]) \cap KeyFields = {}

\* A purchase with a transaction is a verified production sale that a server
\* sent with its own credential; no event comes from a server and a client.
KindOf(e) == IF e.name \in ReservedNames THEN e.name ELSE e.kind

SalesOnly ==
    \A d \in Deliveries, r \in Records :
        /\ KindOf(d[r]) = "purchase" /\ "transaction_id" \in d[r].fields
             => {"source=server", "eligible"} \subseteq d[r].fields
        /\ ~ {"source=server", "source=client"} \subseteq d[r].fields

\* So no copy of the list, and no value on its way into one, names them.
Keeps(cfg) == Denylist(cfg) \cap KeyFields = {}

ListsKnown ==
    /\ Keeps(row)
    /\ \A t \in Tasks : Keeps(fetch[t].cfg)
    /\ \A n \in Nodes : Keeps(cache[n].cfg)
    /\ \A o \in Operators :
        request[o].phase \in {"prior", "commit"} /\ request[o].knob = DenyKnob
            => ListedIn(request[o].value) \cap KeyFields = {}

\* What a record claims and books, told from the event it carries.
Money(r) == ResolvedKind(r) = "purchase" /\ "transaction_id" \in envelope[r].fields

KeyOf(r) == IF Money(r) THEN <<"transaction", Redacted9(envelope[r].transaction)>>
                        ELSE <<"event", envelope[r].event>>

Scrubbed(r) == props[r] \cap KeyFields = envelope[r].fields \cap KeyFields

\* A record that was counted with all its kind asks for; one that did claim its
\* key, and was counted, is still at it, or was lost.
Full(r) ==
    /\ base[r] = 1
    /\ ResolvedKind(r) \in TypedKinds => story[r] = 1
    /\ ResolvedKind(r) = "session" \/ Money(r) => r \in durable

Holds(r) ==
    /\ Scrubbed(r)
    /\ Money(r) => r \in durable
    /\ Full(r) \/ pc[r] \in {"durable", "base", "story"} \/ r \in lost

Passed == {"gate", "append", "dedup", "durable", "base", "story"}

\* What a record's step says of it.  A batch that waits has no handlers, and an
\* acked one no more.
InBatch(r) ==
    /\ job[JobOf[r]] = "queued" => pc[r] = "queued"
    /\ job[JobOf[r]] = "acked" => pc[r] = "done"

ScrubbedFirst(r) ==
    /\ pc[r] \in Passed \cup {"quarantine"} \/ base[r] > 0 \/ r \in duplicate \/ r \in durable => Scrubbed(r)
    /\ pc[r] \in Passed /\ ResolvedKind(r) = "purchase" => Money(r) \/ "source=server" \notin envelope[r].fields

InStep(r) ==
    /\ base[r] \in Nat /\ story[r] \in Nat /\ tally[r] \in Nat
    /\ base[r] = 0 => story[r] = 0
    /\ pc[r] \in {"durable", "base"} => base[r] = 0
    /\ pc[r] = "durable" => ResolvedKind(r) \in DurableKinds /\ r \notin durable
    /\ pc[r] = "story" => ResolvedKind(r) \in TypedKinds /\ base[r] = 1 /\ story[r] = 0
    /\ pc[r] \in {"base", "story"} /\ ResolvedKind(r) = "session" => r \in durable

\* Whatever was counted, written or let through holds a claim, its own or another's.
ClaimMade(r) ==
    base[r] > 0 \/ r \in durable \/ pc[r] \in {"base", "story"} \/ (pc[r] = "durable" /\ ~Money(r))
        => KeyOf(r) \in claims

\* A record that is counted and not at it any more, and one whose handler is done.
CountEnded(r) ==
    base[r] > 0 /\ pc[r] # "story" => Full(r) \/ r \in lost \/ (Money(r) /\ r \notin durable)

Ended(r) ==
    pc[r] = "done" =>
        \/ Full(r) \/ r \in lost
        \/ tally[r] > 0 /\ base[r] = 0
        \/ Scrubbed(r) /\ KeyOf(r) \in claims /\ (r \in duplicate \/ (Money(r) /\ r \notin durable))

RecordInv(r) == InBatch(r) /\ ScrubbedFirst(r) /\ InStep(r) /\ ClaimMade(r) /\ CountEnded(r) /\ Ended(r)

ClaimsHeld == \A k \in claims : \E q \in Records : KeyOf(q) = k /\ Holds(q)

KernelShape ==
    /\ envelope \in Deliveries
    /\ DOMAIN job = Jobs
    /\ DOMAIN base = Records /\ DOMAIN story = Records /\ DOMAIN tally = Records

AccountInv == KernelShape /\ ListsKnown /\ ClaimsHeld /\ \A r \in Records : RecordInv(r)

LEMMA AccountAtFirst ==
    ASSUME KeysKept, Init
    PROVE  AccountInv
<1> USE DEF Init, ConfigInit
<1>1. KernelShape
  BY DEF KernelShape
<1>2. ListsKnown
  <2>1. Keeps(Nothing.cfg)
    BY DEF Keeps, Nothing, Denylist
  <2>2. \A o \in Operators : request[o].phase = "idle"
    BY DEF Idle
  <2> QED BY <2>1, <2>2 DEF KeysKept, ListsKnown, Keeps, Tasks
<1>3. ClaimsHeld
  BY DEF ClaimsHeld
<1>4. ASSUME NEW r \in Records PROVE RecordInv(r)
  <2>1. JobOf[r] \in Jobs
    BY KernelAssumption
  <2> QED BY <2>1 DEF RecordInv, InBatch, ScrubbedFirst, InStep, ClaimMade, CountEnded, Ended, Passed
<1> QED BY <1>1, <1>2, <1>3, <1>4 DEF AccountInv

-----------------------------------------------------------------------------
(* The deny list never names a field that decides *)

LEMMA CopiesOfLists ==
    ASSUME ListsKnown, ReadsOrForgets
    PROVE  /\ Keeps(row')
           /\ \A t \in Tasks : Keeps(fetch'[t].cfg)
           /\ \A n \in Nodes : Keeps(cache'[n].cfg)
<1>1. Keeps(Nothing.cfg)
  BY DEF Keeps, Nothing, Denylist
<1>2. Keeps(row')
  BY DEF ReadsOrForgets, ListsKnown
<1>3. ASSUME NEW t \in Tasks PROVE Keeps(fetch'[t].cfg)
  <2>1. fetch'[t] \in {Nothing, fetch[t], [cfg |-> row, at |-> clock]}
    BY DEF ReadsOrForgets
  <2>2. fetch'[t].cfg \in {Nothing.cfg, fetch[t].cfg, row}
    BY <2>1
  <2> QED BY <1>1, <2>2 DEF ListsKnown
<1>4. ASSUME NEW n \in Nodes PROVE Keeps(cache'[n].cfg)
  <2>1. \/ cache'[n] \in {Nothing, cache[n]}
        \/ \E t \in Tasks : cache'[n].cfg = fetch[t].cfg
    BY DEF ReadsOrForgets
  <2> QED BY <1>1, <2>1 DEF ListsKnown
<1> QED BY <1>2, <1>3, <1>4

LEMMA ReadingKeepsLists ==
    ASSUME ListsKnown, ReadsOrForgets, UNCHANGED request
    PROVE  ListsKnown'
<1> QED BY CopiesOfLists DEF ListsKnown

LEMMA SetKeepsLists ==
    ASSUME KeysKept, ConfigInv, ListsKnown, NEW o \in Operators, Set(o)
    PROVE  ListsKnown'
<1> DEFINE q == request[o]
<1> USE DEF ConfigInv
<1>1. o \in Tasks /\ DOMAIN request = Operators
  BY DEF Tasks, RequestsKnown
<1>2. CASE Submit(o)
  <2>1. ReadsOrForgets
    BY <1>2 DEF Submit, CopiesInv, Times, ReadsOrForgets
  <2>2. PICK p \in Requests :
          /\ Settable(p[1], p[2])
          /\ request' = [request EXCEPT ![o] = [phase |-> "prior", knob |-> p[1], value |-> p[2]]]
    BY <1>2 DEF Submit
  <2>3. p[1] = DenyKnob => ListedIn(p[2]) \cap KeyFields = {}
    BY <2>2 DEF KeysKept
  <2>4. \A x \in Operators : request'[x].phase \in {"prior", "commit"} /\ request'[x].knob = DenyKnob
            => ListedIn(request'[x].value) \cap KeyFields = {}
    BY <1>1, <2>2, <2>3 DEF ListsKnown
  <2> QED BY <2>1, <2>4, CopiesOfLists DEF ListsKnown
<1>3. CASE PriorHit(o) \/ PriorFill(o)
  <2>1. PICK cfg : request[o].phase = "prior" /\ HasPrior(o, cfg)
    BY <1>3 DEF PriorHit, PriorFill
  <2>2. ReadsOrForgets
    <3>1. CASE PriorHit(o)
      BY <3>1 DEF PriorHit, CopiesInv, Times, ReadsOrForgets
    <3>2. CASE PriorFill(o)
      BY <1>1, <3>2 DEF PriorFill, Fill, CopiesInv, Times, ReadsOrForgets
    <3> QED BY <1>3, <3>1, <3>2
  <2>3. \A x \in Operators : request'[x].phase \in {"prior", "commit"}
            => /\ request[x].phase \in {"prior", "commit"}
               /\ request'[x].knob = request[x].knob /\ request'[x].value = request[x].value
    BY <1>1, <2>1 DEF HasPrior
  <2> QED BY <2>2, <2>3, CopiesOfLists DEF ListsKnown
<1>4. CASE PriorQuery(o)
  <2>1. ReadsOrForgets /\ UNCHANGED request
    BY <1>1, <1>4 DEF PriorQuery, Query, CopiesInv, Times, ReadsOrForgets
  <2> QED BY <2>1, ReadingKeepsLists
<1>5. CASE Commit(o)
  <2>1. /\ q.phase = "commit" /\ row' = With(row, q.knob, Stored(NodeOf[o], q.knob, q.value))
        /\ request' = [request EXCEPT ![o].phase = "invalidate"]
        /\ UNCHANGED <<cache, fetch>>
    BY <1>5 DEF Commit
  <2>2. Keeps(row')
    <3>1. CASE q.knob = DenyKnob
      <4>1. Stored(NodeOf[o], q.knob, q.value) = q.value
        BY <3>1 DEF Stored, DenyKnob, InfraSecretKnobs
      <4> DEFINE other == With(row, DenyKnob, q.value)
      <4>2. DenyKnob \in DOMAIN other /\ other[DenyKnob] = q.value
        BY DEF With
      <4>3. row' = other
        BY <2>1, <3>1, <4>1
      <4> HIDE DEF other
      <4>4. Denylist(row') = ListedIn(q.value)
        BY <4>2, <4>3 DEF Denylist, ListedIn, DenyKnob
      <4> QED BY <2>1, <3>1, <4>4 DEF ListsKnown, Keeps
    <3>2. CASE q.knob # DenyKnob
      BY <2>1, <3>2, DenylistKeeps DEF ListsKnown, Keeps
    <3> QED BY <3>1, <3>2
  <2>3. \A x \in Operators : request'[x].phase \in {"prior", "commit"} => request'[x] = request[x]
    BY <1>1, <2>1
  <2> QED BY <2>1, <2>2, <2>3 DEF ListsKnown
<1>6. CASE Invalidate(o)
  <2>1. ReadsOrForgets
    BY <1>6 DEF Invalidate, CopiesInv, Times, ReadsOrForgets
  <2>2. \A x \in Operators : request'[x].phase \in {"prior", "commit"} => request'[x] = request[x]
    BY <1>1, <1>6 DEF Invalidate, Idle
  <2> QED BY <2>1, <2>2, CopiesOfLists DEF ListsKnown
<1> QED BY <1>2, <1>3, <1>4, <1>5, <1>6 DEF Set

\* So the scrubber leaves the fields that decide.
LEMMA ScrubLeavesKeys ==
    ASSUME NEW fields, NEW cfg, Keeps(cfg)
    PROVE  Scrub(fields, cfg) \cap KeyFields = fields \cap KeyFields
BY DEF Scrub, Keeps, KeyFields, DefaultDenylist

-----------------------------------------------------------------------------
(* Steps of the records *)

LEMMA EventStays ==
    ASSUME NEW r \in Records, envelope' = envelope
    PROVE  /\ ResolvedKind(r)' = ResolvedKind(r)
           /\ Money(r)' = Money(r)
           /\ KeyOf(r)' = KeyOf(r)
<1>1. ResolvedKind(r)' = ResolvedKind(r)
  BY DEF ResolvedKind
<1>2. Money(r)' = Money(r)
  BY <1>1 DEF Money
<1> QED BY <1>1, <1>2 DEF KeyOf

\* What the steps read of a scrubbed record is what its event said.
LEMMA ReadsTheEvent ==
    ASSUME SalesOnly, envelope \in Deliveries, NEW r \in Records, Scrubbed(r)
    PROVE  /\ Transacted(r) <=> Money(r)
           /\ ClaimKey(r) = KeyOf(r)
           /\ Books(r) <=> Money(r)
           /\ "source=server" \in props[r] <=> "source=server" \in envelope[r].fields
<1>1. \A f \in KeyFields : f \in props[r] <=> f \in envelope[r].fields
  BY DEF Scrubbed
<1>2. /\ "transaction_id" \in props[r] <=> "transaction_id" \in envelope[r].fields
      /\ "source=server" \in props[r] <=> "source=server" \in envelope[r].fields
      /\ "eligible" \in props[r] <=> "eligible" \in envelope[r].fields
  BY <1>1 DEF KeyFields
<1>3. Transacted(r) <=> Money(r)
  BY <1>2 DEF Transacted, Money
<1>4. ClaimKey(r) = KeyOf(r)
  BY <1>3 DEF ClaimKey, KeyOf
<1>5. Money(r) => "source=server" \in envelope[r].fields /\ "eligible" \in envelope[r].fields
  BY DEF SalesOnly, Money, ResolvedKind, KindOf
<1>6. Books(r) <=> Money(r)
  <2>1. Books(r) <=> Transacted(r) /\ "source=server" \in props[r] /\ "eligible" \in props[r]
    BY DEF Books
  <2> QED BY <1>2, <1>3, <1>5, <2>1
<1> QED BY <1>2, <1>3, <1>4, <1>6

\* A purchase the validator lets through has a transaction or no server.
LEMMA RouteOfPurchase ==
    ASSUME SalesOnly, envelope \in Deliveries, NEW r \in Records, NEW kept,
           kept \cap KeyFields = envelope[r].fields \cap KeyFields, kept \subseteq envelope[r].fields
    PROVE  /\ Routed(r, kept) \in {"quarantine", "append", "gate"}
           /\ Routed(r, kept) # "quarantine" /\ ResolvedKind(r) = "purchase"
                => Money(r) \/ "source=server" \notin envelope[r].fields
<1>1. Routed(r, kept) \in {"quarantine", "append", "gate"}
  BY DEF Routed
<1>2. ASSUME Routed(r, kept) # "quarantine", ResolvedKind(r) = "purchase"
      PROVE  Money(r) \/ "source=server" \notin envelope[r].fields
  <2>1. TypedValid(r, kept)
    BY <1>2 DEF Routed, UnknownKind, TypedKinds
  <2>2. PurchaseValid(kept)
    BY <1>2, <2>1 DEF TypedValid
  <2>3. "transaction_id" \in RevenueShape
    BY DEF RevenueShape
  <2>4. "transaction_id" \in kept \/ "source=client" \in kept
    BY <2>2, <2>3 DEF PurchaseValid
  <2>5. ~ ("source=server" \in envelope[r].fields /\ "source=client" \in envelope[r].fields)
    BY DEF SalesOnly
  <2> QED BY <1>2, <2>4, <2>5 DEF Money
<1> QED BY <1>1, <1>2

\* A step that leaves a record alone, and one that moves only r.
Untouched(q) ==
    /\ job'[JobOf[q]] = job[JobOf[q]] /\ pc'[q] = pc[q] /\ props'[q] = props[q]
    /\ base'[q] = base[q] /\ story'[q] = story[q] /\ tally'[q] = tally[q]
    /\ (q \in durable') = (q \in durable)
    /\ (q \in duplicate') = (q \in duplicate)
    /\ (q \in lost') = (q \in lost)

MovesOnly(r) ==
    /\ UNCHANGED <<envelope, job>> /\ claims \subseteq claims'
    /\ DOMAIN base' = Records /\ DOMAIN story' = Records /\ DOMAIN tally' = Records
    /\ \A q \in Records \ {r} : Untouched(q)

LEMMA UntouchedKeeps ==
    ASSUME NEW q \in Records, envelope' = envelope, claims \subseteq claims', Untouched(q)
    PROVE  /\ RecordInv(q) => RecordInv(q)'
           /\ Holds(q) => Holds(q)'
<1>1. /\ ResolvedKind(q)' = ResolvedKind(q)
      /\ Money(q)' = Money(q)
      /\ KeyOf(q)' = KeyOf(q)
  BY EventStays
<1>2. Scrubbed(q)' = Scrubbed(q)
  BY DEF Untouched, Scrubbed
<1>3. Full(q)' = Full(q)
  BY <1>1 DEF Untouched, Full
<1>4. Holds(q) => Holds(q)'
  BY <1>1, <1>2, <1>3 DEF Untouched, Holds
<1>5. InBatch(q) => InBatch(q)'
  BY DEF Untouched, InBatch
<1>6. ScrubbedFirst(q) => ScrubbedFirst(q)'
  BY <1>1, <1>2 DEF Untouched, ScrubbedFirst
<1>7. InStep(q) => InStep(q)'
  BY <1>1 DEF Untouched, InStep
<1>8. ClaimMade(q) => ClaimMade(q)'
  BY <1>1 DEF Untouched, ClaimMade
<1>9. CountEnded(q) => CountEnded(q)'
  BY <1>1, <1>3 DEF Untouched, CountEnded
<1>10. Ended(q) => Ended(q)'
  BY <1>1, <1>2, <1>3 DEF Untouched, Ended
<1> QED BY <1>4, <1>5, <1>6, <1>7, <1>8, <1>9, <1>10 DEF RecordInv

\* A key that is claimed stays held, a new one is held by the record that moved.
LEMMA ClaimsStayHeld ==
    ASSUME ClaimsHeld, envelope' = envelope, \A q \in Records : Holds(q) => Holds(q)',
           \A k \in claims' \ claims : \E q \in Records : KeyOf(q) = k /\ Holds(q)'
    PROVE  ClaimsHeld'
<1> SUFFICES ASSUME NEW k \in claims' PROVE \E q \in Records : KeyOf(q)' = k /\ Holds(q)'
  BY DEF ClaimsHeld
<1>1. PICK q \in Records : KeyOf(q) = k /\ Holds(q)'
  BY DEF ClaimsHeld
<1> QED BY <1>1, EventStays

LEMMA OneMoves ==
    ASSUME AccountInv, NEW r \in Records, MovesOnly(r), ListsKnown', RecordInv(r)', Holds(r) => Holds(r)',
           \A k \in claims' \ claims : KeyOf(r) = k /\ Holds(r)'
    PROVE  AccountInv'
<1> USE DEF AccountInv
<1>1. KernelShape'
  BY DEF KernelShape, MovesOnly
<1>2. \A q \in Records : Holds(q) => Holds(q)'
  BY UntouchedKeeps DEF MovesOnly
<1>3. ClaimsHeld'
  BY <1>2, ClaimsStayHeld DEF MovesOnly
<1>4. \A q \in Records : RecordInv(q)'
  BY UntouchedKeeps DEF MovesOnly
<1> QED BY <1>1, <1>3, <1>4

\* What a step of r makes of r, and the key it claims.
Accounts(r) ==
    /\ MovesOnly(r) /\ UNCHANGED configVars
    /\ RecordInv(r)' /\ (Holds(r) => Holds(r)')
    /\ \A k \in claims' \ claims : KeyOf(r) = k /\ Holds(r)'

\* What every such step has in common.
LEMMA EventOfStep ==
    ASSUME NEW r \in Records, envelope' = envelope, props'[r] = props[r]
    PROVE  /\ (ResolvedKind(r) = ResolvedKind(r)') /\ (KeyOf(r) = KeyOf(r)')
           /\ Money(r)' <=> Money(r)
           /\ Scrubbed(r)' <=> Scrubbed(r)
BY EventStays DEF Scrubbed

LEMMA BusyBatch ==
    ASSUME NEW r \in Records, InBatch(r), pc[r] \notin {"queued", "done"}, job' = job
    PROVE  InBatch(r)'
BY DEF InBatch

\* The gate and the file: nothing is counted yet.
LEMMA ForwardAccounts ==
    ASSUME AccountInv, Shape, NEW r \in Records, Gate(r) \/ RawAppend(r)
    PROVE  Accounts(r)
<1>1. /\ pc[r] \in {"gate", "append", "quarantine"}
      /\ DOMAIN pc' = Records
      /\ pc'[r] \in {"append", "dedup", "tally"}
      /\ pc[r] = "quarantine" => pc'[r] = "tally"
      /\ \A q \in Records \ {r} : pc'[q] = pc[q]
      /\ UNCHANGED <<envelope, job, props, claims, durable, base, story, tally, duplicate, lost>>
      /\ UNCHANGED configVars
  <2>1. CASE Gate(r)
    BY <2>1 DEF Gate, Shape
  <2>2. CASE RawAppend(r)
    BY <2>2 DEF RawAppend, Shape
  <2> QED BY <2>1, <2>2
<1>2. MovesOnly(r)
  BY <1>1 DEF MovesOnly, Untouched, AccountInv, KernelShape
<1>3. RecordInv(r)
  BY DEF AccountInv
<1>4. /\ (ResolvedKind(r) = ResolvedKind(r)') /\ (KeyOf(r) = KeyOf(r)')
      /\ Money(r)' <=> Money(r)
      /\ Scrubbed(r)' <=> Scrubbed(r)
  BY <1>1, EventOfStep
<1>5. Full(r)' <=> Full(r)
  BY <1>1, <1>4 DEF Full
<1>6. InBatch(r)'
  BY <1>1, <1>3, BusyBatch DEF RecordInv
<1>7. ScrubbedFirst(r)'
  BY <1>1, <1>3, <1>4 DEF RecordInv, ScrubbedFirst, Passed
<1>8. InStep(r)' /\ ClaimMade(r)'
  BY <1>1, <1>3, <1>4 DEF RecordInv, InStep, ClaimMade
<1>9. CountEnded(r)' /\ Ended(r)'
  BY <1>1, <1>3, <1>4, <1>5 DEF RecordInv, CountEnded, Ended
<1>10. Holds(r) => Holds(r)'
  BY <1>1, <1>4, <1>5 DEF Holds
<1> QED BY <1>1, <1>2, <1>6, <1>7, <1>8, <1>9, <1>10 DEF Accounts, RecordInv

\* A record whose key is not claimed was never counted nor written, and claims
\* it; a purchase with a transaction leaves the claim to its insert.
LEMMA DedupAccounts ==
    ASSUME AccountInv, SalesOnly, Shape, NEW r \in Records, Dedup(r)
    PROVE  Accounts(r)
<1>1. /\ pc[r] = "dedup"
      /\ DOMAIN pc' = Records
      /\ \A q \in Records \ {r} : pc'[q] = pc[q]
      /\ UNCHANGED <<envelope, job, props, durable, base, story, tally, lost>>
      /\ UNCHANGED configVars
  BY DEF Dedup, Shape
<1>2. RecordInv(r)
  BY DEF AccountInv
<1>3. /\ Scrubbed(r)
      /\ Transacted(r) <=> Money(r)
      /\ ClaimKey(r) = KeyOf(r)
  <2>1. Scrubbed(r)
    BY <1>1, <1>2 DEF RecordInv, ScrubbedFirst, Passed
  <2> QED BY <2>1, ReadsTheEvent DEF AccountInv, KernelShape
<1>4. /\ claims' = IF Money(r) THEN claims ELSE claims \cup {KeyOf(r)}
      /\ KeyOf(r) \in claims => pc'[r] = "done" /\ duplicate' = duplicate \cup {r}
      /\ KeyOf(r) \notin claims =>
            /\ pc'[r] = IF ResolvedKind(r) \in DurableKinds THEN "durable" ELSE "base"
            /\ duplicate' = duplicate
  BY <1>3 DEF Dedup, Shape
<1>5. MovesOnly(r)
  BY <1>1, <1>4 DEF MovesOnly, Untouched, AccountInv, KernelShape
<1>6. /\ (ResolvedKind(r) = ResolvedKind(r)') /\ (KeyOf(r) = KeyOf(r)')
      /\ Money(r)' <=> Money(r)
      /\ Scrubbed(r)' <=> Scrubbed(r)
  BY <1>1, EventOfStep
<1>7. Full(r)' <=> Full(r)
  BY <1>1, <1>6 DEF Full
<1>8. pc'[r] \in {"done", "durable", "base"}
  BY <1>4
<1>9. KeyOf(r) \notin claims => base[r] = 0 /\ r \notin durable
  BY <1>2 DEF RecordInv, ClaimMade, InStep
<1>10. Money(r) => ResolvedKind(r) = "purchase"
  BY DEF Money
<1>11. InBatch(r)'
  BY <1>1, <1>2, BusyBatch DEF RecordInv
<1>12. ScrubbedFirst(r)'
  BY <1>1, <1>2, <1>3, <1>6 DEF RecordInv, ScrubbedFirst, Passed
<1>13. InStep(r)'
  BY <1>1, <1>2, <1>4, <1>6, <1>9 DEF RecordInv, InStep, DurableKinds
<1>14. ClaimMade(r)'
  BY <1>1, <1>2, <1>4, <1>6, <1>10 DEF RecordInv, ClaimMade, DurableKinds
<1>15. CountEnded(r)'
  BY <1>1, <1>2, <1>6, <1>7 DEF RecordInv, CountEnded
<1>16. Ended(r)'
  BY <1>3, <1>4, <1>6, <1>8 DEF Ended, DurableKinds
<1>17. Holds(r) => Holds(r)'
  BY <1>1, <1>6, <1>7 DEF Holds
<1>18. ASSUME NEW k \in claims' \ claims PROVE KeyOf(r) = k /\ Holds(r)'
  BY <1>1, <1>3, <1>4, <1>6, <1>8, <1>18 DEF Holds
<1> QED BY <1>1, <1>5, <1>11, <1>12, <1>13, <1>14, <1>15, <1>16, <1>17, <1>18 DEF Accounts, RecordInv

\* A durable hook writes, and then claims, what is not claimed.
LEMMA DurableAccounts ==
    ASSUME AccountInv, SalesOnly, Shape, NEW r \in Records, Durable(r)
    PROVE  Accounts(r)
<1>1. /\ pc[r] = "durable"
      /\ DOMAIN pc' = Records /\ pc'[r] = "base"
      /\ \A q \in Records \ {r} : pc'[q] = pc[q]
      /\ UNCHANGED <<envelope, job, props, base, story, tally, duplicate, lost>>
      /\ UNCHANGED configVars
  BY DEF Durable, Shape
<1>2. RecordInv(r)
  BY DEF AccountInv
<1>3. /\ Scrubbed(r)
      /\ ClaimKey(r) = KeyOf(r)
      /\ Books(r) <=> Money(r)
  <2>1. Scrubbed(r)
    BY <1>1, <1>2 DEF RecordInv, ScrubbedFirst, Passed
  <2> QED BY <2>1, ReadsTheEvent DEF AccountInv, KernelShape
<1> DEFINE writes == ResolvedKind(r) = "session" \/ (Money(r) /\ KeyOf(r) \notin claims)
<1>4. /\ durable' = IF writes THEN durable \cup {r} ELSE durable
      /\ claims' = IF writes THEN claims \cup {KeyOf(r)} ELSE claims
  BY <1>3 DEF Durable
<1>5. MovesOnly(r)
  BY <1>1, <1>4 DEF MovesOnly, Untouched, AccountInv, KernelShape
<1>6. /\ (ResolvedKind(r) = ResolvedKind(r)') /\ (KeyOf(r) = KeyOf(r)')
      /\ Money(r)' <=> Money(r)
      /\ Scrubbed(r)' <=> Scrubbed(r)
  BY <1>1, EventOfStep
<1>7. base[r] = 0 /\ r \notin durable
  BY <1>1, <1>2 DEF RecordInv, InStep
<1>8. KeyOf(r) \in claims'
  <2>1. CASE Money(r)
    BY <1>4, <2>1
  <2>2. CASE ~ Money(r)
    BY <1>1, <1>2, <1>4, <2>2 DEF RecordInv, ClaimMade
  <2> QED BY <2>1, <2>2
<1>9. InBatch(r)'
  BY <1>1, <1>2, BusyBatch DEF RecordInv
<1>10. ScrubbedFirst(r)'
  BY <1>1, <1>2, <1>3, <1>6 DEF RecordInv, ScrubbedFirst, Passed
<1>11. InStep(r)'
  BY <1>1, <1>2, <1>4, <1>6 DEF RecordInv, InStep
<1>12. ClaimMade(r)' /\ CountEnded(r)' /\ Ended(r)'
  BY <1>1, <1>6, <1>7, <1>8 DEF ClaimMade, CountEnded, Ended
<1>13. Holds(r) => Holds(r)'
  BY <1>1, <1>4, <1>6 DEF Holds
<1>14. ASSUME NEW k \in claims' \ claims PROVE KeyOf(r) = k /\ Holds(r)'
  BY <1>1, <1>3, <1>4, <1>6, <1>14 DEF Holds
<1> QED BY <1>1, <1>5, <1>9, <1>10, <1>11, <1>12, <1>13, <1>14 DEF Accounts, RecordInv

\* The base counts a record once: it was let through because nothing had.
LEMMA BaseAccounts ==
    ASSUME AccountInv, Shape, NEW r \in Records, Base(r)
    PROVE  Accounts(r)
<1>1. /\ pc[r] = "base"
      /\ DOMAIN pc' = Records /\ pc'[r] = IF ResolvedKind(r) \in TypedKinds THEN "story" ELSE "done"
      /\ \A q \in Records \ {r} : pc'[q] = pc[q]
      /\ DOMAIN base' = Records /\ base'[r] = base[r] + 1
      /\ \A q \in Records \ {r} : base'[q] = base[q]
      /\ UNCHANGED <<envelope, job, props, claims, durable, story, tally, duplicate, lost>>
      /\ UNCHANGED configVars
  BY DEF Base, Shape, AccountInv, KernelShape
<1>2. RecordInv(r)
  BY DEF AccountInv
<1>3. MovesOnly(r)
  BY <1>1 DEF MovesOnly, Untouched, AccountInv, KernelShape
<1>4. /\ (ResolvedKind(r) = ResolvedKind(r)') /\ (KeyOf(r) = KeyOf(r)')
      /\ Money(r)' <=> Money(r)
      /\ Scrubbed(r)' <=> Scrubbed(r)
  BY <1>1, EventOfStep
<1>5. /\ base[r] = 0 /\ base'[r] = 1 /\ story[r] = 0 /\ tally[r] \in Nat
      /\ KeyOf(r) \in claims
      /\ ResolvedKind(r) = "session" => r \in durable
  BY <1>1, <1>2 DEF RecordInv, InStep, ClaimMade
<1>6. pc'[r] = "done" => Full(r)'
  BY <1>1, <1>4, <1>5 DEF Full, Money, TypedKinds
<1>7. InBatch(r)'
  BY <1>1, <1>2, BusyBatch DEF RecordInv
<1>8. ScrubbedFirst(r)'
  BY <1>1, <1>2, <1>4 DEF RecordInv, ScrubbedFirst, Passed
<1>9. InStep(r)'
  BY <1>1, <1>4, <1>5 DEF InStep
<1>10. ClaimMade(r)'
  BY <1>1, <1>4, <1>5 DEF ClaimMade
<1>11. CountEnded(r)' /\ Ended(r)'
  BY <1>1, <1>6 DEF CountEnded, Ended
<1>12. Holds(r) => Holds(r)'
  BY <1>1, <1>4, <1>6 DEF Holds
<1> QED BY <1>1, <1>3, <1>7, <1>8, <1>9, <1>10, <1>11, <1>12 DEF Accounts, RecordInv

\* The story of a kind completes the count, except for a row of money that was
\* too late for its insert: another record holds its transaction.
LEMMA StoryAccounts ==
    ASSUME AccountInv, SalesOnly, Shape, NEW r \in Records, Story(r)
    PROVE  Accounts(r)
<1>1. /\ pc[r] = "story"
      /\ DOMAIN pc' = Records /\ pc'[r] = "done"
      /\ \A q \in Records \ {r} : pc'[q] = pc[q]
      /\ DOMAIN story' = Records
      /\ \A q \in Records \ {r} : story'[q] = story[q]
      /\ UNCHANGED <<envelope, job, props, claims, durable, base, tally, duplicate, lost>>
      /\ UNCHANGED configVars
  BY DEF Story, Shape, AccountInv, KernelShape
<1>2. RecordInv(r)
  BY DEF AccountInv
<1>3. MovesOnly(r)
  BY <1>1 DEF MovesOnly, Untouched, AccountInv, KernelShape
<1>4. /\ (ResolvedKind(r) = ResolvedKind(r)') /\ (KeyOf(r) = KeyOf(r)')
      /\ Money(r)' <=> Money(r)
      /\ Scrubbed(r)' <=> Scrubbed(r)
  BY <1>1, EventOfStep
<1>5. /\ base[r] = 1 /\ story[r] = 0 /\ tally[r] \in Nat
      /\ Scrubbed(r) /\ KeyOf(r) \in claims
      /\ ResolvedKind(r) = "session" => r \in durable
      /\ ResolvedKind(r) = "purchase" => Money(r) \/ "source=server" \notin envelope[r].fields
  BY <1>1, <1>2 DEF RecordInv, ScrubbedFirst, InStep, ClaimMade, Passed
<1>6. Money(r) => "source=server" \in envelope[r].fields /\ ResolvedKind(r) = "purchase"
  BY DEF Money, AccountInv, KernelShape, SalesOnly, ResolvedKind, KindOf
<1>7. "source=server" \in props[r] <=> "source=server" \in envelope[r].fields
  BY <1>5, ReadsTheEvent DEF AccountInv, KernelShape
<1>8. story'[r] = IF Money(r) /\ r \notin durable THEN 0 ELSE 1
  <2> DEFINE empty == ResolvedKind(r) = "purchase" /\ "source=server" \in props[r] /\ r \notin durable
  <2>1. empty <=> Money(r) /\ r \notin durable
    BY <1>5, <1>6, <1>7
  <2>2. story'[r] = IF empty THEN story[r] ELSE story[r] + 1
    BY DEF Story, AccountInv, KernelShape
  <2> QED BY <1>5, <2>1, <2>2
<1>9. Full(r)' <=> ~ (Money(r) /\ r \notin durable)
  <2>1. ResolvedKind(r) \in TypedKinds
    BY <1>1, <1>2 DEF RecordInv, InStep
  <2> QED BY <1>1, <1>4, <1>5, <1>8, <2>1 DEF Full
<1>10. InBatch(r)'
  BY <1>1, <1>2, BusyBatch DEF RecordInv
<1>11. ScrubbedFirst(r)'
  BY <1>1, <1>2, <1>4 DEF RecordInv, ScrubbedFirst, Passed
<1>12. InStep(r)' /\ ClaimMade(r)'
  BY <1>1, <1>4, <1>5, <1>8 DEF InStep, ClaimMade
<1>13. CountEnded(r)' /\ Ended(r)'
  BY <1>1, <1>4, <1>5, <1>9 DEF CountEnded, Ended
<1>14. Holds(r) => Holds(r)'
  BY <1>1, <1>4, <1>9 DEF Holds
<1> QED BY <1>1, <1>3, <1>10, <1>11, <1>12, <1>13, <1>14 DEF Accounts, RecordInv

\* A record that is tallied was not counted, or it was by an earlier delivery.
LEMMA TallyAccounts ==
    ASSUME AccountInv, Shape, NEW r \in Records, Tally(r)
    PROVE  Accounts(r)
<1>1. /\ pc[r] = "tally"
      /\ DOMAIN pc' = Records /\ pc'[r] = "done"
      /\ \A q \in Records \ {r} : pc'[q] = pc[q]
      /\ DOMAIN tally' = Records /\ tally'[r] = tally[r] + 1
      /\ \A q \in Records \ {r} : tally'[q] = tally[q]
      /\ UNCHANGED <<envelope, job, props, claims, durable, base, story, duplicate, lost>>
      /\ UNCHANGED configVars
  BY DEF Tally, Shape, AccountInv, KernelShape
<1>2. RecordInv(r)
  BY DEF AccountInv
<1>3. MovesOnly(r)
  BY <1>1 DEF MovesOnly, Untouched, AccountInv, KernelShape
<1>4. /\ (ResolvedKind(r) = ResolvedKind(r)') /\ (KeyOf(r) = KeyOf(r)')
      /\ Money(r)' <=> Money(r)
      /\ Scrubbed(r)' <=> Scrubbed(r)
  BY <1>1, EventOfStep
<1>5. Full(r)' <=> Full(r)
  BY <1>1, <1>4 DEF Full
<1>6. InBatch(r)'
  BY <1>1, <1>2, BusyBatch DEF RecordInv
<1>7. ScrubbedFirst(r)'
  BY <1>1, <1>2, <1>4 DEF RecordInv, ScrubbedFirst, Passed
<1>8. InStep(r)' /\ ClaimMade(r)'
  BY <1>1, <1>2, <1>4 DEF RecordInv, InStep, ClaimMade
<1>9. CountEnded(r)'
  BY <1>1, <1>2, <1>4, <1>5 DEF RecordInv, CountEnded
<1>10. Ended(r)'
  <2>1. CASE base[r] = 0
    BY <1>1, <1>2, <2>1 DEF RecordInv, InStep, Ended
  <2>2. CASE base[r] > 0
    BY <1>1, <1>2, <1>4, <1>5, <2>2 DEF RecordInv, ScrubbedFirst, CountEnded, ClaimMade, Ended
  <2>3. base[r] \in Nat
    BY <1>2 DEF RecordInv, InStep
  <2> QED BY <2>1, <2>2, <2>3
<1>11. Holds(r) => Holds(r)'
  BY <1>1, <1>4, <1>5 DEF Holds
<1> QED BY <1>1, <1>3, <1>6, <1>7, <1>8, <1>9, <1>10, <1>11 DEF Accounts, RecordInv

-----------------------------------------------------------------------------
(* Steps of a batch and a node *)

LEMMA ManyMove ==
    ASSUME AccountInv, UNCHANGED <<envelope, claims, base, story, tally>>, DOMAIN job' = Jobs, ListsKnown',
           \A q \in Records : RecordInv(q)' /\ (Holds(q) => Holds(q)')
    PROVE  AccountInv'
<1> USE DEF AccountInv
<1>1. KernelShape'
  BY DEF KernelShape
<1>2. ClaimsHeld'
  BY ClaimsStayHeld
<1> QED BY <1>1, <1>2

LEMMA NothingMoves ==
    ASSUME AccountInv, UNCHANGED kernelVars, ListsKnown'
    PROVE  AccountInv'
<1>1. \A q \in Records : Untouched(q)
  BY DEF kernelVars, Untouched
<1>2. \A q \in Records : RecordInv(q)' /\ (Holds(q) => Holds(q)')
  BY <1>1, UntouchedKeeps DEF kernelVars, AccountInv
<1> QED BY <1>2, ManyMove DEF kernelVars, AccountInv, KernelShape

\* A handler that starts, or starts again after a crash: what was counted of the
\* record by an earlier delivery stays, and the scrubber leaves what decides.
LEMMA StartAccounts ==
    ASSUME AccountInv, SalesOnly, NEW r \in Records, pc[r] \in {"queued", "scrub"},
           job'[JobOf[r]] \notin {"queued", "acked"},
           UNCHANGED <<envelope, claims, durable, base, story, tally, duplicate, lost>>,
           \/ \E cfg : /\ Keeps(cfg) /\ props'[r] = Scrub(envelope[r].fields, cfg)
                       /\ pc'[r] = Routed(r, props'[r])
           \/ props'[r] = props[r] /\ pc'[r] \in {"scrub", "tally"}
    PROVE  RecordInv(r)' /\ (Holds(r) => Holds(r)')
<1>1. RecordInv(r)
  BY DEF AccountInv
<1>2. /\ ResolvedKind(r)' = ResolvedKind(r)
      /\ Money(r)' = Money(r)
      /\ KeyOf(r)' = KeyOf(r)
  BY EventStays
<1>3. Full(r)' = Full(r)
  BY <1>2 DEF Full
<1>4. /\ Scrubbed(r) => Scrubbed(r)'
      /\ pc'[r] \in {"quarantine", "append", "gate", "scrub", "tally"}
      /\ pc'[r] \in {"quarantine", "append", "gate"} => Scrubbed(r)'
      /\ pc'[r] \in {"append", "gate"} /\ ResolvedKind(r) = "purchase"
            => Money(r) \/ "source=server" \notin envelope[r].fields
  <2>1. CASE \E cfg : /\ Keeps(cfg) /\ props'[r] = Scrub(envelope[r].fields, cfg)
                      /\ pc'[r] = Routed(r, props'[r])
    <3>1. PICK cfg : /\ Keeps(cfg) /\ props'[r] = Scrub(envelope[r].fields, cfg)
                     /\ pc'[r] = Routed(r, props'[r])
      BY <2>1
    <3>2. props'[r] \cap KeyFields = envelope[r].fields \cap KeyFields
      BY <3>1, ScrubLeavesKeys
    <3>3. props'[r] \subseteq envelope[r].fields
      BY <3>1 DEF Scrub
    <3>4. Scrubbed(r)'
      BY <3>2 DEF Scrubbed
    <3>5. /\ pc'[r] \in {"quarantine", "append", "gate"}
          /\ pc'[r] # "quarantine" /\ ResolvedKind(r) = "purchase"
                => Money(r) \/ "source=server" \notin envelope[r].fields
      BY <3>1, <3>2, <3>3, RouteOfPurchase DEF AccountInv, KernelShape
    <3> QED BY <3>4, <3>5
  <2>2. CASE props'[r] = props[r] /\ pc'[r] \in {"scrub", "tally"}
    BY <2>2 DEF Scrubbed
  <2> QED BY <2>1, <2>2
<1>5. InBatch(r)'
  BY DEF InBatch
<1>6. ScrubbedFirst(r)'
  BY <1>1, <1>2, <1>4 DEF RecordInv, ScrubbedFirst, Passed
<1>7. InStep(r)' /\ ClaimMade(r)'
  BY <1>1, <1>2, <1>4 DEF RecordInv, InStep, ClaimMade
<1>8. CountEnded(r)' /\ Ended(r)'
  BY <1>1, <1>2, <1>3, <1>4 DEF RecordInv, CountEnded, Ended
<1>9. Holds(r) => Holds(r)'
  BY <1>2, <1>3, <1>4 DEF Holds
<1> QED BY <1>5, <1>6, <1>7, <1>8, <1>9 DEF RecordInv

LEMMA BeginAccounts ==
    ASSUME AccountInv, SalesOnly, NEW j \in Jobs, Begin(j), ListsKnown'
    PROVE  AccountInv'
<1>1. PICK n \in {NodeOf[r] : r \in Batch(j)} :
    LET cfg   == cache[n].cfg
        named == {r \in Batch(j) : envelope[r].name # ""}
        ready == IF Fresh(n) THEN named ELSE {}
        kept  == [r \in Records |-> Scrub(envelope[r].fields, cfg)]
    IN
    /\ pc' = [r \in Records |-> IF r \in ready THEN Routed(r, kept[r])
                                ELSE IF r \in named THEN "scrub"
                                ELSE IF r \in Batch(j) THEN "tally" ELSE pc[r]]
    /\ props' = [r \in Records |-> IF r \in ready THEN kept[r] ELSE props[r]]
  BY DEF Begin
<1> DEFINE cfg   == cache[n].cfg
           named == {r \in Batch(j) : envelope[r].name # ""}
           ready == IF Fresh(n) THEN named ELSE {}
<1>2. /\ job[j] = "queued" /\ job' = [job EXCEPT ![j] = "running"]
      /\ UNCHANGED <<envelope, claims, durable, base, story, tally, duplicate, lost>>
  BY DEF Begin
<1>3. Keeps(cfg)
  <2>1. n \in Nodes
    BY ConfigAssumption DEF Batch, Records
  <2> QED BY <2>1 DEF AccountInv, ListsKnown
<1>4. \A r \in Records :
          /\ r \in ready => props'[r] = Scrub(envelope[r].fields, cfg) /\ pc'[r] = Routed(r, props'[r])
          /\ r \in Batch(j) /\ r \notin ready => props'[r] = props[r] /\ pc'[r] \in {"scrub", "tally"}
          /\ r \notin Batch(j) => r \notin ready /\ props'[r] = props[r] /\ pc'[r] = pc[r]
  BY <1>1
<1> HIDE DEF ready, cfg
<1>5. DOMAIN job = Jobs /\ DOMAIN job' = Jobs
  BY <1>2 DEF AccountInv, KernelShape
<1>6. ASSUME NEW q \in Records PROVE RecordInv(q)' /\ (Holds(q) => Holds(q)')
  <2>1. CASE q \in Batch(j)
    <3>1. JobOf[q] = j /\ job'[JobOf[q]] = "running"
      BY <1>2, <1>5, <2>1 DEF Batch
    <3>2. pc[q] = "queued"
      BY <1>2, <3>1 DEF AccountInv, RecordInv, InBatch
    <3> QED BY <1>2, <1>3, <1>4, <2>1, <3>1, <3>2, StartAccounts
  <2>2. CASE q \notin Batch(j)
    <3>1. job'[JobOf[q]] = job[JobOf[q]]
      BY <1>2, <1>5, <2>2, KernelAssumption DEF Batch
    <3>2. Untouched(q)
      BY <1>2, <1>4, <2>2, <3>1 DEF Untouched
    <3> QED BY <1>2, <3>2, UntouchedKeeps DEF AccountInv
  <2> QED BY <2>1, <2>2
<1> QED BY <1>2, <1>5, <1>6, ManyMove

LEMMA ScrubFillAccounts ==
    ASSUME AccountInv, SalesOnly, Shape, NEW r \in Records, ScrubFill(r), ListsKnown'
    PROVE  AccountInv'
<1> DEFINE cfg  == fetch[r].cfg
           kept == Scrub(envelope[r].fields, cfg)
<1>1. /\ pc[r] = "scrub"
      /\ props' = [props EXCEPT ![r] = kept]
      /\ pc' = [pc EXCEPT ![r] = Routed(r, kept)]
      /\ UNCHANGED <<envelope, job, claims, durable, base, story, tally, duplicate, lost>>
  BY DEF ScrubFill
<1>2. Keeps(cfg)
  BY DEF AccountInv, ListsKnown, Tasks, Records
<1>3. props'[r] = Scrub(envelope[r].fields, cfg) /\ pc'[r] = Routed(r, props'[r])
  BY <1>1 DEF Shape
<1>4. job'[JobOf[r]] \notin {"queued", "acked"}
  BY <1>1 DEF AccountInv, RecordInv, InBatch
<1>5. \A q \in Records \ {r} : Untouched(q)
  BY <1>1 DEF Untouched, Shape
<1> HIDE DEF cfg
<1>6. RecordInv(r)' /\ (Holds(r) => Holds(r)')
  BY <1>1, <1>2, <1>3, <1>4, StartAccounts
<1>7. \A q \in Records : RecordInv(q)' /\ (Holds(q) => Holds(q)')
  BY <1>1, <1>5, <1>6, UntouchedKeeps DEF AccountInv
<1> QED BY <1>1, <1>7, ManyMove DEF AccountInv, KernelShape

\* An exception leaves its record among the lost.
LEMMA ThrowAccounts ==
    ASSUME AccountInv, Shape, NEW r \in Records, Throw(r), ListsKnown'
    PROVE  AccountInv'
<1>1. /\ pc[r] \notin {"queued", "done"}
      /\ pc'[r] = "done" /\ lost' = lost \cup {r}
      /\ \A q \in Records \ {r} : pc'[q] = pc[q]
      /\ UNCHANGED <<envelope, job, props, claims, durable, base, story, tally, duplicate>>
  BY DEF Throw, Shape
<1>2. \A q \in Records \ {r} : Untouched(q)
  BY <1>1 DEF Untouched
<1>3. RecordInv(r)
  BY DEF AccountInv
<1>4. /\ (ResolvedKind(r) = ResolvedKind(r)') /\ (KeyOf(r) = KeyOf(r)')
      /\ Money(r)' <=> Money(r)
      /\ Scrubbed(r)' <=> Scrubbed(r)
  BY <1>1, EventOfStep
<1>5. InBatch(r)'
  BY <1>1, <1>3, BusyBatch DEF RecordInv
<1>6. ScrubbedFirst(r)' /\ InStep(r)' /\ ClaimMade(r)'
  BY <1>1, <1>3, <1>4 DEF RecordInv, ScrubbedFirst, InStep, ClaimMade, Passed
<1>7. CountEnded(r)' /\ Ended(r)' /\ (Holds(r) => Holds(r)')
  BY <1>1, <1>4 DEF CountEnded, Ended, Holds
<1>8. \A q \in Records : RecordInv(q)' /\ (Holds(q) => Holds(q)')
  BY <1>1, <1>2, <1>5, <1>6, <1>7, UntouchedKeeps DEF AccountInv, RecordInv
<1> QED BY <1>1, <1>8, ManyMove DEF AccountInv, KernelShape

\* A crash gives its batches back whole.  A record past its claim that was not
\* counted in full is lost: the next delivery of it is stopped as a duplicate.
LEMMA CrashAccounts ==
    ASSUME AccountInv, SalesOnly, NEW n \in Nodes, Crash(n), ListsKnown'
    PROVE  AccountInv'
<1> DEFINE killed == {r \in Records : NodeOf[r] = n /\ job[JobOf[r]] = "running"}
<1>1. /\ job' = [j \in Jobs |-> IF \E r \in killed : JobOf[r] = j THEN "queued" ELSE job[j]]
      /\ lost' = lost \cup {r \in killed : pc[r] \in {"base", "story"} \/ (pc[r] = "durable" /\ ~Transacted(r))}
      /\ pc' = [r \in Records |-> IF r \in killed THEN "queued" ELSE pc[r]]
      /\ UNCHANGED <<envelope, props, claims, durable, base, story, tally, duplicate>>
  BY DEF Crash
<1>2. ASSUME NEW q \in Records PROVE RecordInv(q)' /\ (Holds(q) => Holds(q)')
  <2>1. RecordInv(q) /\ JobOf[q] \in Jobs
    BY KernelAssumption DEF AccountInv
  <2>2. CASE q \in killed
    <3>1. /\ pc'[q] = "queued" /\ job'[JobOf[q]] = "queued"
          /\ q \in lost => q \in lost'
          /\ pc[q] \in {"base", "story"} => q \in lost'
          /\ pc[q] = "durable" /\ ~ Transacted(q) => q \in lost'
      BY <1>1, <2>1, <2>2
    <3> HIDE DEF killed
    <3>2. /\ (ResolvedKind(q) = ResolvedKind(q)') /\ (KeyOf(q) = KeyOf(q)')
          /\ Money(q)' <=> Money(q)
          /\ Scrubbed(q)' <=> Scrubbed(q)
      BY <1>1, EventOfStep
    <3>3. Full(q)' <=> Full(q)
      BY <1>1, <3>2 DEF Full
    <3>4. InBatch(q)' /\ Ended(q)'
      BY <3>1 DEF InBatch, Ended
    <3>5. ScrubbedFirst(q)' /\ InStep(q)' /\ ClaimMade(q)'
      BY <1>1, <2>1, <3>1, <3>2 DEF RecordInv, ScrubbedFirst, InStep, ClaimMade, Passed
    <3>6. CountEnded(q)'
      BY <1>1, <2>1, <3>1, <3>2, <3>3 DEF RecordInv, CountEnded
    <3>7. ASSUME Holds(q) PROVE Holds(q)'
      <4>1. pc[q] = "durable" => ~ Money(q)
        BY <2>1, <3>7 DEF Holds, RecordInv, InStep
      <4>2. pc[q] = "durable" => ~ Transacted(q)
        BY <3>7, <4>1, ReadsTheEvent DEF Holds, AccountInv, KernelShape
      <4>3. pc[q] \in {"durable", "base", "story"} => q \in lost'
        BY <3>1, <4>2
      <4> QED BY <1>1, <3>1, <3>2, <3>3, <3>7, <4>3 DEF Holds
    <3> QED BY <3>4, <3>5, <3>6, <3>7 DEF RecordInv
  <2>3. CASE q \notin killed
    <3>1. ~ \E r \in killed : JobOf[r] = JobOf[q]
      BY <2>3, KernelAssumption
    <3>2. job'[JobOf[q]] = job[JobOf[q]]
      BY <1>1, <2>1, <3>1
    <3>3. Untouched(q)
      BY <1>1, <2>3, <3>2 DEF Untouched
    <3> QED BY <1>1, <2>1, <3>3, UntouchedKeeps
  <2> QED BY <2>2, <2>3
<1> QED BY <1>1, <1>2, ManyMove

LEMMA AckAccounts ==
    ASSUME AccountInv, NEW j \in Jobs, Ack(j), ListsKnown'
    PROVE  AccountInv'
<1>1. /\ \A r \in Batch(j) : pc[r] = "done"
      /\ job' = [job EXCEPT ![j] = "acked"]
      /\ UNCHANGED <<envelope, pc, props, claims, durable, base, story, tally, duplicate, lost>>
  BY DEF Ack
<1>2. ASSUME NEW q \in Records PROVE RecordInv(q)' /\ (Holds(q) => Holds(q)')
  <2>1. RecordInv(q) /\ JobOf[q] \in Jobs /\ DOMAIN job = Jobs
    BY KernelAssumption DEF AccountInv, KernelShape
  <2>2. CASE JobOf[q] = j
    <3>1. pc'[q] = "done" /\ job'[JobOf[q]] = "acked"
      BY <1>1, <2>1, <2>2 DEF Batch
    <3>2. InBatch(q)'
      BY <3>1 DEF InBatch
    <3>3. /\ (ResolvedKind(q) = ResolvedKind(q)') /\ (KeyOf(q) = KeyOf(q)')
          /\ Money(q)' <=> Money(q)
          /\ Scrubbed(q)' <=> Scrubbed(q)
      BY <1>1, EventOfStep
    <3>4. Full(q)' <=> Full(q)
      BY <1>1, <3>3 DEF Full
    <3>5. ScrubbedFirst(q)' /\ InStep(q)' /\ ClaimMade(q)'
      BY <1>1, <2>1, <3>3 DEF RecordInv, ScrubbedFirst, InStep, ClaimMade
    <3>6. CountEnded(q)' /\ Ended(q)' /\ (Holds(q) => Holds(q)')
      BY <1>1, <2>1, <3>3, <3>4 DEF RecordInv, CountEnded, Ended, Holds
    <3> QED BY <3>2, <3>5, <3>6 DEF RecordInv
  <2>3. CASE JobOf[q] # j
    <3>1. Untouched(q)
      BY <1>1, <2>1, <2>3 DEF Untouched
    <3> QED BY <1>1, <2>1, <3>1, UntouchedKeeps
  <2> QED BY <2>2, <2>3
<1>3. DOMAIN job' = Jobs
  BY <1>1 DEF AccountInv, KernelShape
<1> QED BY <1>1, <1>2, <1>3, ManyMove

LEMMA ListsStay ==
    ASSUME ListsKnown, UNCHANGED configVars
    PROVE  ListsKnown'
BY DEF ListsKnown, Keeps, configVars

LEMMA HandleAccounts ==
    ASSUME SalesOnly, IInv, AccountInv, NEW r \in Records, Handle(r)
    PROVE  AccountInv'
<1>1. CASE ScrubQuery(r)
  <2>1. UNCHANGED <<kernelVars, request>>
    BY <1>1 DEF ScrubQuery
  <2>2. ReadsOrForgets
    BY <1>1 DEF ScrubQuery, Query, ReadsOrForgets, IInv, ConfigInv, CopiesInv, Times, Tasks, Records
  <2> QED BY <2>1, <2>2, ReadingKeepsLists, NothingMoves DEF AccountInv
<1>2. CASE ScrubFill(r)
  <2>1. Fill(r, fetch[r].cfg) /\ UNCHANGED <<clock, row, audit, changedAt, request>>
    BY <1>2 DEF ScrubFill
  <2>2. ReadsOrForgets
    BY <2>1 DEF Fill, ReadsOrForgets, IInv, ConfigInv, CopiesInv, Times, Tasks, Records
  <2>3. ListsKnown'
    BY <2>1, <2>2, ReadingKeepsLists DEF AccountInv
  <2> QED BY <1>2, <2>3, ScrubFillAccounts DEF IInv
<1>3. CASE Gate(r) \/ RawAppend(r) \/ Dedup(r) \/ Durable(r) \/ Base(r) \/ Story(r) \/ Tally(r)
  <2>1. Accounts(r)
    BY <1>3, ForwardAccounts, DedupAccounts, DurableAccounts, BaseAccounts, StoryAccounts, TallyAccounts
       DEF IInv
  <2>2. ListsKnown'
    BY <2>1, ListsStay DEF Accounts, AccountInv
  <2> QED BY <2>1, <2>2, OneMoves DEF Accounts
<1> QED BY <1>1, <1>2, <1>3 DEF Handle

LEMMA AccountNext ==
    ASSUME KeysKept, SalesOnly, IInv, AccountInv, [Next]_vars
    PROVE  AccountInv'
<1>1. CASE Administer
  <2>1. PICK o \in Operators : Set(o)
    BY <1>1 DEF Administer
  <2>2. ListsKnown'
    BY <2>1, SetKeepsLists DEF IInv, AccountInv
  <2> QED BY <1>1, <2>2, NothingMoves DEF Administer
<1>2. CASE Pass
  <2>1. ListsKnown'
    BY <1>2 DEF Pass, Tick, AccountInv, ListsKnown, Keeps
  <2> QED BY <1>2, <2>1, NothingMoves DEF Pass
<1>3. CASE \E j \in Jobs : Begin(j) \/ Ack(j)
  <2>1. PICK j \in Jobs : Begin(j) \/ Ack(j)
    BY <1>3
  <2>2. UNCHANGED configVars
    BY <2>1 DEF Begin, Ack
  <2>3. ListsKnown'
    BY <2>2, ListsStay DEF AccountInv
  <2> QED BY <2>1, <2>3, BeginAccounts, AckAccounts
<1>4. CASE \E n \in Nodes : Crash(n)
  <2>1. PICK n \in Nodes : Crash(n)
    BY <1>4
  <2>2. RestartNode(n, key[n])
    BY <2>1 DEF Crash
  <2>3. ReadsOrForgets
    BY <2>2 DEF RestartNode, ReadsOrForgets, IInv, ConfigInv, CopiesInv, Times
  <2>4. \A o \in Operators : request'[o].phase \in {"prior", "commit"} => request'[o] = request[o]
    BY <2>2 DEF RestartNode, Idle
  <2>5. ListsKnown'
    BY <2>3, <2>4, CopiesOfLists DEF AccountInv, ListsKnown
  <2> QED BY <2>1, <2>5, CrashAccounts
<1>5. CASE \E r \in Records : Handle(r)
  BY <1>5, HandleAccounts
<1>6. CASE \E r \in Records : Throw(r)
  <2>1. PICK r \in Records : Throw(r)
    BY <1>6
  <2>2. ReadsOrForgets /\ UNCHANGED request
    BY <2>1 DEF Throw, ReadsOrForgets, IInv, ConfigInv, CopiesInv, Times
  <2>3. ListsKnown'
    BY <2>2, ReadingKeepsLists DEF AccountInv
  <2> QED BY <2>1, <2>3, ThrowAccounts DEF IInv
<1>7. CASE UNCHANGED vars
  <2>1. ListsKnown'
    BY <1>7, ListsStay DEF vars, AccountInv
  <2> QED BY <1>7, <2>1, NothingMoves DEF vars
<1> QED BY <1>1, <1>2, <1>3, <1>4, <1>5, <1>6, <1>7 DEF Next

LEMMA AccountFollows ==
    ASSUME SalesOnly, AccountInv
    PROVE  AckedIsAccounted
<1> SUFFICES ASSUME NEW r \in Records, job[JobOf[r]] = "acked"
             PROVE  \/ Claimed(r)
                    \/ tally[r] > 0 /\ base[r] = 0
                    \/ IsCopy(r) /\ \E q \in Records \ {r} : ClaimKey(q) = ClaimKey(r) /\ Claimed(q)
  BY DEF AckedIsAccounted
<1>1. RecordInv(r) /\ pc[r] = "done"
  BY DEF AccountInv, RecordInv, InBatch
<1>2. ASSUME NEW q \in Records, Scrubbed(q), Full(q) PROVE CountedInFull(q)
  <2>1. Books(q) => Money(q)
    BY <1>2, ReadsTheEvent DEF AccountInv, KernelShape
  <2> QED BY <1>2, <2>1 DEF Full, CountedInFull
<1>3. ASSUME NEW q \in Records, Holds(q) PROVE Claimed(q)
  BY <1>2, <1>3 DEF Holds, Claimed
<1>4. CASE Full(r)
  <2>1. Scrubbed(r)
    BY <1>1, <1>4 DEF Full, RecordInv, ScrubbedFirst
  <2> QED BY <1>2, <1>4, <2>1 DEF Claimed
<1>5. CASE r \in lost
  BY <1>5 DEF Claimed
<1>6. CASE Scrubbed(r) /\ KeyOf(r) \in claims /\ (r \in duplicate \/ (Money(r) /\ r \notin durable))
  <2>1. IsCopy(r) /\ ClaimKey(r) = KeyOf(r)
    BY <1>6, ReadsTheEvent DEF IsCopy, AccountInv, KernelShape
  <2>2. PICK q \in Records : KeyOf(q) = KeyOf(r) /\ Holds(q)
    BY <1>6 DEF AccountInv, ClaimsHeld
  <2>3. ClaimKey(q) = KeyOf(q)
    BY <2>2, ReadsTheEvent DEF Holds, AccountInv, KernelShape
  <2>4. Claimed(q)
    BY <1>3, <2>2
  <2> QED BY <2>1, <2>2, <2>3, <2>4
<1> QED BY <1>1, <1>4, <1>5, <1>6 DEF RecordInv, Ended

-----------------------------------------------------------------------------
\* No record vanishes, as long as the deny list spares the three fields that decide
\* and every purchase with a transaction is one that books: when a batch is acked,
\* each of its records was counted once with all its kind asks for, or tallied by
\* its reason, or lost by an exception or by a crash behind its claim, or it is a
\* copy of another record that claimed its key and was counted, is still at it, or
\* was lost; whichever batches are delivered again and however their handlers race
\* for the claim (IngestKernel.process, windowedDedup.claim and
\* purchaseDedup.claimTransaction at step 6, the durable hooks at step 7).
THEOREM NoRecordVanishes ==
    ASSUME KeysKept, SalesOnly
    PROVE  Spec => []AckedIsAccounted
<1>1. Init => IInv /\ AccountInv
  BY KernelAtFirst, AccountAtFirst
<1>2. IInv /\ AccountInv /\ [Next]_vars => (IInv /\ AccountInv)'
  BY KernelNext, AccountNext
<1>3. IInv /\ AccountInv => AckedIsAccounted
  BY AccountFollows
<1> QED BY <1>1, <1>2, <1>3, PTL DEF Spec

-----------------------------------------------------------------------------
(* Counted once *)

\* However often it is delivered, a record is counted at most once; and of the
\* events with one id that are not purchases with a transaction, at most one is.
EventsCountedOnce ==
    \A r \in Records :
        /\ base[r] <= 1
        /\ \A q \in Records \ {r} :
            ~ Money(r) /\ ~ Money(q) /\ envelope[q].event = envelope[r].event
                => base[r] = 0 \/ base[q] = 0

\* A record past step 6, and one an earlier delivery of which was counted.
Claimer(r) == base[r] > 0 \/ pc[r] \in {"durable", "base", "story"}

OneClaimer ==
    \A r \in Records :
        /\ base[r] <= 1
        /\ \A q \in Records \ {r} :
            ~ Money(r) /\ ~ Money(q) /\ KeyOf(q) = KeyOf(r) => ~ (Claimer(r) /\ Claimer(q))

\* Only step 6 makes a claimer, and only of a record whose key nobody has claimed.
Narrows ==
    /\ envelope' = envelope
    /\ \A q \in Records : base[q] <= 1 => base'[q] <= 1
    /\ \/ \A q \in Records : Claimer(q)' => Claimer(q)
       \/ \E r \in Records :
            /\ KeyOf(r) \notin claims
            /\ \A q \in Records \ {r} : Claimer(q)' => Claimer(q)

LEMMA NarrowsKeeps ==
    ASSUME AccountInv, OneClaimer, Narrows
    PROVE  OneClaimer'
<1>1. \A r \in Records : (KeyOf(r) = KeyOf(r)') /\ (Money(r)' <=> Money(r))
  BY EventStays DEF Narrows
<1>2. \A r \in Records : Claimer(r) /\ ~ Money(r) => KeyOf(r) \in claims
  <2> SUFFICES ASSUME NEW r \in Records, Claimer(r), ~ Money(r) PROVE KeyOf(r) \in claims
    OBVIOUS
  <2>1. RecordInv(r)
    BY DEF AccountInv
  <2> QED BY <2>1 DEF RecordInv, ClaimMade, Claimer
<1>3. ASSUME NEW r \in Records, NEW q \in Records \ {r}, ~ Money(r), ~ Money(q), KeyOf(q) = KeyOf(r),
             Claimer(r)', Claimer(q)'
      PROVE  FALSE
  <2>1. ~ (Claimer(r) /\ Claimer(q))
    BY <1>3 DEF OneClaimer
  <2>2. PICK n \in Records : KeyOf(n) \notin claims /\ \A x \in Records \ {n} : Claimer(x)' => Claimer(x)
    BY <1>3, <2>1 DEF Narrows
  <2>3. KeyOf(r) \notin claims
    BY <1>3, <2>1, <2>2
  <2>4. Claimer(r) \/ Claimer(q)
    BY <1>3, <2>2
  <2> QED BY <1>2, <1>3, <2>3, <2>4
<1>4. \A r \in Records : base'[r] <= 1
  BY DEF OneClaimer, Narrows
<1> QED BY <1>1, <1>3, <1>4 DEF OneClaimer

LEMMA HandleNarrows ==
    ASSUME SalesOnly, IInv, AccountInv, NEW r \in Records, Handle(r)
    PROVE  Narrows
<1> USE DEF IInv
<1>1. DOMAIN pc = Records /\ DOMAIN base = Records /\ RecordInv(r)
  BY DEF Shape, AccountInv, KernelShape
<1>2. CASE ScrubQuery(r)
  BY <1>2 DEF ScrubQuery, kernelVars, Narrows, Claimer
<1>3. CASE ScrubFill(r)
  <2>1. PICK kept : pc' = [pc EXCEPT ![r] = Routed(r, kept)]
    BY <1>3 DEF ScrubFill
  <2>2. UNCHANGED <<envelope, base>>
    BY <1>3 DEF ScrubFill
  <2>3. Routed(r, kept) \in {"quarantine", "append", "gate"}
    BY DEF Routed
  <2> QED BY <1>1, <2>1, <2>2, <2>3 DEF Narrows, Claimer
<1>4. CASE Gate(r) \/ RawAppend(r)
  <2>1. /\ pc'[r] \in {"append", "tally", "dedup"}
        /\ \A q \in Records \ {r} : pc'[q] = pc[q]
        /\ UNCHANGED <<envelope, base>>
    BY <1>1, <1>4 DEF Gate, RawAppend
  <2> QED BY <2>1 DEF Narrows, Claimer
<1>5. CASE Dedup(r)
  <2>1. /\ pc[r] = "dedup"
        /\ ClaimKey(r) \in claims => pc'[r] = "done"
        /\ \A q \in Records \ {r} : pc'[q] = pc[q]
        /\ UNCHANGED <<envelope, base>>
    BY <1>1, <1>5 DEF Dedup
  <2>2. ClaimKey(r) = KeyOf(r)
    <3>1. Scrubbed(r)
      BY <1>1, <2>1 DEF RecordInv, ScrubbedFirst, Passed
    <3> QED BY <3>1, ReadsTheEvent DEF AccountInv, KernelShape
  <2>3. \A q \in Records \ {r} : Claimer(q)' => Claimer(q)
    BY <2>1 DEF Claimer
  <2>4. KeyOf(r) \in claims => (Claimer(r)' => Claimer(r))
    BY <2>1, <2>2 DEF Claimer
  <2> QED BY <2>1, <2>3, <2>4 DEF Narrows
<1>6. CASE Durable(r) \/ Base(r) \/ Story(r) \/ Tally(r)
  <2>1. /\ pc'[r] \in {"base", "story"} => pc[r] \in {"durable", "base"}
        /\ pc'[r] # "durable"
        /\ \A q \in Records \ {r} : pc'[q] = pc[q] /\ base'[q] = base[q]
        /\ base'[r] = base[r] \/ (pc[r] = "base" /\ base'[r] = base[r] + 1)
        /\ envelope' = envelope
    BY <1>1, <1>6 DEF Durable, Base, Story, Tally
  <2>2. pc[r] = "base" => base[r] = 0
    BY <1>1 DEF RecordInv, InStep
  <2> QED BY <2>1, <2>2 DEF Narrows, Claimer
<1> QED BY <1>2, <1>3, <1>4, <1>5, <1>6 DEF Handle

LEMMA CountedNext ==
    ASSUME SalesOnly, IInv, AccountInv, OneClaimer, [Next]_vars
    PROVE  OneClaimer'
<1> SUFFICES Narrows
  BY NarrowsKeeps
<1> USE DEF IInv
<1>1. DOMAIN pc = Records
  BY DEF Shape
<1>2. CASE Administer \/ Pass \/ UNCHANGED vars
  BY <1>2 DEF Administer, Pass, vars, kernelVars, Narrows, Claimer
<1>3. CASE \E j \in Jobs : Begin(j)
  <2>1. PICK j \in Jobs : Begin(j)
    BY <1>3
  <2>2. ASSUME NEW q \in Records
        PROVE pc'[q] \in {pc[q], "scrub", "tally", "quarantine", "append", "gate"}
    BY <2>1 DEF Begin, Routed
  <2>3. UNCHANGED <<envelope, base>>
    BY <2>1 DEF Begin
  <2> QED BY <2>2, <2>3 DEF Narrows, Claimer
<1>4. CASE \/ \E r \in Records : Throw(r)
           \/ \E n \in Nodes : Crash(n)
           \/ \E j \in Jobs : Ack(j)
  <2>1. UNCHANGED <<envelope, base>> /\ \A q \in Records : pc'[q] \in {pc[q], "queued", "done"}
    BY <1>1, <1>4 DEF Throw, Crash, Ack
  <2> QED BY <2>1 DEF Narrows, Claimer
<1>5. CASE \E r \in Records : Handle(r)
  BY <1>5, HandleNarrows
<1> QED BY <1>2, <1>3, <1>4, <1>5 DEF Next

\* A redelivery is never a double count (ingest.worker.ts), for any number of
\* deliveries, exceptions and crashes within the dedup window, under the two
\* conditions of NoRecordVanishes: a record is counted once, and so are all the
\* events of one id, but for purchases with a transaction, which step 6 looks up
\* and does not claim (IngestKernel.process, windowedDedup.claim).
THEOREM RedeliveriesCountOnce ==
    ASSUME KeysKept, SalesOnly
    PROVE  Spec => []EventsCountedOnce
<1>1. Init => IInv /\ AccountInv /\ OneClaimer
  <2>1. Init => OneClaimer
    BY DEF Init, OneClaimer, Claimer
  <2> QED BY <2>1, KernelAtFirst, AccountAtFirst
<1>2. IInv /\ AccountInv /\ OneClaimer /\ [Next]_vars => (IInv /\ AccountInv /\ OneClaimer)'
  BY KernelNext, AccountNext, CountedNext
<1>3. IInv /\ AccountInv /\ OneClaimer => EventsCountedOnce
  <2> SUFFICES ASSUME IInv, AccountInv, OneClaimer PROVE EventsCountedOnce
    OBVIOUS
  <2>1. \A r \in Records : base[r] \in Nat
    BY DEF AccountInv, RecordInv, InStep
  <2>2. \A r, q \in Records : ~ Money(r) /\ ~ Money(q) /\ envelope[q].event = envelope[r].event
            => KeyOf(q) = KeyOf(r)
    BY DEF KeyOf
  <2> QED BY <2>1, <2>2 DEF EventsCountedOnce, OneClaimer, Claimer
<1> QED BY <1>1, <1>2, <1>3, PTL DEF Spec
=============================================================================
