------------------------------ MODULE GameConfig ------------------------------
(***************************************************************************)
(* The configuration of one game: the GAME.config row, the administrators' *)
(* writes with their audit rows, and the copy each node caches for one     *)
(* refresh interval.  Modules that read the configuration extend this one: *)
(* a reader asks with Hit, or with Query and Fill around the await.        *)
(***************************************************************************)
EXTENDS ConfigContract

CONSTANTS
    Nodes,         \* server processes, each with its own cache
    Operators,     \* administrators with at most one request under way
    Readers,       \* tasks of the nodes that read the configuration
    NodeOf,        \* NodeOf[t]: the node that serves the task or the request
    Requests,      \* <<knob, value>> an administrator may send
    InitialRow,    \* what the row holds at first
    InitialKey,    \* the master key the nodes were started with
    Ttl,           \* refresh interval, in ticks
    MaxLatency,    \* bound: ticks from the database's answer to its use
    MaxClock,      \* bound: ticks
    MaxSets        \* bound: audit rows

\* The constructor takes a refresh interval only when it is above 0.
ASSUME ConfigAssumption ==
    /\ NodeOf \in [Operators \cup Readers -> Nodes]
    /\ Ttl \in Nat \ {0} /\ MaxLatency \in Nat /\ MaxClock \in Nat /\ MaxSets \in Nat

Nothing  == [cfg |-> <<>>, at |-> -1]      \* no cached copy; no answer awaited
Redacted == Text("[redacted-infra-secret]")
Idle     == [phase |-> "idle"]

VARIABLES
    clock,
    row,         \* Postgres: knob -> stored value
    audit,       \* Postgres: CONFIG_AUDIT, oldest first
    key,         \* key[n]: the master key of the node's process
    cache,       \* cache[n]: the copy getConfig serves and when it was stored
    fetch,       \* fetch[t]: the row the database answered, not yet stored
    request,     \* request[o]: the set under way
    changedAt    \* history: changedAt[k], when an administrator last set k

configVars == <<clock, row, audit, key, cache, fetch, request, changedAt>>

ConfigInit ==
    /\ clock = 0
    /\ row = InitialRow
    /\ audit = <<>>
    /\ key = [n \in Nodes |-> InitialKey]
    /\ cache = [n \in Nodes |-> Nothing]
    /\ fetch = [t \in Operators \cup Readers |-> Nothing]
    /\ request = [o \in Operators |-> Idle]
    /\ changedAt = <<>>

ValueAt(cfg, k) == IF k \in DOMAIN cfg THEN cfg[k] ELSE Defaults[k]

\* A JSON object with one key set.
With(object, k, v) ==
    [x \in DOMAIN object \cup {k} |-> IF x = k THEN v ELSE object[x]]

SetAt(k) == IF k \in DOMAIN changedAt THEN changedAt[k] ELSE 0

----------------------------------------------------------------------------
\* getConfig: a fresh copy is served without an await.

\* Mutant: the copy is served one tick too long.
FreshTooLong(n) == cache[n].at >= 0 /\ clock - cache[n].at <= Ttl

Fresh(n) == cache[n].at >= 0 /\ clock - cache[n].at < Ttl

Hit(t, cfg) == Fresh(NodeOf[t]) /\ cfg = cache[NodeOf[t]].cfg

\* Else the row is read; the database answers with what is there now.
Query(t) ==
    /\ fetch[t] = Nothing
    /\ fetch' = [fetch EXCEPT ![t] = [cfg |-> row, at |-> clock]]

\* The task resumes: it stores the answer as of now and uses it.
Fill(t, cfg) ==
    /\ fetch[t] # Nothing /\ cfg = fetch[t].cfg
    /\ cache' = [cache EXCEPT ![NodeOf[t]] = [cfg |-> cfg, at |-> clock]]
    /\ fetch' = [fetch EXCEPT ![t] = Nothing]

----------------------------------------------------------------------------
\* ConfigAdminService.set

\* Unknown knobs, platform knobs and values out of contract are refused, with
\* no write and no audit row.
Settable(k, v) == k \in DOMAIN PerGameKnobs /\ Conforms(PerGameKnobs[k], v)

Stored(n, k, v) == IF k \in InfraSecretKnobs THEN [under |-> key[n], plain |-> v] ELSE v

AuditValue(k, v) == IF k \in InfraSecretKnobs THEN Redacted ELSE v

Submit(o) ==
    /\ request[o] = Idle /\ Len(audit) < MaxSets
    /\ \E q \in Requests :
        /\ Settable(q[1], q[2])
        /\ request' = [request EXCEPT ![o] = [phase |-> "prior", knob |-> q[1], value |-> q[2]]]
    /\ UNCHANGED <<clock, row, audit, key, cache, fetch, changedAt>>

\* The prior value comes from the node's cached copy, or from the row.
HasPrior(o, cfg) ==
    request' = [request EXCEPT ![o] = [phase |-> "commit", knob |-> @.knob, value |-> @.value,
        old |-> IF @.knob \in DOMAIN cfg THEN AuditValue(@.knob, cfg[@.knob]) ELSE Text("none")]]

PriorHit(o) ==
    /\ request[o].phase = "prior"
    /\ \E cfg \in {cache[NodeOf[o]].cfg} : Hit(o, cfg) /\ HasPrior(o, cfg)
    /\ UNCHANGED <<clock, row, audit, key, cache, fetch, changedAt>>

PriorQuery(o) ==
    /\ request[o].phase = "prior" /\ ~Fresh(NodeOf[o])
    /\ Query(o)
    /\ UNCHANGED <<clock, row, audit, key, cache, request, changedAt>>

PriorFill(o) ==
    /\ request[o].phase = "prior"
    /\ \E cfg \in {fetch[o].cfg} : Fill(o, cfg) /\ HasPrior(o, cfg)
    /\ UNCHANGED <<clock, row, audit, key, changedAt>>

\* One transaction: the key is merged into the row and the audit row appended.
Commit(o) ==
    /\ request[o].phase = "commit" /\ Len(audit) < MaxSets
    /\ LET q == request[o] IN
        /\ row' = With(row, q.knob, Stored(NodeOf[o], q.knob, q.value))
        /\ audit' = Append(audit, [knob |-> q.knob, old |-> q.old, new |-> AuditValue(q.knob, q.value)])
        /\ changedAt' = With(changedAt, q.knob, clock)
    /\ request' = [request EXCEPT ![o].phase = "invalidate"]
    /\ UNCHANGED <<clock, key, cache, fetch>>

\* The copy of the node that wrote is dropped, and the request is answered.
Invalidate(o) ==
    /\ request[o].phase = "invalidate"
    /\ cache' = [cache EXCEPT ![NodeOf[o]] = Nothing]
    /\ request' = [request EXCEPT ![o] = Idle]
    /\ UNCHANGED <<clock, row, audit, key, fetch, changedAt>>

Set(o) == Submit(o) \/ PriorHit(o) \/ PriorQuery(o) \/ PriorFill(o) \/ Commit(o) \/ Invalidate(o)

----------------------------------------------------------------------------
\* An answer of the database is used within MaxLatency ticks.
Tick ==
    /\ clock < MaxClock
    /\ \A t \in DOMAIN fetch : fetch[t] # Nothing => clock - fetch[t].at < MaxLatency
    /\ clock' = clock + 1
    /\ UNCHANGED <<row, audit, key, cache, fetch, request, changedAt>>

\* The process of a node starts again, with the master key of its environment:
\* the cached copy and the requests under way are gone.
RestartNode(n, k) ==
    LET gone == {t \in Operators \cup Readers : NodeOf[t] = n} IN
    /\ key' = [key EXCEPT ![n] = k]
    /\ cache' = [cache EXCEPT ![n] = Nothing]
    /\ fetch' = [t \in DOMAIN fetch |-> IF t \in gone THEN Nothing ELSE fetch[t]]
    /\ request' = [o \in Operators |-> IF o \in gone THEN Idle ELSE request[o]]
    /\ UNCHANGED <<clock, row, audit, changedAt>>

=============================================================================
