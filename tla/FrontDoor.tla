----------------------------- MODULE FrontDoor ------------------------------
(***************************************************************************)
(* The ingest front door, for one game and one of its credentials: the     *)
(* guard that resolves the bearer credential through a positive cache, the *)
(* brake on memory and queue depth, the token bucket of the game, and the  *)
(* enqueue that the 200 waits for; beside it the revocation of the         *)
(* credential.                                                             *)
(*                                                                         *)
(* A request occupies a slot and is cut at every await of its handler.     *)
(* The unit of time is longer than a request and than the cache of the     *)
(* brake's verdict: Tick waits until every slot is free.  A time is kept   *)
(* as the units elapsed since, up to the last that tells anything apart.   *)
(***************************************************************************)
EXTENDS Integers, FiniteSetsExt

CONSTANTS
    Rows,       \* events of the caller
    Slots,      \* requests the door can be busy with
    None,       \* no value: nothing cached, not revoked, no request
    CacheTtl,   \* CACHE_TTL_MS, in units
    Rate,       \* ingest_events_per_sec_cap, in events per unit; 0 is unlimited
    Burst,      \* INGEST_RATE_BURST_EVENTS
    MaxTrouble  \* bound: failures of Redis and answers lost on the way

ASSUME DoorAssumption ==
    /\ CacheTtl \in Nat \ {0} /\ Rate \in Nat /\ Burst \in Nat \ {0}
    /\ MaxTrouble \in Nat
    /\ None \notin Slots /\ None \notin Nat

VARIABLES
    door,       \* per slot: where its request is, its events, its answer
    cached,     \* resolver: age of the positive cache entry
    revoked,    \* Postgres: units since revoked_at
    tokens,     \* Redis: tokens of the bucket, when last touched
    idle,       \* units since then
    queued,     \* BullMQ: events of the jobs added
    trouble,    \* bound
    servedLate  \* history: the guard let a request pass a lifetime of the cache after the
                \* credential was revoked

doorVars == <<door, cached, revoked, tokens, idle, queued, trouble, servedLate>>
bucket == <<tokens, idle>>

Closed == [pc |-> "free", ids |-> {}, status |-> 0]
Busy == {s \in Slots : door[s].pc # "free"}

DoorInit ==
    /\ door = [s \in Slots |-> Closed]
    /\ cached = None /\ revoked = None
    /\ tokens = Burst /\ idle = 0 /\ queued = {}
    /\ trouble = 0 /\ servedLate = FALSE

Goto(s, step) == door' = [door EXCEPT ![s].pc = step]
Answer(s, status) == door' = [door EXCEPT ![s].pc = "answered", ![s].status = status]
Serve == servedLate' = (servedLate \/ revoked = CacheTtl)

-----------------------------------------------------------------------------
(* one request *)

Fresh == cached \in 0 .. CacheTtl - 1

\* Mutated form of CacheHit: a hit renews the entry.
CacheHitRenewing(s) ==
    /\ door[s].pc = "auth" /\ Fresh
    /\ cached' = 0
    /\ Serve /\ Goto(s, "shed")
    /\ UNCHANGED <<revoked, bucket, queued, trouble>>

CacheHit(s) ==
    /\ door[s].pc = "auth" /\ Fresh
    /\ Serve /\ Goto(s, "shed")
    /\ UNCHANGED <<cached, revoked, bucket, queued, trouble>>

\* The credential is read from Postgres; an unknown or revoked one is not cached.
Lookup(s) ==
    /\ door[s].pc = "auth" /\ ~Fresh
    /\ IF revoked = None THEN Goto(s, "found") ELSE Answer(s, 401)
    /\ UNCHANGED <<cached, revoked, bucket, queued, trouble, servedLate>>

\* It may have been revoked since it was read.
Remember(s) ==
    /\ door[s].pc = "found"
    /\ cached' = 0
    /\ Serve /\ Goto(s, "shed")
    /\ UNCHANGED <<revoked, bucket, queued, trouble>>

\* The verdict follows the memory, the backlog or an unreachable Redis, as they are or as
\* they were a quarter of a second ago: a free choice.
Shed(s) ==
    /\ door[s].pc = "shed"
    /\ Answer(s, 503) \/ Goto(s, "rate")
    /\ UNCHANGED <<cached, revoked, bucket, queued, trouble, servedLate>>

Level == Min({Burst, tokens + idle * Rate})

\* A batch above the burst is admitted by a full bucket.
Cost(n) == Min({n, Burst})

Admit(s) ==
    /\ door[s].pc = "rate"
    /\ LET cost == Cost(Cardinality(door[s].ids)) IN
       IF Rate = 0 THEN Goto(s, "add") /\ UNCHANGED bucket
       ELSE /\ idle' = 0
            /\ IF Level >= cost
               THEN tokens' = Level - cost /\ Goto(s, "add")
               ELSE tokens' = Level /\ Answer(s, 429)
    /\ UNCHANGED <<cached, revoked, queued, trouble, servedLate>>

Add(s) ==
    /\ door[s].pc = "add"
    /\ queued' = queued \cup door[s].ids
    /\ Answer(s, 200)
    /\ UNCHANGED <<cached, revoked, bucket, trouble, servedLate>>

\* Mutated form of AddFails: the failure is swallowed and the batch acknowledged.
AddFailsSilently(s) ==
    /\ door[s].pc = "add" /\ trouble < MaxTrouble
    /\ trouble' = trouble + 1
    /\ queued' \in {queued, queued \cup door[s].ids}
    /\ Answer(s, 200)
    /\ UNCHANGED <<cached, revoked, bucket, servedLate>>

\* The tokens are spent; the job may have been added for all that.
AddFails(s) ==
    /\ door[s].pc = "add" /\ trouble < MaxTrouble
    /\ trouble' = trouble + 1
    /\ queued' \in {queued, queued \cup door[s].ids}
    /\ Answer(s, 500)
    /\ UNCHANGED <<cached, revoked, bucket, servedLate>>

-----------------------------------------------------------------------------
(* beside the requests *)

\* revokeServerCredential and retireGame write revoked_at and leave the cache alone.
Revoke ==
    /\ revoked = None
    /\ revoked' = 0
    /\ UNCHANGED <<door, cached, bucket, queued, trouble, servedLate>>

\* Another client of the same game draws a token.
OthersDraw ==
    /\ Rate > 0 /\ Level >= 1
    /\ tokens' = Level - 1 /\ idle' = 0
    /\ UNCHANGED <<door, cached, revoked, queued, trouble, servedLate>>

Older(age, limit) == IF age = None THEN None ELSE Min({age + 1, limit})

DoorTick ==
    /\ Busy = {}
    /\ cached' = Older(cached, CacheTtl)
    /\ revoked' = Older(revoked, CacheTtl)
    /\ idle' = Min({idle + 1, Burst})
    /\ UNCHANGED <<door, tokens, queued, trouble, servedLate>>

DoorNext ==
    \/ \E s \in Slots :
        CacheHit(s) \/ Lookup(s) \/ Remember(s) \/ Shed(s) \/ Admit(s) \/ Add(s) \/ AddFails(s)
    \/ Revoke

-----------------------------------------------------------------------------

\* Every variable of the door keeps its type.
DoorTypeOK ==
    /\ door \in [Slots -> [pc : {"free", "auth", "found", "shed", "rate", "add", "answered"},
                           ids : SUBSET Rows, status : {0, 200, 401, 429, 500, 503}]]
    /\ cached \in 0 .. CacheTtl \cup {None} /\ revoked \in 0 .. CacheTtl \cup {None}
    /\ tokens \in 0 .. Burst /\ idle \in 0 .. Burst
    /\ queued \subseteq Rows
    /\ trouble \in 0 .. MaxTrouble
    /\ servedLate \in BOOLEAN

\* credential-resolver: a revoked credential stops working within one lifetime of the
\* cache, whether its entry was there already or is filled by a request that read the
\* credential just before it was revoked.
RevocationTakesEffect == ~servedLate
=============================================================================
