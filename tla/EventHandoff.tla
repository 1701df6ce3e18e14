---------------------------- MODULE EventHandoff ----------------------------
(***************************************************************************)
(* What the client SDK promises the game that calls it: an event it has    *)
(* accepted is held until the server has taken it, or is given up on       *)
(* purpose (queue overflow, age, a refusal that can never succeed).  It is *)
(* never both gone and unaccounted for, and it does not come back.         *)
(***************************************************************************)
CONSTANT Messages

VARIABLES held,       \* accepted and in the queue
          taken,      \* taken by the server, once or more often
          givenUp     \* no longer kept, taken or not

vars == <<held, taken, givenUp>>

Init == held = {} /\ taken = {} /\ givenUp = {}

\* An event is accepted; the oldest ones may make room for it.
Accept(m, evicted) ==
    /\ m \notin held \cup taken \cup givenUp
    /\ evicted \subseteq held
    /\ held' = (held \ evicted) \cup {m}
    /\ givenUp' = givenUp \cup evicted
    /\ UNCHANGED taken

\* A request reaches the server; it may repeat what an earlier one brought.
Take(ms) ==
    /\ ms \subseteq held \cup taken \cup givenUp
    /\ taken' = taken \cup ms
    /\ UNCHANGED <<held, givenUp>>

\* The server's answer is known.
Release(ms) ==
    /\ ms \subseteq held \cap taken
    /\ held' = held \ ms
    /\ UNCHANGED <<taken, givenUp>>

GiveUp(ms) ==
    /\ ms \cap taken \subseteq held \cup givenUp
    /\ held' = held \ ms
    /\ givenUp' = givenUp \cup ms
    /\ UNCHANGED taken

Next == \E ms \in SUBSET Messages :
            \/ \E m \in Messages : Accept(m, ms)
            \/ Take(ms)
            \/ Release(ms)
            \/ GiveUp(ms)

Spec == Init /\ [][Next]_vars
=============================================================================
