------------------------------ MODULE MCUserSpine ------------------------------
(***************************************************************************)
(* Instances of SpineRead for TLC.  A day is four ticks and seals four     *)
(* ticks after its end.  Session sa of user u1 and sb of u2 start on day 0, *)
(* and sb runs into day 1; sd of u1 is on day 3, its clock two ticks       *)
(* behind; sn without a user lasts from day 0 into day 3.                  *)
(***************************************************************************)
EXTENDS SpineRead, TLC

CONSTANTS sa, sb, sd, sn, u1, u2

At(start, end, sent, received) ==
    [start |-> start, end |-> end, sent |-> sent, received |-> received]

Owners == (sa :> u1 @@ sb :> u2 @@ sd :> u1 @@ sn :> None)
OwnerOf == [s \in Sessions |-> Owners[s]]

Sent == (sa :> At(0, 1, 1, 1) @@ sb :> At(1, 4, 4, 4)
         @@ sd :> At(9, 10, 10, 12) @@ sn :> At(2, 12, 12, 12))
SentOf == [s \in Sessions |-> Sent[s]]

\* A platform west of Greenwich.
MinusOne == -1
=============================================================================
