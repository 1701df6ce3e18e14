---------------------------- MODULE MCServerSdk -----------------------------
(* Instances of ServerSdk for TLC. *)
EXTENDS ServerSdk, TLC
=============================================================================
