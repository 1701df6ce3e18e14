-------------------------- MODULE MCClientSession ---------------------------
(* Instances of ClientSession for TLC: the calls are model values. *)
EXTENDS ClientSession

=============================================================================
