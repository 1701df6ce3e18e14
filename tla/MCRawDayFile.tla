------------------------------ MODULE MCRawDayFile ------------------------------
(***************************************************************************)
(* Instances of RawDayFile for TLC: a few records of one day's file; a cfg *)
(* says which of them are accepted and which failures may happen.          *)
(***************************************************************************)
EXTENDS RawDayFile, TLC

CONSTANTS r1, r2

=============================================================================
