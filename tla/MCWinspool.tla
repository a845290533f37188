----------------------------- MODULE MCWinspool -----------------------------
(* Instances of Winspool for TLC. *)
EXTENDS Winspool

CONSTANTS j1, j2
=============================================================================
