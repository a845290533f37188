------------------------------ MODULE MCPrivet ------------------------------
(* Instances of Privet for TLC. *)
EXTENDS Privet

CONSTANTS p1, p2
=============================================================================
