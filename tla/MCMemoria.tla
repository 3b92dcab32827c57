----------------------------- MODULE MCMemoria ------------------------------
(* Small instances of Memoria for TLC. *)
EXTENDS Memoria

CONSTANTS p1, p2
=============================================================================
