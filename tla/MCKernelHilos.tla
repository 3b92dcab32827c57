---------------------------- MODULE MCKernelHilos ----------------------------
(***************************************************************************)
(* Instance of KernelHilos for TLC.                                        *)
(***************************************************************************)
EXTENDS KernelHilos

CONSTANTS p1, p2, R1, A1

UnaInstancia == [r \in Recursos |-> 1]

\* Everything is shared.
TodoCompartido == [p \in Pid |-> TRecurso \cup {"I_O"}]
=============================================================================
