------------------------------ MODULE MCKernel ------------------------------
(* Small instances of Kernel for TLC. *)
EXTENDS Kernel

CONSTANTS p1, p2, p3, R1, A1

UnaInstancia == [r \in Recursos |-> 1]

Simetria == Permutations(Pid)

=============================================================================
