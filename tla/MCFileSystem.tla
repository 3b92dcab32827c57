---------------------------- MODULE MCFileSystem ----------------------------
(* Small instances of FileSystem for TLC. *)
EXTENDS FileSystem

CONSTANTS A1, A2, MaxAcceso

\* Every access to a file of MaxAcceso bytes.
TodosLosAccesos == [puntero : 0..(MaxAcceso - 1), cant : 1..MaxAcceso]

\* A content for each length, with no period a misplaced copy could hide in.
Patron == <<1, 1, 0, 1, 0, 0, 0, 1, 1, 1, 0, 1>>
Patrones ==
    {IF n % 2 = 0 THEN SubSeq(Patron, 1, n) ELSE [i \in 1..n |-> 1 - Patron[i]] : n \in 1..MaxAcceso}

\* Accesses of less than a block, a block and more, from the ends and the middle of
\* blocks; the last two are the shortest that go right with four and five blocks.
AlgunosAccesos ==
    {[puntero |-> a[1], cant |-> a[2]] : a \in {<<1, 5>>, <<3, 7>>, <<2, 10>>}}

Ceros == {[i \in 1..n |-> 0] : n \in 1..MaxAcceso}

\* What the next steps and the invariants on blocks depend on: not the answer, nor
\* the old pointers in a block that no FCB names, which are overwritten before use.
Vigente ==
    LET indirectos == {fcb[f].indirecto : f \in existe}
                        \cup (IF op = ninguna THEN {} ELSE {op.c.indirecto})
    IN <<existe, fcb, bitmap, [b \in Bloques \cap indirectos |-> punt[b]], datos, op, paro, caida>>

Simetria == Permutations(Archivos)

=============================================================================
