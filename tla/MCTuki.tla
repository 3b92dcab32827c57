------------------------------- MODULE MCTuki -------------------------------
(* Small instances of Tuki: the registers and the instructions of the programs. *)
EXTENDS Tuki, TLC

\* AX has four bytes and EAX eight, in cells of four.
MCTamRegistro == [AX |-> 1, EAX |-> 2]

Simetria == Permutations(Pid)

\* With TAM_MAX_SEGMENTO 2 segment 1 is at the logical addresses 2 and 3, segment 2
\* at 4 and 5; segment_0 is at 0.  The third segment is one more than CANT_SEGMENTOS
\* lets a process have, the size 3 more than TAM_MAX_SEGMENTO.
Movs == {[op |-> "MOV_OUT", reg |-> "EAX", dir |-> 2], [op |-> "MOV_IN", reg |-> "AX", dir |-> 2]}
Crear == {[op |-> "CREATE_SEGMENT", id |-> x[1], size |-> x[2]] :
             x \in {<<1, 1>>, <<1, 2>>, <<2, 1>>, <<3, 1>>, <<3, 3>>}}
Borrar == {[op |-> "DELETE_SEGMENT", id |-> 1]}
Archivos == {[op |-> o, dir |-> 4, cant |-> 1] : o \in {"F_READ", "F_WRITE"}}
Otras == {[op |-> "SET", reg |-> "EAX", datos |-> <<1>>], [op |-> "YIELD"], EXIT}

MCInstrucciones == Movs \cup Crear \cup Borrar \cup Archivos \cup Otras

\* They are programs that the refinement theorem speaks of.
ASSUME InstanciaTipada == ProgramasTipados
=============================================================================
