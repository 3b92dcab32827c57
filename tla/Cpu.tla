-------------------------------- MODULE Cpu ---------------------------------
(***************************************************************************)
(* The cpu process: a context arrives from the kernel, its instructions    *)
(* are fetched, decoded and executed one after the other until one has to  *)
(* be done by the kernel or fails, and the context goes back.  The MMU     *)
(* translates with the segment table that came with the context.  The      *)
(* module has the actions of the CPU; who takes part in them (memoria, the *)
(* kernel) is said where it is composed.                                   *)
(***************************************************************************)
EXTENDS Integers, Sequences

CONSTANTS
    Registros,      \* their names
    TamRegistro,    \* get_sizeof_register: cells of each
    TamMaxSegmento  \* TAM_MAX_SEGMENTO

VARIABLES
    fase,           \* where process_client is
    contexto,       \* t_pcontexto: pid, program counter and segment table
    cpu_registers,
    instruccion,    \* instruccionSiguiente: what fetch took, with its logical address
    desalojo        \* t_pcontexto_desalojo on its way to the kernel

vars == <<fase, contexto, cpu_registers, instruccion, desalojo>>

\* "espera": get_package; "fetch" and "execute": a cycle; "desalojo": the context is
\* on its way back; "caida": the process is dead.
Fases == {"espera", "fetch", "execute", "desalojo", "caida"}

nada == [op |-> "nada"]
Movs == {"MOV_IN", "MOV_OUT"}
Files == {"F_READ", "F_WRITE"}

\* set_registers_zero
registros_en_cero == [r \in Registros |-> [i \in 1..TamRegistro[r] |-> 0]]

Init ==
    /\ fase = "espera"
    /\ contexto = nada
    /\ cpu_registers = registros_en_cero
    /\ instruccion = nada
    /\ desalojo = nada

-----------------------------------------------------------------------------
(* mmu.c and the checks of decode                                          *)

get_num_segmento(dir) == dir \div TamMaxSegmento
get_desplazamiento_segmento(dir) == dir % TamMaxSegmento

\* get_by_num_segmento; none is its NULL.
get_by_num_segmento(n, tabla) == {s \in tabla : s.id = n}

get_direccion_fisica(dir, tabla) ==
    LET s == CHOOSE s \in get_by_num_segmento(get_num_segmento(dir), tabla) : TRUE
    IN s.base + get_desplazamiento_segmento(dir)

\* What the instruction reads or writes at its logical address.
Tamanio(i) == IF i.op \in Movs THEN TamRegistro[i.reg] ELSE i.cant

SegmentoNulo(i) ==
    /\ i.op \in Movs \cup Files
    /\ get_by_num_segmento(get_num_segmento(i.dir), contexto.tabla) = {}

\* Mutant: a last cell just past the segment goes through.
chequear_seg_faultHolgado(i) ==
    \E s \in get_by_num_segmento(get_num_segmento(i.dir), contexto.tabla) :
        Tamanio(i) + get_desplazamiento_segmento(i.dir) > s.size + 1

\* chequear_seg_fault_movs, checkear_seg_fault
chequear_seg_fault(i) ==
    \E s \in get_by_num_segmento(get_num_segmento(i.dir), contexto.tabla) :
        Tamanio(i) + get_desplazamiento_segmento(i.dir) > s.size

chequear_seg_fault_segment_size(i) == i.size > TamMaxSegmento

seg_fault(i) ==
    \/ i.op \in Movs \cup Files /\ chequear_seg_fault(i)
    \/ i.op = "CREATE_SEGMENT" /\ chequear_seg_fault_segment_size(i)

\* The address decode puts in the place of the logical one.
Fisica(i) == get_direccion_fisica(i.dir, contexto.tabla)

\* decode got through: the segment is there and the access inside it.
Decodificada(i) == ~SegmentoNulo(i) /\ ~seg_fault(i)

-----------------------------------------------------------------------------
(* Contexts in and out (server_handle.c)                                   *)

\* PCONTEXTO: registers_duplicate into the CPU, then execute_process.
recibir_contexto(p, pc, regs, tabla) ==
    /\ contexto' = [pid |-> p, pc |-> pc, tabla |-> tabla]
    /\ cpu_registers' = regs
    /\ instruccion' = nada
    /\ desalojo' = nada
    /\ fase' = "fetch"

\* stop_exec, and what process_client does with its result: the registers that
\* go back are the ones of the CPU.  The motive of a file operation carries the
\* physical address.
stop_exec(i, status) ==
    /\ fase' = "desalojo"
    /\ desalojo' = [op |-> i.op, motivo |-> i, status |-> status, pid |-> contexto.pid,
                    pc |-> contexto.pc, registers |-> cpu_registers,
                    fisica |-> IF i.op \in Files THEN Fisica(i) ELSE 0]
    /\ UNCHANGED <<contexto, cpu_registers, instruccion>>

\* The kernel has taken the context; process_client waits for the next one.
esperar_contexto ==
    /\ fase' = "espera"
    /\ contexto' = nada
    /\ instruccion' = nada
    /\ desalojo' = nada
    /\ UNCHANGED cpu_registers

-----------------------------------------------------------------------------
(* The cycle (instruction_cycle.c, instrutions.c)                          *)

fetch(i) ==
    /\ fase = "fetch"
    /\ instruccion' = i
    /\ contexto' = [contexto EXCEPT !.pc = @ + 1]
    /\ fase' = "execute"
    /\ UNCHANGED <<cpu_registers, desalojo>>

\* memcpy over the start of the register: a shorter value leaves its end as it was.
Copiar(r, datos) ==
    [cpu_registers EXCEPT ![r] = datos \o SubSeq(@, Len(datos) + 1, Len(@))]

SET ==
    /\ fase = "execute" /\ instruccion.op = "SET"
    /\ cpu_registers' = Copiar(instruccion.reg, instruccion.datos)
    /\ fase' = "fetch"
    /\ UNCHANGED <<contexto, instruccion, desalojo>>

\* INFO with the cells read, or an error of memoria, which is a SEGMENTATION_FAULT.
MOV_IN(leido) ==
    /\ fase = "execute" /\ instruccion.op = "MOV_IN" /\ Decodificada(instruccion)
    /\ IF leido = <<>>
       THEN stop_exec(instruccion, "SEGMENTATION_FAULT")
       ELSE /\ cpu_registers' = Copiar(instruccion.reg, leido)
            /\ fase' = "fetch"
            /\ UNCHANGED <<contexto, instruccion, desalojo>>

\* STATUS_CODE of the write.
MOV_OUT(escrito) ==
    /\ fase = "execute" /\ instruccion.op = "MOV_OUT" /\ Decodificada(instruccion)
    /\ IF ~escrito
       THEN stop_exec(instruccion, "SEGMENTATION_FAULT")
       ELSE /\ fase' = "fetch"
            /\ UNCHANGED <<contexto, cpu_registers, instruccion, desalojo>>

\* The instructions the kernel does: I_O, F_OPEN, ..., EXIT.
Entregar ==
    /\ fase = "execute" /\ instruccion.op \notin Movs \cup {"SET"}
    /\ Decodificada(instruccion)
    /\ stop_exec(instruccion, "SUCCESS")

\* A fault seen in decode: of a MOV, or of a segment larger than the maximum.
DesalojarPorFalla ==
    /\ fase = "execute" /\ ~SegmentoNulo(instruccion) /\ seg_fault(instruccion)
    /\ instruccion.op \notin Files
    /\ stop_exec(instruccion, IF instruccion.op = "CREATE_SEGMENT"
                              THEN "OUT_OF_MEMORY" ELSE "SEGMENTATION_FAULT")

\* The checks read the size of a segment that is not there; after a fault of a
\* file operation the cycle reads parameters that the translation dropped.
Caer ==
    /\ fase = "execute"
    /\ \/ SegmentoNulo(instruccion)
       \/ instruccion.op \in Files /\ seg_fault(instruccion)
    /\ fase' = "caida"
    /\ UNCHANGED <<contexto, cpu_registers, instruccion, desalojo>>
=============================================================================
