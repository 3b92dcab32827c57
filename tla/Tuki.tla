-------------------------------- MODULE Tuki --------------------------------
(***************************************************************************)
(* Kernel, CPU, memoria and the memory side of the filesystem together: a  *)
(* process runs on the CPU with a copy of the registers and of the segment *)
(* table that its PCB has, the table of the PCB is a copy of the one of    *)
(* memoria, and the address of a file operation is translated long before  *)
(* the filesystem uses it.  The actions of CPU and memoria are those of    *)
(* their modules; of the kernel there is here what moves contexts, tables  *)
(* and addresses (queues, resources and files are in Kernel).              *)
(***************************************************************************)
EXTENDS Integers, FiniteSets, SequencesExt

CONSTANTS
    Pid, Ids, Sizes, Valores, TamMemoria, TamSegmento0, CantSegmentos,
    Algoritmos, IdsPropios,                          \* see Memoria
    Registros, TamRegistro, TamMaxSegmento,          \* see Cpu
    Instrucciones,  \* what programs are made of
    MaxInstrucciones,\* instructions of a program; its last one is EXIT
    EsperaArchivos  \* no compaction begins while a file operation is pending

ASSUME TukiAssumption ==
    /\ Ids \subseteq Nat \ {0}
    /\ Sizes \subseteq Nat \ {0}
    /\ 0 \in Valores
    /\ TamSegmento0 \in Nat \ {0}
    /\ TamMemoria \in Nat /\ TamSegmento0 <= TamMemoria
    /\ CantSegmentos \in Nat
    /\ TamRegistro \in [Registros -> Nat \ {0}]
    /\ TamMaxSegmento \in Nat \ {0}

VARIABLES
    algoritmo, tablas, segs, ocupado, mem, mfase, pedido, respuesta,   \* memoria
    cfase, contexto, cpu_registers, instruccion, desalojo,             \* cpu
    pcb,        \* state, registers, program counter and segment table of each process
    tarea,      \* the file operation a thread of the kernel has for it
    archivo     \* what the last F_WRITE took from memory, until the next fetch

M == INSTANCE Memoria WITH fase <- mfase
C == INSTANCE Cpu WITH fase <- cfase

mvars == <<algoritmo, tablas, segs, ocupado, mem, mfase, pedido, respuesta>>
cvars == <<cfase, contexto, cpu_registers, instruccion, desalojo>>
kvars == <<pcb, tarea, archivo>>
vars == <<mvars, cvars, kvars>>

EXIT == [op |-> "EXIT"]
nada == [op |-> "nada"]

\* segment_0 heads every table.
segment_0 == [id |-> 0, base |-> 0, size |-> TamSegmento0]
Tabla(s) == {segment_0} \cup {[id |-> x.id, base |-> x.base, size |-> x.size] : x \in s}

pcb_create == [estado |-> "NEW", pc |-> 0, registers |-> C!registros_en_cero,
               tabla |-> {}, next_queue |-> "READY"]

Init ==
    /\ M!Init /\ C!Init
    /\ pcb = [p \in Pid |-> pcb_create]
    /\ tarea = [p \in Pid |-> nada]
    /\ archivo = <<>>

En(e) == {p \in Pid : pcb[p].estado = e}

-----------------------------------------------------------------------------
(* Processes in and out (kernel_cycle.c, kernel_core.c)                    *)

\* request_t_segment
Admitir(p) ==
    /\ p \in En("NEW")
    /\ M!create_segments_table(p)
    /\ pcb' = [pcb EXCEPT ![p].estado = "READY", ![p].tabla = Tabla({})]
    /\ UNCHANGED <<cvars, tarea, archivo>>

\* send_pcb_to_cpu, of the PCB as this step leaves it; nobody reads if the CPU is dead.
send_pcb_to_cpu(p, b) ==
    IF cfase = "caida" THEN UNCHANGED cvars
    ELSE C!recibir_contexto(p, b.pc, b.registers, b.tabla)

Despachar(p) ==
    /\ En("EXEC") = {} /\ p \in En("READY")
    /\ pcb' = [pcb EXCEPT ![p].estado = "EXEC"]
    /\ send_pcb_to_cpu(p, pcb[p])
    /\ UNCHANGED <<mvars, tarea, archivo>>

\* EXIT: PROCESS_END to memoria; the PCB is not used again.
Terminar(p) ==
    /\ M!delete_segments_table(p)
    /\ pcb' = [pcb EXCEPT ![p] = [pcb_create EXCEPT !.estado = "EXIT"]]

-----------------------------------------------------------------------------
(* The CPU runs                                                            *)

\* Programs end in EXIT, delete what they have and create what they have not.
Programa(p, i) ==
    /\ contexto.pc = MaxInstrucciones - 1 => i = EXIT
    /\ i.op = "CREATE_SEGMENT" =>
         \A s \in segs : s.id = i.id => s.pid # p /\ ~IdsPropios
    /\ i.op = "DELETE_SEGMENT" => \E s \in M!DeProceso(p) : s.id = i.id

Fetch ==
    /\ \E i \in Instrucciones : C!fetch(i) /\ Programa(contexto.pid, i)
    /\ archivo' = <<>>
    /\ UNCHANGED <<mvars, pcb, tarea>>

Ciclo ==
    /\ C!SET \/ C!Entregar \/ C!DesalojarPorFalla \/ C!Caer
    /\ UNCHANGED <<mvars, kvars>>

\* The thread of memoria that serves the CPU answers while the CPU waits.
Leer ==
    /\ C!MOV_IN(M!read_memory(C!Fisica(instruccion), TamRegistro[instruccion.reg]))
    /\ UNCHANGED <<mvars, kvars>>

Escribir ==
    /\ C!MOV_OUT(M!get_pid_by_address(C!Fisica(instruccion)) # {})
    /\ M!write_memory(C!Fisica(instruccion), cpu_registers[instruccion.reg])
    /\ UNCHANGED kvars

-----------------------------------------------------------------------------
(* The kernel takes the context back (EXEC, process_pcontexto_desalojo)    *)

update_pcb(p) == [pcb[p] EXCEPT !.pc = desalojo.pc, !.registers = desalojo.registers]

Recibido(p, op) ==
    /\ p \in En("EXEC") /\ cfase = "desalojo"
    /\ desalojo.status = "SUCCESS" /\ desalojo.op = op

\* The handler asks for another queue.
Soltar(p, b, cola) ==
    /\ pcb' = [pcb EXCEPT ![p] = [b EXCEPT !.estado = cola, !.next_queue = cola]]
    /\ C!esperar_contexto

\* The handler answers true: EXEC again, with the PCB as it left it.
Seguir(p, b) ==
    /\ pcb' = [pcb EXCEPT ![p] = b]
    /\ send_pcb_to_cpu(p, b)

execute_yield(p) ==
    /\ Recibido(p, "YIELD")
    /\ Soltar(p, update_pcb(p), "READY")
    /\ UNCHANGED <<mvars, tarea, archivo>>

\* The instruction EXIT, or any status of the CPU that is not SUCCESS.
execute_exit(p) ==
    /\ p \in En("EXEC") /\ cfase = "desalojo"
    /\ desalojo.status # "SUCCESS" \/ desalojo.op = "EXIT"
    /\ Terminar(p)
    /\ C!esperar_contexto
    /\ UNCHANGED <<tarea, archivo>>

\* receive_pcontext_from_cpu gives NULL.
SinCpu(p) ==
    /\ p \in En("EXEC") /\ cfase = "caida"
    /\ Terminar(p)
    /\ UNCHANGED <<cvars, tarea, archivo>>

\* The handlers of F_READ and F_WRITE start a thread with the address of the CPU.
execute_file(p) ==
    /\ Recibido(p, "F_READ") \/ Recibido(p, "F_WRITE")
    /\ tarea' = [tarea EXCEPT ![p] = [op |-> desalojo.op, fase |-> "pendiente",
                                      orden |-> desalojo.motivo, fisica |-> desalojo.fisica]]
    /\ Soltar(p, update_pcb(p), "BLOCK")
    /\ UNCHANGED <<mvars, archivo>>

Pendientes == {p \in Pid : tarea[p] # nada}

\* Mutant: the new segment is left out of the table of the PCB.
ConSegmentoNulo(p, b) == b

ConSegmento(p, b) ==
    [b EXCEPT !.tabla = @ \cup Tabla({s \in segs' \ segs : s.pid = p})]

\* The answer of memoria decides: the new segment joins the table and the process
\* goes on; OUT_OF_MEMORY ends it; MAX_SEG_QUANTITY_REACHED leaves the queue that
\* an earlier handler chose; COMPACTATION_REQUIRED starts compactar and comes back.
execute_create_segment(p) ==
    /\ Recibido(p, "CREATE_SEGMENT")
    /\ LET q == [pid |-> p, id |-> desalojo.motivo.id, size |-> desalojo.motivo.size] IN
       /\ EsperaArchivos /\ M!Huecos(ocupado, q.size) = {} => Pendientes = {}
       /\ M!create_segment(q)
    /\ \/ /\ respuesta' = "SEGMENTO"
          /\ Seguir(p, ConSegmento(p, update_pcb(p)))
       \/ /\ respuesta' = "MAX_SEG_QUANTITY_REACHED"
          /\ Soltar(p, update_pcb(p), pcb[p].next_queue)
       \/ /\ respuesta' = "COMPACTATION_REQUIRED"
          /\ pcb' = [pcb EXCEPT ![p] = update_pcb(p)]
          /\ UNCHANGED cvars
    /\ UNCHANGED <<tarea, archivo>>

\* OUT_OF_MEMORY: EXIT follows in the same handler, so PROCESS_END is the next request.
SinMemoria(p) ==
    /\ Recibido(p, "CREATE_SEGMENT")
    /\ mfase = "libre"
    /\ Cardinality(M!DeProceso(p)) + 1 < CantSegmentos
    /\ ~M!is_malloc_possible(desalojo.motivo.size)
    /\ Terminar(p)
    /\ C!esperar_contexto
    /\ UNCHANGED <<tarea, archivo>>

\* The table that memoria answers with replaces the one of the PCB.
execute_delete_segment(p) ==
    /\ Recibido(p, "DELETE_SEGMENT")
    /\ M!delete_segment(p, desalojo.motivo.id)
    /\ Seguir(p, [update_pcb(p) EXCEPT !.tabla = Tabla({s \in segs' : s.pid = p})])
    /\ UNCHANGED <<tarea, archivo>>

-----------------------------------------------------------------------------
(* Compaction (compactar, actualizar_tablas)                               *)

\* mutex_fs_connection is held by the operation the filesystem is doing.
EnFS == {p \in Pid : tarea[p] # nada /\ tarea[p].fase = "enFS"}

Compactar ==
    /\ EnFS = {}
    /\ M!EmpezarCompactacion
    /\ UNCHANGED <<cvars, kvars>>

Mover ==
    /\ M!compact_memory
    /\ UNCHANGED <<cvars, kvars>>

\* Mutant: only the process that asked gets its new table.
actualizar_tablasUna ==
    [p \in Pid |-> IF p \in En("EXEC")
                   THEN [pcb[p] EXCEPT !.tabla = Tabla(M!DeProceso(p))] ELSE pcb[p]]

\* actualizar_tablas: each table of the list goes to the PCB with its pid.
actualizar_tablas ==
    [p \in Pid |-> IF Contains(tablas, p)
                   THEN [pcb[p] EXCEPT !.tabla = Tabla(M!DeProceso(p))] ELSE pcb[p]]

FinCompactar ==
    /\ M!FinCompactacion
    /\ pcb' = actualizar_tablas
    /\ UNCHANGED <<cvars, tarea, archivo>>

-----------------------------------------------------------------------------
(* file_processing, and the filesystem as far as memory is concerned       *)

\* The flag has been looked at before; what is left is to get the mutex.
TomarFS(p) ==
    /\ tarea[p] # nada /\ tarea[p].fase = "pendiente"
    /\ EnFS = {} /\ mfase # "compactando"
    /\ tarea' = [tarea EXCEPT ![p].fase = "enFS"]
    /\ UNCHANGED <<mvars, cvars, pcb, archivo>>

\* F_READ writes to memory what the file has, F_WRITE reads; then the process is
\* moved to READY, whatever memoria answered.
TerminarFS(p) ==
    /\ p \in EnFS
    /\ LET a == tarea[p].fisica
           n == tarea[p].orden.cant
       IN \/ /\ tarea[p].op = "F_READ"
             /\ \E datos \in [1..n -> Valores] : M!write_memory(a, datos)
             /\ UNCHANGED archivo
          \/ /\ tarea[p].op = "F_WRITE"
             /\ archivo' = M!read_memory(a, n)
             /\ UNCHANGED mvars
    /\ tarea' = [tarea EXCEPT ![p] = nada]
    /\ pcb' = [pcb EXCEPT ![p].estado = "READY"]
    /\ UNCHANGED cvars

-----------------------------------------------------------------------------
Next ==
    \/ Fetch \/ Ciclo \/ Leer \/ Escribir
    \/ Compactar \/ Mover \/ FinCompactar
    \/ \E p \in Pid :
         \/ Admitir(p) \/ Despachar(p) \/ SinCpu(p)
         \/ execute_yield(p) \/ execute_exit(p) \/ execute_file(p)
         \/ execute_create_segment(p) \/ SinMemoria(p) \/ execute_delete_segment(p)
         \/ TomarFS(p) \/ TerminarFS(p)

Spec == Init /\ [][Next]_vars

-----------------------------------------------------------------------------
(* Properties                                                              *)

\* Whenever a process may be dispatched, the table of its PCB is the one memoria
\* has: segments created, deleted and moved by a compaction reach every copy before
\* it is used, and the CPU never translates with an old one.
TablaVigente ==
    mfase # "compactando" =>
        /\ \A p \in Pid : pcb[p].estado \in {"READY", "EXEC", "BLOCK"} =>
              pcb[p].tabla = Tabla(M!DeProceso(p))
        /\ cfase \in {"fetch", "execute"} => contexto.tabla = Tabla(M!DeProceso(contexto.pid))

\* The physical address the operation of p has is the one of its logical address now.
Vigente(p) == tarea[p].fisica = C!get_direccion_fisica(tarea[p].orden.dir, Tabla(M!DeProceso(p)))

\* The physical address a file operation waits with is still the one of the logical
\* address its program gave.
DireccionVigente ==
    \A p \in Pid : tarea[p] # nada /\ mfase # "compactando" => Vigente(p)

\* An operation starts with the right address, and nothing that the other processes
\* do (segments, ends, operations of their own) makes it wrong but a compaction; and
\* not even that once the filesystem works with it, which is what the mutex is for.
SoloCompactarDesactualiza ==
    [][\A p \in Pid :
         /\ tarea[p] = nada /\ tarea'[p] # nada => Vigente(p)'
         /\ tarea[p] # nada /\ tarea'[p] # nada /\ Vigente(p) =>
              Vigente(p)' \/ (mfase = "compactando" /\ p \notin EnFS)]_vars

EnCpu(p) == cfase # "espera" /\ contexto.pid = p /\ pcb[p].estado = "EXEC"

\* Wherever a process is, what it would see of itself.
vivos == {p \in Pid : pcb[p].estado \notin {"NEW", "EXIT"}}
pc == [p \in Pid |-> IF EnCpu(p) THEN contexto.pc ELSE pcb[p].pc]
orden == [p \in Pid |-> IF EnCpu(p) /\ cfase # "fetch" THEN instruccion
                        ELSE IF tarea[p] # nada THEN tarea[p].orden ELSE nada]
regs == [p \in Pid |-> IF ~EnCpu(p) THEN pcb[p].registers
                       ELSE IF cfase = "desalojo" THEN desalojo.registers ELSE cpu_registers]
Celdas(m, s) == [i \in 1..s.size |-> m[s.base + i - 1]]
contenido == [k \in {<<s.pid, s.id>> : s \in segs} |->
                Celdas(mem, CHOOSE s \in segs : <<s.pid, s.id>> = k)]
comun == Celdas(mem, segment_0)
rota == cfase = "caida"

Maquina == INSTANCE MaquinaAbs WITH
    vivos <- vivos, pc <- pc, orden <- orden, regs <- regs,
    contenido <- contenido, comun <- comun, rota <- rota

\* The instructions that reach memoria through a logical address.
Accesos == {"MOV_IN", "MOV_OUT", "F_READ", "F_WRITE"}

\* Programs name registers that there are, give SET no value longer than its register
\* and ask for segments with the ids and sizes of the instance.
ProgramasTipados ==
    \A i \in Instrucciones :
        /\ i.op \in Accesos => i.dir \in Nat
        /\ i.op \in {"MOV_IN", "MOV_OUT", "SET"} => i.reg \in Registros
        /\ i.op \in {"F_READ", "F_WRITE"} => i.cant \in Nat
        /\ i.op = "SET" => i.datos \in Seq(Valores) /\ Len(i.datos) <= TamRegistro[i.reg]
        /\ i.op = "CREATE_SEGMENT" =>
             i.id \in Ids /\ i.size \in Nat /\ (i.size <= TamMaxSegmento => i.size \in Sizes)

\* Every program runs as on a machine of its own: contexts, tables, translation,
\* compactions and the other processes change nothing it can see.
ImplementaMaquina == Maquina!Spec
=============================================================================
