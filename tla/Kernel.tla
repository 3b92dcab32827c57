------------------------------- MODULE Kernel -------------------------------
(***************************************************************************)
(* The kernel process of TUKI: the five queues, the core thread that       *)
(* admits and dispatches, one client thread per console, the threads that  *)
(* finish an I/O or a file operation, and EXIT, which the core runs, and a *)
(* client thread for a process it could not admit.                         *)
(*                                                                         *)
(* A step is what one thread does between two points where another thread  *)
(* can get in: a queue operation under its mutexes, a handler of           *)
(* kernel_instructions.c up to its next queue move or its next blocking    *)
(* call, one iteration of the loops of EXIT.  The code takes no lock for a *)
(* t_recurso, nor between the head of READY and its move.  Here only the   *)
(* core touches them: no operation on an open file fails, so file_processing*)
(* never runs EXIT, the operator kills nobody, and a process that was not  *)
(* admitted holds nothing.  Module KernelHilos has the other threads that  *)
(* run EXIT, and splits those steps.  Memoria, filesystem and CPU are seen *)
(* through their sockets only.                                             *)
(***************************************************************************)
EXTENDS Integers, FiniteSets, SequencesExt

CONSTANTS
    Pid,            \* the consoles that connect, one process each
    Recursos,       \* RECURSOS of kernel.config
    Archivos,       \* names of files
    Instancias,     \* INSTANCIAS_RECURSOS: [Recursos -> Nat]
    GradoMax,       \* GRADO_MAX_MULTIPROGRAMACION
    Algoritmo,      \* ALGORITMO_PLANIFICACION: "FIFO" or "HRRN"
    Instrucciones,  \* workload: identifiers of the instructions programs use
    MaxSyscalls,    \* bound: system calls of a process before its EXIT
    Disciplinado,   \* programs SIGNAL only what they hold, use only open files
    EsperaAnidada,  \* programs WAIT or F_OPEN while they hold something
    Carrera,        \* another thread may move a process the core is blocking
    FallaCPU,       \* the CPU may answer something else than a context
    FallaFS,        \* the filesystem may refuse to open a file
    Apagado         \* the operator may choose to end the kernel in its menu

Identificadores ==
    {"WAIT", "SIGNAL", "I_O", "YIELD", "F_OPEN", "F_CLOSE", "F_SEEK",
     "F_TRUNCATE", "F_RW", "CREATE_SEGMENT", "DELETE_SEGMENT"}

nadie == "nadie"
core == "core"

ASSUME KernelAssumption ==
    /\ IsFiniteSet(Pid) /\ nadie \notin Pid /\ core \notin Pid
    /\ Recursos \cap Archivos = {}
    /\ Instancias \in [Recursos -> Nat]
    /\ GradoMax \in Nat /\ MaxSyscalls \in Nat
    /\ Algoritmo \in {"FIFO", "HRRN"}
    /\ Instrucciones \subseteq Identificadores
    /\ {Disciplinado, EsperaAnidada, Carrera, FallaCPU, FallaFS, Apagado} \subseteq BOOLEAN

Hilos == Pid \cup {core}                \* threads that run admission
Colas == {"NEW", "READY", "EXEC", "BLOCK", "EXIT"}
TRecurso == Recursos \cup Archivos      \* both are t_recurso
Estados == {"SUCCESS", "SEG_FAULT", "OUT_OF_MEMORY", "INVALID_RESOURCE",
            "FILE_ERROR", "ERROR", "PROCESS_ABORTED"}
RespuestasMem == {"TSEGMENTOS", "SEGMENTO", "LTSEGMENTOS", "OUT_OF_MEMORY",
                  "COMPACTATION_REQUIRED", "MAX_SEG_QUANTITY_REACHED"}

VARIABLES
    cola,         \* the queues: [Colas -> Seq(Pid)]
    next_queue,   \* pcb->next_queue
    exit_status,  \* pcb->exit_status
    open_files,   \* pcb->open_files_table
    shared,       \* pcb->shared_resources
    tabla,        \* whose table pcb->segments_table is
    instancias,   \* t_recurso.instancias
    bloqueados,   \* t_recurso.lista_bloqueados
    abiertos,     \* archivos_abiertos
    pc,           \* where each core or client thread is
    suma,         \* partial sum of get_actual_multiprog
    elegido,      \* the pcb a thread is admitting; the core: the one in EXEC
    anidado,      \* the core is in EXEC(pcb, true)
    mutexNR,      \* mutex_NEW_to_READY
    mutexFS,      \* mutex_fs_connection: its owner
    compactation_flag,
    tareas,       \* threads io and file_processing
    sockMem,      \* replies of memoria not yet received
    enMemoria,    \* processes with a table in memoria
    saliendo,     \* how far EXIT(pcb) is
    syscalls,     \* system calls made
    informado,    \* the status a console was told
    end_program_flag,
    caida         \* the module that crashed

hilosVars == <<pc, suma, elegido, anidado, mutexNR>>
pcbVars   == <<next_queue, exit_status, open_files, shared, tabla>>
recVars   == <<instancias, bloqueados, abiertos>>
fsVars    == <<mutexFS, compactation_flag, tareas>>
memVars   == <<sockMem, enMemoria>>
vars == <<cola, pcbVars, recVars, hilosVars, fsVars, memVars, saliendo,
          syscalls, informado, end_program_flag, caida>>

Etiquetas ==
    {"inactivo", "acepta_ready", "acepta_exec", "acepta_block", "agrega_si",
     "agrega_no", "lock_nr", "mira_new", "cuenta_ready", "cuenta_exec",
     "cuenta_block", "espera_ts", "falla_ts", "exit_new", "espera", "informa",
     "fin", "despacha", "cpu", "espera_seg", "espera_tabla",
     "compacta_lock", "compacta_espera", "reintenta", "mueve", "exit_exec", "exit_otra_vez"}

Tareas == [pid : Pid, tipo : {"io", "file"},
           paso : {"corre", "pide_fs", "en_fs", "ok"}]

TypeColas == cola \in [Colas -> Seq(Pid)]

\* A handler sends its process to READY, BLOCK or EXIT.
TypePcb ==
    /\ next_queue \in [Pid -> {"READY", "BLOCK", "EXIT"}]
    /\ exit_status \in [Pid -> Estados]
    /\ open_files \in [Pid -> Seq(Archivos)]
    /\ shared \in [Pid -> Seq(Recursos)]
    /\ tabla \in [Pid -> Pid]

TypeRec ==
    /\ instancias \in [TRecurso -> Int]
    /\ bloqueados \in [TRecurso -> Seq(Pid)]
    /\ abiertos \subseteq Archivos

TypeHilos ==
    /\ pc \in [Hilos -> Etiquetas]
    /\ suma \in [Hilos -> Nat]
    /\ elegido \in [Hilos -> Pid \cup {nadie}]
    /\ anidado \in BOOLEAN
    /\ mutexNR \in Hilos \cup {nadie}

TypeFs ==
    /\ mutexFS \in Hilos \cup {nadie}
    /\ compactation_flag \in BOOLEAN
    /\ tareas \subseteq Tareas

TypeMem ==
    /\ sockMem \in Seq([op : RespuestasMem, pid : Pid])
    /\ enMemoria \subseteq Pid

TypeOK ==
    /\ TypeColas /\ TypePcb /\ TypeRec /\ TypeHilos /\ TypeFs /\ TypeMem
    /\ end_program_flag \in BOOLEAN
    /\ saliendo \in [Pid -> {"no", "avisar", "archivos", "recursos"}]
    /\ syscalls \in [Pid -> 0..MaxSyscalls]
    /\ informado \in [Pid -> Estados \cup {nadie}]
    /\ caida \in {nadie, "kernel", "memoria"}

InitColas == cola = [c \in Colas |-> <<>>]

InitRecursos ==
    /\ instancias = [r \in TRecurso |-> IF r \in Recursos THEN Instancias[r] ELSE 1]
    /\ bloqueados = [r \in TRecurso |-> <<>>]
    /\ abiertos = {}

\* pcb_create, for each process that will come.
InitPcbs ==
    /\ next_queue = [p \in Pid |-> "READY"]
    /\ exit_status = [p \in Pid |-> "SUCCESS"]
    /\ open_files = [p \in Pid |-> <<>>]
    /\ shared = [p \in Pid |-> <<>>]
    /\ tabla = [p \in Pid |-> p]
    /\ syscalls = [p \in Pid |-> 0]
    /\ saliendo = [p \in Pid |-> "no"]
    /\ informado = [p \in Pid |-> nadie]

\* start_kernel_core, with no console connected yet.
InitHilos ==
    /\ pc = [h \in Hilos |-> IF h = core THEN "lock_nr" ELSE "inactivo"]
    /\ suma = [h \in Hilos |-> 0]
    /\ elegido = [h \in Hilos |-> nadie]
    /\ anidado = FALSE
    /\ mutexNR = nadie

Init ==
    /\ InitColas /\ InitRecursos /\ InitPcbs /\ InitHilos
    /\ mutexFS = nadie
    /\ compactation_flag = FALSE
    /\ tareas = {}
    /\ sockMem = <<>>
    /\ enMemoria = {}
    /\ end_program_flag = FALSE
    /\ caida = nadie
-----------------------------------------------------------------------------
(* Queues and resources (queue_controller.c, kernel_sources.c)             *)

\* move_pcb_from_to.  A pcb that is not in the source queue has index -1,
\* list_remove ignores it, and it is added to the destination all the same.
move_pcb_from_to(p, de, a) ==
    [cola EXCEPT ![de] = RemoveFirst(@, p), ![a] = Append(@, p)]

\* remove_pcb_from_queue_resourse and the move of the process it returns.
\* With nobody waiting it returns NULL, which move_pcb_from_to dereferences.
DespertarPrimero(r) ==
    IF bloqueados[r] = <<>>
    THEN caida' = "kernel" /\ UNCHANGED <<cola, bloqueados>>
    ELSE /\ bloqueados' = [bloqueados EXCEPT ![r] = Tail(@)]
         /\ cola' = move_pcb_from_to(Head(bloqueados[r]), "BLOCK", "READY")
         /\ UNCHANGED caida

\* Mutant: off by one, the file is destroyed under the first process that waits.
LiberarArchivoDeMas(f) ==
    IF instancias[f] + 1 >= 0
    THEN /\ abiertos' = abiertos \ {f}
         /\ instancias' = [instancias EXCEPT ![f] = 1]
         /\ bloqueados' = [bloqueados EXCEPT ![f] = <<>>]
         /\ UNCHANGED <<cola, caida>>
    ELSE /\ instancias' = [instancias EXCEPT ![f] = @ + 1]
         /\ DespertarPrimero(f)
         /\ UNCHANGED abiertos

\* What closing file f does: the last user destroys the t_recurso, any other
\* hands the file to the first process waiting for it.
LiberarArchivo(f) ==
    IF instancias[f] + 1 > 0
    THEN /\ abiertos' = abiertos \ {f}
         /\ instancias' = [instancias EXCEPT ![f] = 1]
         /\ bloqueados' = [bloqueados EXCEPT ![f] = <<>>]
         /\ UNCHANGED <<cola, caida>>
    ELSE /\ instancias' = [instancias EXCEPT ![f] = @ + 1]
         /\ DespertarPrimero(f)
         /\ UNCHANGED abiertos

\* The lookups of a file among all the open ones and among those of a process, and
\* what F_OPEN adds to the table of the process.
buscar_archivo(f) == f \in abiertos
buscar_archivo_abierto(p, f) == Contains(open_files[p], f)
archivo_abierto_create(p, f) == open_files' = [open_files EXCEPT ![p] = Append(@, f)]

\* Where a thread is, and where it goes.  Nothing runs once a module has crashed.
En(h, etiqueta) == caida = nadie /\ pc[h] = etiqueta
EnExit(p, paso) == caida = nadie /\ saliendo[p] = paso
Ir(h, etiqueta) == pc' = [pc EXCEPT ![h] = etiqueta]

\* The threads a handler starts.
DeIO(p) == [pid |-> p, tipo |-> "io", paso |-> "corre"]
Archivo(p, paso) == [pid |-> p, tipo |-> "file", paso |-> paso]

-----------------------------------------------------------------------------
(* Admission: a client thread or the core (server_handle.c, kernel_core.c) *)

\* A console connects and sends its program: pcb_create, all_pcb, its PID.
process_instrucciones(p) ==
    /\ En(p, "inactivo")
    /\ Ir(p, "acepta_ready")
    /\ UNCHANGED <<cola, pcbVars, recVars, suma, elegido, anidado, mutexNR, fsVars,
                   memVars, saliendo, syscalls, informado, end_program_flag, caida>>

\* get_actual_multiprog reads READY, EXEC and BLOCK, each under its own mutex;
\* the last reading is part of the action that uses the sum.
Lectura ==
    [acepta_ready |-> [q |-> "READY", sigue |-> "acepta_exec"],
     acepta_exec  |-> [q |-> "EXEC",  sigue |-> "acepta_block"],
     cuenta_ready |-> [q |-> "READY", sigue |-> "cuenta_exec"],
     cuenta_exec  |-> [q |-> "EXEC",  sigue |-> "cuenta_block"]]

get_actual_multiprog(h) ==
    /\ caida = nadie /\ pc[h] \in DOMAIN Lectura
    /\ suma' = [suma EXCEPT ![h] = @ + Len(cola[Lectura[pc[h]].q])]
    /\ Ir(h, Lectura[pc[h]].sigue)
    /\ UNCHANGED <<cola, pcbVars, recVars, elegido, anidado, mutexNR, fsVars,
                   memVars, saliendo, syscalls, informado, end_program_flag, caida>>

HayLugar(h) == suma[h] + Len(cola["BLOCK"]) < GradoMax

accept_new_process_in_READY(p) ==
    /\ En(p, "acepta_block")
    /\ Ir(p, IF HayLugar(p) THEN "agrega_si" ELSE "agrega_no")
    /\ suma' = [suma EXCEPT ![p] = 0]
    /\ UNCHANGED <<cola, pcbVars, recVars, elegido, anidado, mutexNR, fsVars,
                   memVars, saliendo, syscalls, informado, end_program_flag, caida>>

add_pcb_to_queue(p) ==
    /\ caida = nadie /\ pc[p] \in {"agrega_si", "agrega_no"}
    /\ cola' = [cola EXCEPT !["NEW"] = Append(@, p)]
    /\ Ir(p, IF pc[p] = "agrega_si" THEN "lock_nr" ELSE "espera")
    /\ UNCHANGED <<pcbVars, recVars, suma, elegido, anidado, mutexNR, fsVars,
                   memVars, saliendo, syscalls, informado, end_program_flag, caida>>

LockNewToReady(h) ==
    /\ En(h, "lock_nr")
    /\ mutexNR = nadie
    /\ mutexNR' = h
    /\ Ir(h, "mira_new")
    /\ UNCHANGED <<cola, pcbVars, recVars, suma, elegido, anidado, fsVars,
                   memVars, saliendo, syscalls, informado, end_program_flag, caida>>

\* The loop of move_NEW_to_READY ends: unlock; the core goes on to dispatch, a
\* client thread to wait for the end of its process.
UnlockNewToReady(h) ==
    /\ \/ En(h, "mira_new") /\ cola["NEW"] = <<>>
       \/ En(h, "cuenta_block") /\ ~HayLugar(h)
    /\ mutexNR' = nadie
    /\ suma' = [suma EXCEPT ![h] = 0]
    /\ Ir(h, IF h = core THEN "despacha" ELSE "espera")
    /\ UNCHANGED <<cola, pcbVars, recVars, elegido, anidado, fsVars,
                   memVars, saliendo, syscalls, informado, end_program_flag, caida>>

can_move_NEW_to_READY(h) ==
    /\ En(h, "mira_new")
    /\ cola["NEW"] # <<>>
    /\ Ir(h, "cuenta_ready")
    /\ UNCHANGED <<cola, pcbVars, recVars, suma, elegido, anidado, mutexNR, fsVars,
                   memVars, saliendo, syscalls, informado, end_program_flag, caida>>

\* Mutant: an answer that does not say whose table it carries.
RespondeSinPid(op, p) == sockMem' = Append(sockMem, [op |-> op])

\* Memoria serves a request in the order of the socket and answers on it.
Responde(op, p) == sockMem' = Append(sockMem, [op |-> op, pid |-> p])

\* Mutant: PROCESS_NEW is sent again without having read the first answer.
PedirTablaReenvia(h) ==
    /\ En(h, "cuenta_block")
    /\ HayLugar(h)
    /\ LET p == Head(cola["NEW"]) IN
         /\ elegido' = [elegido EXCEPT ![h] = p]
         /\ enMemoria' = enMemoria \cup {p}
         /\ sockMem' = sockMem \o [i \in 1..2 |-> [op |-> "TSEGMENTOS", pid |-> p]]
    /\ suma' = [suma EXCEPT ![h] = 0]
    /\ Ir(h, "espera_ts")
    /\ UNCHANGED <<cola, pcbVars, recVars, anidado, mutexNR, fsVars,
                   saliendo, syscalls, informado, end_program_flag, caida>>

\* First half of request_t_segment: PROCESS_NEW of the first process of NEW.
PedirTabla(h) ==
    /\ En(h, "cuenta_block")
    /\ HayLugar(h)
    /\ LET p == Head(cola["NEW"]) IN
         /\ elegido' = [elegido EXCEPT ![h] = p]
         /\ enMemoria' = enMemoria \cup {p}
         /\ Responde("TSEGMENTOS", p)
    /\ suma' = [suma EXCEPT ![h] = 0]
    /\ Ir(h, "espera_ts")
    /\ UNCHANGED <<cola, pcbVars, recVars, anidado, mutexNR, fsVars,
                   saliendo, syscalls, informado, end_program_flag, caida>>

\* Second half, and the move it decides: whatever package is next on the socket.
move_NEW_to_READY(h) ==
    /\ En(h, "espera_ts")
    /\ sockMem # <<>>
    /\ sockMem' = Tail(sockMem)
    /\ LET p == elegido[h]
           r == Head(sockMem)
       IN IF r.op = "TSEGMENTOS"
          THEN /\ tabla' = [tabla EXCEPT ![p] = r.pid]
               /\ cola' = move_pcb_from_to(p, "NEW", "READY")
               /\ elegido' = [elegido EXCEPT ![h] = nadie]
               /\ Ir(h, "mira_new")
          ELSE /\ cola' = move_pcb_from_to(p, "NEW", "EXIT")
               /\ Ir(h, "falla_ts")
               /\ UNCHANGED <<tabla, elegido>>
    /\ UNCHANGED <<next_queue, exit_status, open_files, shared, recVars, suma,
                   anidado, mutexNR, fsVars, enMemoria, saliendo, syscalls,
                   informado, end_program_flag, caida>>

\* pcb->exit_status = ERROR; EXIT(pcb): the process is already in EXIT.
AdmisionFallida(h) ==
    /\ En(h, "falla_ts")
    /\ exit_status' = [exit_status EXCEPT ![elegido[h]] = "ERROR"]
    /\ saliendo' = [saliendo EXCEPT ![elegido[h]] = "avisar"]
    /\ Ir(h, "exit_new")
    /\ UNCHANGED <<cola, next_queue, open_files, shared, tabla, recVars, suma,
                   elegido, anidado, mutexNR, fsVars, memVars, syscalls, informado,
                   end_program_flag, caida>>

SigueAdmision(h) ==
    /\ En(h, "exit_new")
    /\ saliendo[elegido[h]] = "no"
    /\ elegido' = [elegido EXCEPT ![h] = nadie]
    /\ Ir(h, "mira_new")
    /\ UNCHANGED <<cola, pcbVars, recVars, suma, anidado, mutexNR, fsVars,
                   memVars, saliendo, syscalls, informado, end_program_flag, caida>>

\* wait_to_end_process: the poll of EXIT, without its mutex, or the shutdown.
wait_to_end_process(p) ==
    /\ En(p, "espera")
    /\ Contains(cola["EXIT"], p) \/ end_program_flag
    /\ exit_status' = IF end_program_flag
                      THEN [exit_status EXCEPT ![p] = "PROCESS_ABORTED"]
                      ELSE exit_status
    /\ Ir(p, "informa")
    /\ UNCHANGED <<cola, next_queue, open_files, shared, tabla, recVars, suma,
                   elegido, anidado, mutexNR, fsVars, memVars, saliendo, syscalls,
                   informado, end_program_flag, caida>>

InformarConsola(p) ==
    /\ En(p, "informa")
    /\ informado' = [informado EXCEPT ![p] = exit_status[p]]
    /\ Ir(p, "fin")
    /\ UNCHANGED <<cola, pcbVars, recVars, suma, elegido, anidado, mutexNR, fsVars,
                   memVars, saliendo, syscalls, end_program_flag, caida>>

-----------------------------------------------------------------------------
(* The core: dispatch, the CPU, the handlers of an eviction                *)
(* (kernel_core.c, kernel_cycle.c, kernel_instructions.c)                  *)

Actual == elegido[core]       \* the pcb EXEC works on
quietos == <<suma, elegido, mutexNR, saliendo, informado, end_program_flag>>

\* FIFO takes the head.  HRRN sorts READY by response ratio first: which process
\* comes out on top depends on times that are not modelled.
Candidatos ==
    IF Algoritmo = "FIFO" THEN {Head(cola["READY"])} ELSE ToSet(cola["READY"])

\* The code finds the head under the mutex of READY and takes the mutex again to
\* move it: one step here, because only the core takes processes out of READY.
move_READY_to_EXEC ==
    /\ En(core, "despacha")
    /\ cola["READY"] # <<>> /\ cola["EXEC"] = <<>>
    /\ \E p \in Candidatos :
         /\ cola' = move_pcb_from_to(p, "READY", "EXEC")
         /\ elegido' = [elegido EXCEPT ![core] = p]
    /\ Ir(core, "cpu")
    /\ UNCHANGED <<pcbVars, recVars, suma, anidado, mutexNR, fsVars, memVars,
                   saliendo, syscalls, informado, end_program_flag, caida>>

NadaQueDespachar ==
    /\ En(core, "despacha")
    /\ cola["READY"] = <<>> \/ cola["EXEC"] # <<>>
    /\ Ir(core, "lock_nr")
    /\ UNCHANGED <<cola, pcbVars, recVars, suma, elegido, anidado, mutexNR, fsVars,
                   memVars, saliendo, syscalls, informado, end_program_flag, caida>>

\* The CPU evicts the process with instruction i.
Desalojo(i) ==
    /\ En(core, "cpu")
    /\ i \in Instrucciones
    /\ syscalls[Actual] < MaxSyscalls
    /\ syscalls' = [syscalls EXCEPT ![Actual] = @ + 1]

\* A handler returns true: EXEC(pcb, true).  False: the core will move the pcb.
Reanuda == Ir(core, "cpu") /\ anidado' = TRUE
Sale == Ir(core, "mueve") /\ UNCHANGED anidado
Siguiente(q) == next_queue' = [next_queue EXCEPT ![Actual] = q]
Termina(codigo) ==
    /\ Siguiente("EXIT")
    /\ exit_status' = [exit_status EXCEPT ![Actual] = codigo]
    /\ Sale

PuedeEsperar == EsperaAnidada \/ (shared[Actual] = <<>> /\ open_files[Actual] = <<>>)

\* Mutant: a WAIT that blocks and is not added to lista_bloqueados.
execute_waitSinLista(r) ==
    /\ Desalojo("WAIT")
    /\ PuedeEsperar
    /\ instancias' = [instancias EXCEPT ![r] = @ - 1]
    /\ shared' = [shared EXCEPT ![Actual] = Append(@, r)]
    /\ IF instancias[r] - 1 >= 0
       THEN Reanuda /\ UNCHANGED next_queue
       ELSE Siguiente("BLOCK") /\ Sale
    /\ UNCHANGED <<cola, exit_status, open_files, tabla, abiertos, bloqueados, fsVars,
                   memVars, quietos, caida>>

execute_wait(r) ==
    /\ Desalojo("WAIT")
    /\ PuedeEsperar
    /\ instancias' = [instancias EXCEPT ![r] = @ - 1]
    /\ shared' = [shared EXCEPT ![Actual] = Append(@, r)]
    /\ IF instancias[r] - 1 >= 0
       THEN Reanuda /\ UNCHANGED <<next_queue, bloqueados>>
       ELSE /\ Siguiente("BLOCK")
            /\ bloqueados' = [bloqueados EXCEPT ![r] = Append(@, Actual)]
            /\ Sale
    /\ UNCHANGED <<cola, exit_status, open_files, tabla, abiertos, fsVars, memVars,
                   quietos, caida>>

\* Mutant: off by one, a SIGNAL that nobody waits for wakes somebody.
execute_signalDeMas(r) ==
    /\ Desalojo("SIGNAL")
    /\ Disciplinado => Contains(shared[Actual], r)
    /\ instancias' = [instancias EXCEPT ![r] = @ + 1]
    /\ shared' = [shared EXCEPT ![Actual] = RemoveFirst(@, r)]
    /\ IF instancias[r] <= 0
       THEN DespertarPrimero(r)
       ELSE UNCHANGED <<cola, bloqueados, caida>>
    /\ Reanuda
    /\ UNCHANGED <<next_queue, exit_status, open_files, tabla, abiertos, fsVars,
                   memVars, quietos>>

execute_signal(r) ==
    /\ Desalojo("SIGNAL")
    /\ Disciplinado => Contains(shared[Actual], r)
    /\ instancias' = [instancias EXCEPT ![r] = @ + 1]
    /\ shared' = [shared EXCEPT ![Actual] = RemoveFirst(@, r)]
    /\ IF instancias[r] + 1 <= 0
       THEN DespertarPrimero(r)
       ELSE UNCHANGED <<cola, bloqueados, caida>>
    /\ Reanuda
    /\ UNCHANGED <<next_queue, exit_status, open_files, tabla, abiertos, fsVars,
                   memVars, quietos>>

\* WAIT or SIGNAL of a resource that is not in the configuration; F_CLOSE or
\* F_SEEK of a file the process has not opened.
RecursoInvalido ==
    /\ \/ Desalojo("WAIT") \/ Desalojo("SIGNAL")
       \/ /\ Desalojo("F_CLOSE") \/ Desalojo("F_SEEK")
          /\ \E f \in Archivos : ~buscar_archivo(f) \/ ~buscar_archivo_abierto(Actual, f)
    /\ Termina("INVALID_RESOURCE")
    /\ UNCHANGED <<cola, open_files, shared, tabla, recVars, fsVars, memVars,
                   quietos, caida>>

\* Mutant: the wrong queue, the thread of the I/O will wake a process that runs.
execute_ioEnReady ==
    /\ Desalojo("I_O")
    /\ Siguiente("READY")
    /\ tareas' = tareas \cup {DeIO(Actual)}
    /\ Sale
    /\ UNCHANGED <<cola, exit_status, open_files, shared, tabla, recVars, mutexFS,
                   compactation_flag, memVars, quietos, caida>>

execute_io ==
    /\ Desalojo("I_O")
    /\ Siguiente("BLOCK")
    /\ tareas' = tareas \cup {DeIO(Actual)}
    /\ Sale
    /\ UNCHANGED <<cola, exit_status, open_files, shared, tabla, recVars, mutexFS,
                   compactation_flag, memVars, quietos, caida>>

execute_yield ==
    /\ Desalojo("YIELD")
    /\ Siguiente("READY")
    /\ Sale
    /\ UNCHANGED <<cola, exit_status, open_files, shared, tabla, recVars, fsVars,
                   memVars, quietos, caida>>

\* I_EXIT, or an eviction whose status is not SUCCESS: SEG_FAULT stands for the
\* statuses of the CPU, OUT_OF_MEMORY for a segment too large included.
execute_exit ==
    /\ En(core, "cpu")
    /\ \E codigo \in {"SUCCESS", "SEG_FAULT"} : Termina(codigo)
    /\ UNCHANGED <<cola, open_files, shared, tabla, recVars, fsVars, memVars,
                   quietos, syscalls, caida>>

\* execute_fread and execute_fwrite read the pointer of the open file: a file the
\* process has not opened is a NULL dereference.  execute_ftruncate looks at
\* nothing.  All three leave the work to a thread.
ProcesarArchivo(i, f) ==
    /\ Desalojo(i)
    /\ LET abierto == buscar_archivo_abierto(Actual, f) IN
         /\ Disciplinado => abierto
         /\ caida' = IF i = "F_RW" /\ ~abierto THEN "kernel" ELSE caida
    /\ tareas' = tareas \cup {Archivo(Actual, "corre")}
    /\ Siguiente("BLOCK")
    /\ Sale
    /\ UNCHANGED <<cola, exit_status, open_files, shared, tabla, recVars, mutexFS,
                   compactation_flag, memVars, quietos>>

\* A file somebody has open: the process waits for it, even if it is itself.
FopenEnUso(f) ==
    /\ Desalojo("F_OPEN")
    /\ PuedeEsperar
    /\ buscar_archivo(f)
    /\ Disciplinado => ~buscar_archivo_abierto(Actual, f)
    /\ archivo_abierto_create(Actual, f)
    /\ bloqueados' = [bloqueados EXCEPT ![f] = Append(@, Actual)]
    /\ instancias' = [instancias EXCEPT ![f] = @ - 1]
    /\ Siguiente("BLOCK")
    /\ Sale
    /\ UNCHANGED <<cola, exit_status, shared, tabla, abiertos, fsVars, memVars,
                   quietos, caida>>

\* Nobody has it open: the filesystem is asked under mutex_fs_connection, and
\* asked again to create the file if it does not exist (execute_fcreate).
execute_fopen(f) ==
    /\ Desalojo("F_OPEN")
    /\ PuedeEsperar
    /\ ~buscar_archivo(f)
    /\ mutexFS = nadie
    /\ abiertos' = abiertos \cup {f}
    /\ archivo_abierto_create(Actual, f)
    /\ instancias' = [instancias EXCEPT ![f] = 0]
    /\ bloqueados' = [bloqueados EXCEPT ![f] = <<>>]
    /\ Reanuda
    /\ UNCHANGED <<cola, next_queue, exit_status, shared, tabla, fsVars, memVars,
                   quietos, caida>>

FopenFallido(f) ==
    /\ Desalojo("F_OPEN")
    /\ FallaFS
    /\ ~buscar_archivo(f)
    /\ mutexFS = nadie
    /\ Termina("FILE_ERROR")
    /\ UNCHANGED <<cola, open_files, shared, tabla, recVars, fsVars, memVars,
                   quietos, caida>>

execute_fclose(f) ==
    /\ Desalojo("F_CLOSE")
    /\ buscar_archivo(f) /\ buscar_archivo_abierto(Actual, f)
    /\ open_files' = [open_files EXCEPT ![Actual] = RemoveFirst(@, f)]
    /\ LiberarArchivo(f)
    /\ Reanuda
    /\ UNCHANGED <<next_queue, exit_status, shared, tabla, fsVars, memVars, quietos>>

execute_fseek(f) ==
    /\ Desalojo("F_SEEK")
    /\ buscar_archivo(f) /\ buscar_archivo_abierto(Actual, f)
    /\ Reanuda
    /\ UNCHANGED <<cola, pcbVars, recVars, fsVars, memVars, quietos, caida>>

\* CREATE_SEGMENT: the request, with any answer memoria has for it.
execute_create_segment ==
    /\ Desalojo("CREATE_SEGMENT")
    /\ \E op \in {"SEGMENTO", "OUT_OF_MEMORY", "COMPACTATION_REQUIRED",
                  "MAX_SEG_QUANTITY_REACHED"} : Responde(op, Actual)
    /\ Ir(core, "espera_seg")
    /\ UNCHANGED <<cola, pcbVars, recVars, anidado, fsVars, enMemoria, quietos, caida>>

\* The recursive call after compactar().  Memoria has joined its free space, so
\* it does not ask for a compaction again (module Memoria).
ReintentarSegmento ==
    /\ En(core, "reintenta")
    /\ \E op \in {"SEGMENTO", "OUT_OF_MEMORY", "MAX_SEG_QUANTITY_REACHED"} :
         Responde(op, Actual)
    /\ Ir(core, "espera_seg")
    /\ UNCHANGED <<cola, pcbVars, recVars, anidado, fsVars, enMemoria, quietos,
                   syscalls, caida>>

\* The answer.  MAX_SEG_QUANTITY_REACHED has no branch of its own: the handler
\* returns false with the next_queue some earlier instruction left.
RecibirSegmento ==
    /\ En(core, "espera_seg")
    /\ sockMem # <<>>
    /\ sockMem' = Tail(sockMem)
    /\ LET op == Head(sockMem).op IN
         CASE op = "SEGMENTO" ->
                Reanuda /\ UNCHANGED <<next_queue, exit_status, compactation_flag>>
           [] op = "OUT_OF_MEMORY" ->
                Termina("OUT_OF_MEMORY") /\ UNCHANGED compactation_flag
           [] op = "COMPACTATION_REQUIRED" ->
                /\ compactation_flag' = TRUE
                /\ Ir(core, "compacta_lock")
                /\ UNCHANGED <<next_queue, exit_status, anidado>>
           [] op = "MAX_SEG_QUANTITY_REACHED" ->
                Sale /\ UNCHANGED <<next_queue, exit_status, compactation_flag>>
           [] OTHER -> Termina("ERROR") /\ UNCHANGED compactation_flag
    /\ UNCHANGED <<cola, open_files, shared, tabla, recVars, mutexFS, tareas,
                   enMemoria, quietos, syscalls, caida>>

\* Mutant: the compaction does not wait for the filesystem.
compactarSinMutex ==
    /\ En(core, "compacta_lock")
    /\ mutexFS' = core
    /\ Responde("LTSEGMENTOS", Actual)
    /\ Ir(core, "compacta_espera")
    /\ UNCHANGED <<cola, pcbVars, recVars, anidado, compactation_flag, tareas,
                   enMemoria, quietos, syscalls, caida>>

\* compactar, once no operation of the filesystem is under way.
compactar ==
    /\ En(core, "compacta_lock")
    /\ mutexFS = nadie
    /\ mutexFS' = core
    /\ Responde("LTSEGMENTOS", Actual)
    /\ Ir(core, "compacta_espera")
    /\ UNCHANGED <<cola, pcbVars, recVars, anidado, compactation_flag, tareas,
                   enMemoria, quietos, syscalls, caida>>

\* Every table memoria has goes to its pcb.
actualizar_tablas == tabla' = [p \in Pid |-> IF p \in enMemoria THEN p ELSE tabla[p]]

\* Its answer: every table it has, which actualizar_tablas gives to its pcb.
FinCompactar ==
    /\ En(core, "compacta_espera")
    /\ sockMem # <<>>
    /\ sockMem' = Tail(sockMem)
    /\ LET compactada == Head(sockMem).op = "LTSEGMENTOS" IN
         /\ end_program_flag' = (end_program_flag \/ ~compactada)
         /\ IF compactada THEN actualizar_tablas ELSE UNCHANGED tabla
    /\ mutexFS' = nadie
    /\ compactation_flag' = FALSE
    /\ Ir(core, "reintenta")
    /\ UNCHANGED <<cola, next_queue, exit_status, open_files, shared, recVars, suma,
                   elegido, anidado, mutexNR, tareas, enMemoria, saliendo, syscalls,
                   informado, caida>>

execute_delete_segment ==
    /\ Desalojo("DELETE_SEGMENT")
    /\ Responde("TSEGMENTOS", Actual)
    /\ Ir(core, "espera_tabla")
    /\ UNCHANGED <<cola, pcbVars, recVars, anidado, fsVars, enMemoria, quietos, caida>>

RecibirTabla ==
    /\ En(core, "espera_tabla")
    /\ sockMem # <<>>
    /\ sockMem' = Tail(sockMem)
    /\ LET r == Head(sockMem) IN
         IF r.op = "TSEGMENTOS"
         THEN /\ tabla' = [tabla EXCEPT ![Actual] = r.pid]
              /\ Reanuda
              /\ UNCHANGED <<next_queue, exit_status>>
         ELSE Termina("ERROR") /\ UNCHANGED tabla
    /\ UNCHANGED <<cola, open_files, shared, recVars, fsVars, enMemoria, quietos,
                   syscalls, caida>>

\* The end of EXEC(pcb, false): the move to next_queue, and EXIT if that is EXIT.
MoverDesalojado ==
    /\ En(core, "mueve")
    /\ cola' = move_pcb_from_to(Actual, "EXEC", next_queue[Actual])
    /\ anidado' = FALSE
    /\ IF next_queue[Actual] = "EXIT"
       THEN /\ saliendo' = [saliendo EXCEPT ![Actual] = "avisar"]
            /\ Ir(core, "exit_exec")
            /\ UNCHANGED elegido
       ELSE /\ elegido' = [elegido EXCEPT ![core] = nadie]
            /\ Ir(core, "lock_nr")
            /\ UNCHANGED saliendo
    /\ UNCHANGED <<pcbVars, recVars, suma, mutexNR, fsVars, memVars, syscalls,
                   informado, end_program_flag, caida>>

\* receive_pcontext_from_cpu returns NULL.  In EXEC(pcb, true) the pcb is moved
\* and EXIT run here, and again by the outer EXEC when this one returns.
RespuestaNula ==
    /\ FallaCPU
    /\ En(core, "cpu")
    /\ exit_status' = [exit_status EXCEPT ![Actual] = "ERROR"]
    /\ Siguiente("EXIT")
    /\ cola' = move_pcb_from_to(Actual, "EXEC", "EXIT")
    /\ saliendo' = [saliendo EXCEPT ![Actual] = "avisar"]
    /\ Ir(core, IF anidado THEN "exit_otra_vez" ELSE "exit_exec")
    /\ UNCHANGED <<open_files, shared, tabla, recVars, suma, elegido, anidado,
                   mutexNR, fsVars, memVars, syscalls, informado,
                   end_program_flag, caida>>

\* EXIT returns to the core.
FinExec ==
    /\ caida = nadie /\ pc[core] \in {"exit_exec", "exit_otra_vez"}
    /\ saliendo[Actual] = "no"
    /\ IF pc[core] = "exit_exec"
       THEN elegido' = [elegido EXCEPT ![core] = nadie] /\ Ir(core, "lock_nr")
       ELSE UNCHANGED elegido /\ Ir(core, "mueve")
    /\ UNCHANGED <<cola, pcbVars, recVars, suma, anidado, mutexNR, fsVars, memVars,
                   saliendo, syscalls, informado, end_program_flag, caida>>

-----------------------------------------------------------------------------
(* EXIT(pcb), run by the core, or by the thread that could not admit it    *)

\* p is between the handler that blocks it and the move to BLOCK.  The code lets
\* another thread move it then; Carrera = FALSE assumes that none is so quick.
EnTransito(p) == pc[core] = "mueve" /\ Actual = p
Alcanzable(p) == Carrera \/ ~EnTransito(p)

\* PROCESS_END: memoria frees the table; without one it dereferences NULL.
ExitAvisar(p) ==
    /\ EnExit(p, "avisar")
    /\ enMemoria' = enMemoria \ {p}
    /\ caida' = IF p \in enMemoria THEN caida ELSE "memoria"
    /\ saliendo' = [saliendo EXCEPT ![p] = "archivos"]
    /\ UNCHANGED <<cola, pcbVars, recVars, hilosVars, fsVars, sockMem, syscalls,
                   informado, end_program_flag>>

\* One open file.
ExitArchivo(p) ==
    /\ EnExit(p, "archivos")
    /\ open_files[p] # <<>>
    /\ LiberarArchivo(Head(open_files[p]))
    /\ open_files' = [open_files EXCEPT ![p] = Tail(@)]
    /\ UNCHANGED <<next_queue, exit_status, shared, tabla, hilosVars, fsVars,
                   memVars, saliendo, syscalls, informado, end_program_flag>>

\* Mutant: EXIT goes on to the resources with files still open.
ExitArchivosFinAntes(p) ==
    /\ EnExit(p, "archivos")
    /\ saliendo' = [saliendo EXCEPT ![p] = "recursos"]
    /\ UNCHANGED <<cola, pcbVars, recVars, hilosVars, fsVars, memVars, syscalls,
                   informado, end_program_flag, caida>>

ExitArchivosFin(p) ==
    /\ EnExit(p, "archivos")
    /\ open_files[p] = <<>>
    /\ saliendo' = [saliendo EXCEPT ![p] = "recursos"]
    /\ UNCHANGED <<cola, pcbVars, recVars, hilosVars, fsVars, memVars, syscalls,
                   informado, end_program_flag, caida>>

\* Mutant: the instance of a process that was still waiting is not given back.
ExitRecursoSinSumar(p) ==
    /\ EnExit(p, "recursos")
    /\ shared[p] # <<>>
    /\ LET r == Head(shared[p]) IN
         /\ bloqueados' = [bloqueados EXCEPT ![r] = RemoveFirst(@, p)]
    /\ shared' = [shared EXCEPT ![p] = Tail(@)]
    /\ UNCHANGED <<cola, next_queue, exit_status, open_files, tabla, instancias, abiertos,
                   hilosVars, fsVars, memVars, saliendo, syscalls, informado, end_program_flag, caida>>

\* One shared resource.
ExitRecurso(p) ==
    /\ EnExit(p, "recursos")
    /\ shared[p] # <<>>
    /\ LET r == Head(shared[p]) IN
         /\ instancias' = [instancias EXCEPT ![r] = @ + 1]
         /\ IF Contains(bloqueados[r], p)
            THEN /\ bloqueados' = [bloqueados EXCEPT ![r] = RemoveFirst(@, p)]
                 /\ UNCHANGED <<cola, caida>>
            ELSE IF instancias[r] + 1 <= 0
                 THEN DespertarPrimero(r)
                 ELSE UNCHANGED <<cola, bloqueados, caida>>
    /\ shared' = [shared EXCEPT ![p] = Tail(@)]
    /\ UNCHANGED <<next_queue, exit_status, open_files, tabla, abiertos, hilosVars,
                   fsVars, memVars, saliendo, syscalls, informado, end_program_flag>>

\* Mutant: the exit status is settled after the process is in EXIT.
ExitFinTardio(p) ==
    /\ EnExit(p, "recursos")
    /\ shared[p] = <<>>
    /\ saliendo' = [saliendo EXCEPT ![p] = "no"]
    /\ exit_status' = [exit_status EXCEPT ![p] = "SUCCESS"]
    /\ UNCHANGED <<cola, next_queue, open_files, shared, tabla, recVars, hilosVars, fsVars,
                   memVars, syscalls, informado, end_program_flag, caida>>

ExitFin(p) ==
    /\ EnExit(p, "recursos")
    /\ shared[p] = <<>>
    /\ saliendo' = [saliendo EXCEPT ![p] = "no"]
    /\ UNCHANGED <<cola, pcbVars, recVars, hilosVars, fsVars, memVars, syscalls,
                   informado, end_program_flag, caida>>

-----------------------------------------------------------------------------
(* The threads io and file_processing (kernel_instructions.c)              *)

EnTarea(t) == caida = nadie /\ t \in tareas
Pasa(p, de, a) == tareas' = (tareas \ {Archivo(p, de)}) \cup {Archivo(p, a)}

\* Mutant: the thread of an I/O ends and wakes nobody.
ioSinDespertar(p) ==
    /\ EnTarea(DeIO(p))
    /\ tareas' = tareas \ {DeIO(p)}
    /\ UNCHANGED <<cola, pcbVars, recVars, hilosVars, mutexFS, compactation_flag, memVars,
                   saliendo, syscalls, informado, end_program_flag, caida>>

\* io: the sleep is over.
io(p) ==
    /\ EnTarea(DeIO(p))
    /\ Alcanzable(p)
    /\ cola' = move_pcb_from_to(p, "BLOCK", "READY")
    /\ tareas' = tareas \ {DeIO(p)}
    /\ UNCHANGED <<pcbVars, recVars, hilosVars, mutexFS, compactation_flag, memVars,
                   saliendo, syscalls, informado, end_program_flag, caida>>

\* file_processing reads compactation_flag, and only then waits for the mutex.
MirarCompactacion(p) ==
    /\ EnTarea(Archivo(p, "corre"))
    /\ ~compactation_flag /\ ~end_program_flag
    /\ Pasa(p, "corre", "pide_fs")
    /\ UNCHANGED <<cola, pcbVars, recVars, hilosVars, mutexFS, compactation_flag,
                   memVars, saliendo, syscalls, informado, end_program_flag, caida>>

\* The kernel is ending: the thread returns and leaves its process in BLOCK.
AbandonarArchivo(p) ==
    /\ EnTarea(Archivo(p, "corre"))
    /\ end_program_flag
    /\ tareas' = tareas \ {Archivo(p, "corre")}
    /\ UNCHANGED <<cola, pcbVars, recVars, hilosVars, mutexFS, compactation_flag,
                   memVars, saliendo, syscalls, informado, end_program_flag, caida>>

EnviarFS(p) ==
    /\ EnTarea(Archivo(p, "pide_fs"))
    /\ mutexFS = nadie
    /\ mutexFS' = p
    /\ Pasa(p, "pide_fs", "en_fs")
    /\ UNCHANGED <<cola, pcbVars, recVars, hilosVars, compactation_flag, memVars,
                   saliendo, syscalls, informado, end_program_flag, caida>>

RecibirFS(p) ==
    /\ EnTarea(Archivo(p, "en_fs"))
    /\ mutexFS' = nadie
    /\ Pasa(p, "en_fs", "ok")
    /\ UNCHANGED <<cola, pcbVars, recVars, hilosVars, compactation_flag, memVars,
                   saliendo, syscalls, informado, end_program_flag, caida>>

ArchivoListo(p) ==
    /\ EnTarea(Archivo(p, "ok"))
    /\ Alcanzable(p)
    /\ cola' = move_pcb_from_to(p, "BLOCK", "READY")
    /\ tareas' = tareas \ {Archivo(p, "ok")}
    /\ UNCHANGED <<pcbVars, recVars, hilosVars, mutexFS, compactation_flag, memVars,
                   saliendo, syscalls, informado, end_program_flag, caida>>

\* The operator ends the kernel from its menu (print_menu).
Apagar ==
    /\ Apagado /\ ~end_program_flag /\ caida = nadie
    /\ end_program_flag' = TRUE
    /\ UNCHANGED <<cola, pcbVars, recVars, hilosVars, fsVars, memVars, saliendo,
                   syscalls, informado, caida>>

-----------------------------------------------------------------------------
Admision(h) ==
    \/ get_actual_multiprog(h) \/ LockNewToReady(h) \/ UnlockNewToReady(h)
    \/ can_move_NEW_to_READY(h) \/ PedirTabla(h) \/ move_NEW_to_READY(h)
    \/ AdmisionFallida(h) \/ SigueAdmision(h)

Cliente(p) ==
    \/ accept_new_process_in_READY(p) \/ add_pcb_to_queue(p)
    \/ wait_to_end_process(p) \/ InformarConsola(p)

Manejador ==
    \/ \E r \in Recursos : execute_wait(r) \/ execute_signal(r)
    \/ RecursoInvalido
    \/ execute_io \/ execute_yield \/ execute_exit
    \/ \E f \in Archivos :
         \/ \E i \in {"F_TRUNCATE", "F_RW"} : ProcesarArchivo(i, f)
         \/ FopenEnUso(f) \/ execute_fopen(f) \/ FopenFallido(f)
         \/ execute_fclose(f) \/ execute_fseek(f)
    \/ execute_create_segment \/ execute_delete_segment \/ RespuestaNula

NucleoInterno ==
    \/ move_READY_to_EXEC \/ NadaQueDespachar \/ MoverDesalojado \/ FinExec
    \/ ReintentarSegmento \/ RecibirSegmento \/ compactar \/ FinCompactar \/ RecibirTabla

Exit(p) ==
    \/ ExitAvisar(p) \/ ExitArchivo(p) \/ ExitArchivosFin(p)
    \/ ExitRecurso(p) \/ ExitFin(p)

Tarea(p) ==
    \/ io(p) \/ MirarCompactacion(p) \/ AbandonarArchivo(p) \/ EnviarFS(p)
    \/ RecibirFS(p) \/ ArchivoListo(p)

Next ==
    \/ \E p \in Pid : process_instrucciones(p) \/ Cliente(p) \/ Exit(p) \/ Tarea(p)
    \/ \E h \in Hilos : Admision(h)
    \/ Manejador \/ NucleoInterno
    \/ Apagar

Spec == Init /\ [][Next]_vars

\* Every thread goes on as long as it can; the modules answer; a program makes
\* finitely many calls.  The core sleeps a second without mutex_NEW_to_READY in
\* every turn, so a client that wants it gets it however often the core takes it.
Fairness ==
    /\ WF_vars(NucleoInterno) /\ WF_vars(Manejador)
    /\ \A h \in Hilos : WF_vars(Admision(h)) /\ SF_vars(LockNewToReady(h))
    /\ \A p \in Pid : WF_vars(Cliente(p)) /\ WF_vars(Exit(p)) /\ WF_vars(Tarea(p))

FairSpec == Spec /\ Fairness

-----------------------------------------------------------------------------
(* Properties                                                              *)

SinAlta == {"inactivo", "acepta_ready", "acepta_exec", "acepta_block",
            "agrega_si", "agrega_no"}

\* From the moment its console's thread adds it to NEW, a process is in exactly
\* one place of one queue.  Two threads that admit, the core that moves what it
\* evicts and the threads that wake what they blocked all move pcbs by pid.
EstadoUnico ==
    /\ \A c, d \in Colas : \A i \in 1..Len(cola[c]), j \in 1..Len(cola[d]) :
         cola[c][i] = cola[d][j] => c = d /\ i = j
    /\ \A p \in Pid : pc[p] \notin SinAlta => \E c \in Colas : Contains(cola[c], p)

Espera(p) == {r \in TRecurso : Contains(bloqueados[r], p)}
TareasDe(p) == {t \in tareas : t.pid = p}

\* A process in BLOCK waits for exactly one thing that will move it: a resource or
\* file in whose list it is, or a thread that works for it.  Nobody sleeps for
\* ever because a handler chose BLOCK without leaving a waker.
BloqueadoTieneDespertador ==
    \A p \in Pid : Contains(cola["BLOCK"], p) =>
        Cardinality(Espera(p)) + Cardinality(TareasDe(p)) = 1

\* The places of shared_resources that name r: one per WAIT that was not undone.
Poseidas(r) == UNION {{<<p, i>> : i \in {j \in 1..Len(shared[p]) : shared[p][j] = r}} : p \in Pid}

\* Semaphore accounting, across WAIT, SIGNAL and the EXIT of processes that hold
\* instances or wait for one: as many processes wait as instances are owed, and no
\* instance is lost or invented.
RecursoCuadra ==
    \A r \in Recursos :
        LET poseidas == Cardinality(Poseidas(r)) IN
        /\ Len(bloqueados[r]) = IF instancias[r] < 0 THEN -instancias[r] ELSE 0
        /\ instancias[r] + poseidas >= Instancias[r]
        /\ Disciplinado => instancias[r] + poseidas = Instancias[r]

\* A file in archivos_abiertos has exactly one owner, who is not waiting for it;
\* everyone else who has it in its table waits; and no table names a file that
\* was destroyed.
ArchivoExclusivo ==
    \A f \in Archivos :
        LET lo_tienen == {p \in Pid : Contains(open_files[p], f)} IN
        IF f \in abiertos
        THEN Cardinality({p \in lo_tienen : ~Contains(bloqueados[f], p)}) = 1
        ELSE lo_tienen = {}

\* No operation of the filesystem is under way while memoria compacts.
CompactaSinFS ==
    pc[core] = "compacta_espera" => \A t \in tareas : t.paso # "en_fs"

\* Nothing the kernel does makes it or memoria dereference NULL: a semaphore that
\* owes an instance has somebody waiting, and PROCESS_END is sent once.
SinCaida == caida = nadie

SalidaCompleta(p) ==
    /\ Contains(cola["EXIT"], p)
    /\ saliendo[p] = "no"
    /\ \A h \in Hilos : elegido[h] = p => pc[h] # "falla_ts"

\* Once EXIT is done for a process it holds no file and no resource, it is in
\* nobody's waiting list, and memoria has no table for it.
RestoLimpio ==
    \A p \in Pid : SalidaCompleta(p) =>
        /\ open_files[p] = <<>> /\ shared[p] = <<>>
        /\ Espera(p) = {}
        /\ p \notin enMemoria

\* The status a console is told is the one its process ended with.
ConsolaInformada ==
    \A p \in Pid : informado[p] # nadie => informado[p] = exit_status[p]

\* The segments table in a pcb is the table of that process, though the client threads
\* and the core ask for tables over one socket and read whatever answer comes first.
TablaPropia == \A p \in Pid : tabla[p] = p

\* A process that was admitted to the system ends and its console is told.
TodosTerminan == \A p \in Pid : pc[p] = "acepta_ready" ~> pc[p] = "fin"

=============================================================================
