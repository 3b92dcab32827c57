---------------------------- MODULE KernelHilos ----------------------------
(***************************************************************************)
(* The threads of the kernel that run EXIT, and the steps that the kernel  *)
(* takes without a lock. Module Kernel takes WAIT, SIGNAL, F_OPEN,         *)
(* F_CLOSE, one turn of the loops of EXIT and the dispatch as one step     *)
(* each, and has only the core run EXIT of a process that holds something. *)
(* Here the thread of a file operation that failed and the menu of the     *)
(* operator run it as well, and each of those handlers is split where the  *)
(* code lets the others in: the read and the write of instancias, its      *)
(* test, the search of a t_recurso and its use, the head of a list and its *)
(* move.                                                                   *)
(*                                                                         *)
(* Admission, memoria and the filesystem are left out: every process is    *)
(* admitted already. A call on a t_list is one step, although only taking  *)
(* the head of lista_bloqueados has a mutex. Programs SIGNAL and close     *)
(* what they hold and do not open a file twice.                            *)
(***************************************************************************)
EXTENDS Integers, FiniteSets, SequencesExt

CONSTANTS
    Pid,
    Recursos,
    Archivos,
    Instancias,     \* INSTANCIAS_RECURSOS: [Recursos -> Nat]
    Usa,            \* workload: the semaphores and files each program names, and "I_O"
    MaxSyscalls,    \* bound: system calls of a process before its EXIT
    Carrera,        \* another thread may move a process the core is blocking
    FallaEn,        \* processes whose operations on an open file may fail
    Mata            \* processes the operator may kill, once each

nadie == "nadie"
colgado == "colgado"                    \* a pointer to what was freed
core == <<"core", 0>>
menu == <<"menu", 0>>
Trabajos == Pid \X (1..MaxSyscalls)     \* threads io and file_processing
Hilos == {core, menu} \cup Trabajos
Colas == {"READY", "EXEC", "BLOCK", "EXIT"}
TRecurso == Recursos \cup Archivos

ASSUME HilosAssumption ==
    /\ IsFiniteSet(Pid) /\ Recursos \cap Archivos = {}
    /\ {nadie, colgado} \cap (Pid \cup TRecurso) = {}
    /\ Instancias \in [Recursos -> Nat]
    /\ Usa \in [Pid -> SUBSET (TRecurso \cup {"I_O"})]
    /\ MaxSyscalls \in Nat /\ Carrera \in BOOLEAN
    /\ FallaEn \subseteq Pid /\ Mata \subseteq Pid

VARIABLES
    cola,         \* the queues: [Colas -> Seq(Pid)]
    next_queue,   \* pcb->next_queue
    open_files,   \* pcb->open_files_table: the t_recurso each entry points to
    shared,       \* pcb->shared_resources
    instancias,   \* t_recurso.instancias
    bloqueados,   \* t_recurso.lista_bloqueados
    abiertos,     \* archivos_abiertos
    hilo,         \* what each thread is doing, and its local variables
    syscalls,     \* system calls made
    matados,      \* processes the operator chose to kill
    caida,        \* the kernel used NULL or freed memory
    cruzados      \* history, which no step reads: on what two threads got in each other's way

vars == <<cola, next_queue, open_files, shared, instancias, bloqueados, abiertos,
          hilo, syscalls, matados, caida, cruzados>>
recVars == <<instancias, bloqueados, abiertos>>
quietas == <<syscalls, matados, caida>>

Pasos ==
    {"despacha", "elegido", "en_exec", "cpu", "resta", "wait", "bloquea", "fopen",
     "lee_resta", "mueve", "movido", "io", "archivo", "fin", "menu", "busca_cola", "mata",
     "archivos", "recursos", "lee_suma", "suma", "busca", "sacarse", "prueba",
     "destruye", "saca", "despierta"}

\* The local variables of a thread: the pcb it works for, the index of a loop, the
\* t_recurso at hand, the value read of its instancias, the pcb to wake.
Locales == [paso : Pasos, pid : Pid \cup {nadie}, i : Nat,
            rec : TRecurso \cup {nadie, colgado}, v : Int, pend : Pid \cup {nadie}]

TypeOK ==
    /\ cola \in [Colas -> Seq(Pid)]
    /\ next_queue \in [Pid -> {"READY", "BLOCK", "EXIT"}]
    /\ open_files \in [Pid -> Seq(Archivos \cup {colgado})]
    /\ shared \in [Pid -> Seq(Recursos)]
    /\ instancias \in [TRecurso -> Int]
    /\ bloqueados \in [TRecurso -> Seq(Pid)]
    /\ abiertos \subseteq Archivos
    /\ hilo \in [Hilos -> Locales]
    /\ syscalls \in [Pid -> 0..MaxSyscalls]
    /\ matados \subseteq Pid
    /\ caida \in BOOLEAN
    /\ cruzados \subseteq Pid \cup TRecurso

Nuevo(paso, p) == [paso |-> paso, pid |-> p, i |-> 0, rec |-> nadie, v |-> 0, pend |-> nadie]

\* What a thread goes on with when it has no process at hand.
Ocioso(h) == CASE h = core -> "despacha" [] h = menu -> "menu" [] OTHER -> "fin"

Init ==
    /\ \E s \in SetToSeqs(Pid) : cola = [c \in Colas |-> IF c = "READY" THEN s ELSE <<>>]
    /\ next_queue = [p \in Pid |-> "READY"]
    /\ open_files = [p \in Pid |-> <<>>]
    /\ shared = [p \in Pid |-> <<>>]
    /\ instancias = [r \in TRecurso |-> IF r \in Recursos THEN Instancias[r] ELSE 1]
    /\ bloqueados = [r \in TRecurso |-> <<>>]
    /\ abiertos = {}
    /\ hilo = [h \in Hilos |-> Nuevo(Ocioso(h), nadie)]
    /\ syscalls = [p \in Pid |-> 0]
    /\ matados = {}
    /\ caida = FALSE
    /\ cruzados = {}
-----------------------------------------------------------------------------
\* Mutant: a pcb that is not in the source queue has index 0 there.
MoverElPrimero(p, de, a) ==
    [cola EXCEPT ![de] = IF Contains(@, p) THEN RemoveFirst(@, p)
                         ELSE IF @ = <<>> THEN @ ELSE Tail(@),
                 ![a] = Append(@, p)]

\* move_pcb_from_to, under the mutexes of both queues.  A pcb that is not in the
\* source has index -1, list_remove ignores it, and it is added all the same.
move_pcb_from_to(p, de, a) ==
    [cola EXCEPT ![de] = RemoveFirst(@, p), ![a] = Append(@, p)]

En(h, paso) == ~caida /\ hilo[h].paso = paso
Ir(h, paso) == hilo' = [hilo EXCEPT ![h].paso = paso]
Actual == hilo[core].pid

\* The core is between the handler that blocks p and the move to BLOCK.
EnTransito(p) == hilo[core].paso = "mueve" /\ Actual = p
Alcanzable(p) == Carrera \/ ~EnTransito(p)

\* EXIT(pcb) begins in thread h.
EmpezarExit(h, p) == [Nuevo("archivos", p) EXCEPT !.i = 1]

\* Thread h has released what it had at hand: a handler goes on with the CPU, a loop
\* of EXIT with the next element.
Sigue(h) ==
    LET s == hilo[h] IN
    IF s.i = 0 THEN Nuevo("cpu", s.pid)
    ELSE [Nuevo(IF s.rec \in Recursos THEN "recursos" ELSE "archivos", s.pid)
             EXCEPT !.i = s.i + 1]

-----------------------------------------------------------------------------
(* The core: dispatch and the handlers (kernel_core.c, kernel_instructions.c) *)

\* can_execute_process, and the head of READY, under its mutex; then the mutex is free.
Despachar ==
    /\ En(core, "despacha")
    /\ cola["READY"] # <<>> /\ cola["EXEC"] = <<>>
    /\ hilo' = [hilo EXCEPT ![core] = Nuevo("elegido", Head(cola["READY"]))]
    /\ UNCHANGED <<cola, next_queue, open_files, shared, recVars, quietas>>

\* The rest of move_fist_from_to.
MoverElegido ==
    /\ En(core, "elegido")
    /\ cola' = move_pcb_from_to(Actual, "READY", "EXEC")
    /\ Ir(core, "en_exec")
    /\ UNCHANGED <<next_queue, open_files, shared, recVars, quietas>>

\* EXEC(NULL, false) takes the head of EXEC, which a kill may have emptied.
TomarDeExec ==
    /\ En(core, "en_exec")
    /\ hilo' = [hilo EXCEPT ![core] =
           IF cola["EXEC"] = <<>> THEN Nuevo("despacha", nadie)
           ELSE Nuevo("cpu", Head(cola["EXEC"]))]
    /\ UNCHANGED <<cola, next_queue, open_files, shared, recVars, quietas>>

\* The CPU evicts the process with a system call on r, or with I_O.
Desalojo(r) ==
    /\ En(core, "cpu")
    /\ r \in Usa[Actual]
    /\ syscalls[Actual] < MaxSyscalls
    /\ syscalls' = [syscalls EXCEPT ![Actual] = @ + 1]

Con(paso, r, v) == hilo' = [hilo EXCEPT ![core].paso = paso, ![core].rec = r, ![core].v = v]

\* WAIT: instancias-- (a read and a write), the new entry of shared_resources, a
\* second read of instancias, and the entry of lista_bloqueados.
execute_wait(r) ==
    /\ Desalojo(r)
    /\ Con("resta", r, instancias[r])
    /\ UNCHANGED <<cola, next_queue, open_files, shared, recVars, matados, caida>>

Restar ==
    /\ En(core, "resta")
    /\ LET s == hilo[core] IN
         /\ s.rec # colgado
         /\ instancias' = [instancias EXCEPT ![s.rec] = s.v - 1]
         /\ IF s.rec \in Recursos
            THEN /\ shared' = [shared EXCEPT ![s.pid] = Append(@, s.rec)]
                 /\ Ir(core, "wait")
                 /\ UNCHANGED next_queue
            ELSE /\ next_queue' = [next_queue EXCEPT ![s.pid] = "BLOCK"]
                 /\ hilo' = [hilo EXCEPT ![core] = Nuevo("mueve", s.pid)]
                 /\ UNCHANGED shared
    /\ UNCHANGED <<cola, open_files, bloqueados, abiertos, quietas>>

WaitProbar ==
    /\ En(core, "wait")
    /\ IF instancias[hilo[core].rec] >= 0
       THEN hilo' = [hilo EXCEPT ![core] = Nuevo("cpu", Actual)]
       ELSE Ir(core, "bloquea")
    /\ UNCHANGED <<cola, next_queue, open_files, shared, recVars, quietas>>

\* Mutant: the process is sent to BLOCK and is in nobody's list.
WaitSinLista ==
    /\ En(core, "bloquea")
    /\ next_queue' = [next_queue EXCEPT ![Actual] = "BLOCK"]
    /\ hilo' = [hilo EXCEPT ![core] = Nuevo("mueve", Actual)]
    /\ UNCHANGED <<cola, open_files, shared, recVars, quietas>>

WaitBloquear ==
    /\ En(core, "bloquea")
    /\ next_queue' = [next_queue EXCEPT ![Actual] = "BLOCK"]
    /\ bloqueados' = [bloqueados EXCEPT ![hilo[core].rec] = Append(@, Actual)]
    /\ hilo' = [hilo EXCEPT ![core] = Nuevo("mueve", Actual)]
    /\ UNCHANGED <<cola, open_files, shared, instancias, abiertos, quietas>>

\* SIGNAL and F_CLOSE begin; both go on with Leer.
execute_signal(r) ==
    /\ Desalojo(r)
    /\ Contains(shared[Actual], r)
    /\ Con("lee_suma", r, 0)
    /\ UNCHANGED <<cola, next_queue, open_files, shared, recVars, matados, caida>>

execute_fclose(f) ==
    /\ Desalojo(f)
    /\ Contains(open_files[Actual], f)
    /\ open_files' = [open_files EXCEPT ![Actual] = RemoveFirst(@, f)]
    /\ Con("lee_suma", f, 0)
    /\ UNCHANGED <<cola, next_queue, shared, recVars, matados, caida>>

\* F_OPEN of a file nobody has open; only the core adds files.
execute_fopen(f) ==
    /\ Desalojo(f)
    /\ f \notin abiertos /\ ~Contains(open_files[Actual], f)
    /\ abiertos' = abiertos \cup {f}
    /\ instancias' = [instancias EXCEPT ![f] = 0]
    /\ open_files' = [open_files EXCEPT ![Actual] = Append(@, f)]
    /\ UNCHANGED <<cola, next_queue, shared, bloqueados, hilo, matados, caida>>

\* F_OPEN finds the file; then uses what it found, and only then counts it.
FopenEnUso(f) ==
    /\ Desalojo(f)
    /\ f \in abiertos /\ ~Contains(open_files[Actual], f)
    /\ Con("fopen", f, 0)
    /\ UNCHANGED <<cola, next_queue, open_files, shared, recVars, matados, caida>>

FopenEsperar ==
    /\ En(core, "fopen")
    /\ LET s == hilo[core] IN
         /\ s.rec # colgado
         /\ open_files' = [open_files EXCEPT ![s.pid] = Append(@, s.rec)]
         /\ bloqueados' = [bloqueados EXCEPT ![s.rec] = Append(@, s.pid)]
    /\ Ir(core, "lee_resta")
    /\ UNCHANGED <<cola, next_queue, shared, instancias, abiertos, quietas>>

\* I_O, and F_READ, F_WRITE or F_TRUNCATE of an open file: a thread does the work.
Encargar(paso) ==
    /\ next_queue' = [next_queue EXCEPT ![Actual] = "BLOCK"]
    /\ hilo' = [hilo EXCEPT ![core] = Nuevo("mueve", Actual),
                            ![<<Actual, syscalls'[Actual]>>] = Nuevo(paso, Actual)]

\* Mutant: the process of an I/O goes to EXEC.
IoEnExec ==
    /\ Desalojo("I_O")
    /\ next_queue' = [next_queue EXCEPT ![Actual] = "EXEC"]
    /\ hilo' = [hilo EXCEPT ![core] = Nuevo("mueve", Actual),
                            ![<<Actual, syscalls'[Actual]>>] = Nuevo("io", Actual)]
    /\ UNCHANGED <<cola, open_files, shared, recVars, matados, caida>>

execute_io ==
    /\ Desalojo("I_O")
    /\ Encargar("io")
    /\ UNCHANGED <<cola, open_files, shared, recVars, matados, caida>>

ProcesarArchivo(f) ==
    /\ Desalojo(f)
    /\ Contains(open_files[Actual], f)
    /\ Encargar("archivo")
    /\ UNCHANGED <<cola, open_files, shared, recVars, matados, caida>>

execute_exit ==
    /\ En(core, "cpu")
    /\ next_queue' = [next_queue EXCEPT ![Actual] = "EXIT"]
    /\ Ir(core, "mueve")
    /\ UNCHANGED <<cola, open_files, shared, recVars, quietas>>

\* The end of EXEC(pcb, false): the move, and a second read of next_queue.
MoverDesalojado ==
    /\ En(core, "mueve")
    /\ cola' = move_pcb_from_to(Actual, "EXEC", next_queue[Actual])
    /\ Ir(core, "movido")
    /\ UNCHANGED <<next_queue, open_files, shared, recVars, quietas>>

SalirSiToca ==
    /\ En(core, "movido")
    /\ hilo' = [hilo EXCEPT ![core] =
           IF next_queue[Actual] = "EXIT" THEN EmpezarExit(core, Actual)
           ELSE Nuevo("despacha", nadie)]
    /\ UNCHANGED <<cola, next_queue, open_files, shared, recVars, quietas>>

-----------------------------------------------------------------------------
(* Releasing a t_recurso: SIGNAL, F_CLOSE and the loops of EXIT            *)

Leer(h) ==
    /\ ~caida /\ hilo[h].paso \in {"lee_suma", "lee_resta"}
    /\ hilo[h].rec # colgado
    /\ hilo' = [hilo EXCEPT ![h].v = instancias[hilo[h].rec],
                            ![h].paso = IF @ = "lee_suma" THEN "suma" ELSE "resta"]
    /\ UNCHANGED <<cola, next_queue, open_files, shared, recVars, quietas>>

\* instancias++ is written.  SIGNAL then removes one entry of shared_resources; EXIT
\* looks for its process among those that wait for the semaphore.
Sumar(h) ==
    /\ En(h, "suma")
    /\ LET s == hilo[h] IN
         /\ s.rec # colgado
         /\ instancias' = [instancias EXCEPT ![s.rec] = s.v + 1]
         /\ shared' = IF s.i = 0 /\ s.rec \in Recursos
                      THEN [shared EXCEPT ![s.pid] = RemoveFirst(@, s.rec)]
                      ELSE shared
         /\ hilo' = [hilo EXCEPT ![h].v = 0,
                        ![h].paso = IF s.i > 0 /\ s.rec \in Recursos THEN "busca" ELSE "prueba"]
    /\ UNCHANGED <<cola, next_queue, open_files, bloqueados, abiertos, quietas>>

Buscar(h) ==
    /\ En(h, "busca")
    /\ Ir(h, IF Contains(bloqueados[hilo[h].rec], hilo[h].pid) THEN "sacarse" ELSE "prueba")
    /\ UNCHANGED <<cola, next_queue, open_files, shared, recVars, quietas>>

Sacarse(h) ==
    /\ En(h, "sacarse")
    /\ bloqueados' = [bloqueados EXCEPT ![hilo[h].rec] = RemoveFirst(@, hilo[h].pid)]
    /\ hilo' = [hilo EXCEPT ![h] = Sigue(h)]
    /\ UNCHANGED <<cola, next_queue, open_files, shared, instancias, abiertos, quietas>>

\* Mutant: the last instance wakes nobody.
ProbarCorto(h) ==
    /\ En(h, "prueba")
    /\ hilo[h].rec # colgado
    /\ hilo' = [hilo EXCEPT ![h] =
           IF instancias[hilo[h].rec] < 0 THEN [@ EXCEPT !.paso = "saca"]
           ELSE IF @.rec \in Archivos THEN [@ EXCEPT !.paso = "destruye"]
           ELSE Sigue(h)]
    /\ UNCHANGED <<cola, next_queue, open_files, shared, recVars, quietas>>

\* Mutant: one instance too soon.
ProbarDeMas(h) ==
    /\ En(h, "prueba")
    /\ hilo[h].rec # colgado
    /\ hilo' = [hilo EXCEPT ![h] =
           IF instancias[hilo[h].rec] <= 1 THEN [@ EXCEPT !.paso = "saca"]
           ELSE IF @.rec \in Archivos THEN [@ EXCEPT !.paso = "destruye"]
           ELSE Sigue(h)]
    /\ UNCHANGED <<cola, next_queue, open_files, shared, recVars, quietas>>

\* instancias is read again: a file nobody wants is destroyed, and what somebody
\* waits for is handed to the first of them.
Probar(h) ==
    /\ En(h, "prueba")
    /\ hilo[h].rec # colgado
    /\ hilo' = [hilo EXCEPT ![h] =
           IF instancias[hilo[h].rec] <= 0 THEN [@ EXCEPT !.paso = "saca"]
           ELSE IF @.rec \in Archivos THEN [@ EXCEPT !.paso = "destruye"]
           ELSE Sigue(h)]
    /\ UNCHANGED <<cola, next_queue, open_files, shared, recVars, quietas>>

\* recurso_destroy: every other pointer to the t_recurso hangs.
Destruir(h) ==
    /\ En(h, "destruye")
    /\ LET f == hilo[h].rec IN
         /\ f # colgado
         /\ abiertos' = abiertos \ {f}
         /\ instancias' = [instancias EXCEPT ![f] = 1]
         /\ bloqueados' = [bloqueados EXCEPT ![f] = <<>>]
         /\ open_files' = [p \in Pid |-> ReplaceAll(open_files[p], f, colgado)]
         /\ hilo' = [g \in Hilos |->
                IF g = h THEN Sigue(h)
                ELSE IF hilo[g].rec = f THEN [hilo[g] EXCEPT !.rec = colgado]
                ELSE hilo[g]]
    /\ UNCHANGED <<cola, next_queue, shared, quietas>>

\* remove_pcb_from_queue_resourse: NULL of an empty list, which the move dereferences.
Sacar(h) ==
    /\ En(h, "saca")
    /\ LET r == hilo[h].rec IN
         /\ r # colgado
         /\ IF bloqueados[r] = <<>>
            THEN caida' = TRUE /\ UNCHANGED <<bloqueados, hilo>>
            ELSE /\ bloqueados' = [bloqueados EXCEPT ![r] = Tail(@)]
                 /\ hilo' = [hilo EXCEPT ![h].paso = "despierta", ![h].pend = Head(bloqueados[r])]
                 /\ UNCHANGED caida
    /\ UNCHANGED <<cola, next_queue, open_files, shared, instancias, abiertos, syscalls, matados>>

\* EXIT frees the entry of the table of files it has dealt with, and keeps the table.
Despertar(h) ==
    /\ En(h, "despierta")
    /\ LET s == hilo[h] IN
         /\ Alcanzable(s.pend)
         /\ cola' = move_pcb_from_to(s.pend, "BLOCK", "READY")
         /\ hilo' = [hilo EXCEPT ![h] = Sigue(h)]
         /\ open_files' = IF s.rec \notin Recursos /\ s.i \in DOMAIN open_files[s.pid]
                          THEN [open_files EXCEPT ![s.pid][s.i] = colgado]
                          ELSE open_files
    /\ UNCHANGED <<next_queue, shared, recVars, quietas>>

\* A thread uses a t_recurso after another one freed it.  What the kernel does if it
\* survives that is not followed.
UsarLiberado(h) ==
    /\ ~caida
    /\ hilo[h].rec = colgado
    /\ hilo[h].paso # "despierta"
    /\ caida' = TRUE
    /\ UNCHANGED <<cola, next_queue, open_files, shared, recVars, hilo, syscalls, matados>>

-----------------------------------------------------------------------------
(* EXIT(pcb), in any thread: both tables keep their entries until the end  *)

ExitArchivo(h) ==
    /\ En(h, "archivos")
    /\ LET s == hilo[h] IN
         /\ s.i <= Len(open_files[s.pid])
         /\ hilo' = [hilo EXCEPT ![h].paso = "lee_suma", ![h].rec = open_files[s.pid][s.i]]
    /\ UNCHANGED <<cola, next_queue, open_files, shared, recVars, quietas>>

ExitArchivosFin(h) ==
    /\ En(h, "archivos")
    /\ LET s == hilo[h] IN
         /\ s.i > Len(open_files[s.pid])
         /\ open_files' = [open_files EXCEPT ![s.pid] = <<>>]
         /\ hilo' = [hilo EXCEPT ![h].paso = "recursos", ![h].i = 1]
    /\ UNCHANGED <<cola, next_queue, shared, recVars, quietas>>

ExitRecurso(h) ==
    /\ En(h, "recursos")
    /\ LET s == hilo[h] IN
         /\ s.i <= Len(shared[s.pid])
         /\ hilo' = [hilo EXCEPT ![h].paso = "lee_suma", ![h].rec = shared[s.pid][s.i]]
    /\ UNCHANGED <<cola, next_queue, open_files, shared, recVars, quietas>>

ExitFin(h) ==
    /\ En(h, "recursos")
    /\ LET s == hilo[h] IN
         /\ s.i > Len(shared[s.pid])
         /\ shared' = [shared EXCEPT ![s.pid] = <<>>]
         /\ hilo' = [hilo EXCEPT ![h] = Nuevo(Ocioso(h), nadie)]
    /\ UNCHANGED <<cola, next_queue, open_files, recVars, quietas>>

-----------------------------------------------------------------------------
(* The threads io and file_processing, and the menu                        *)

\* Mutant: the process is moved from whatever queue it is in.
TrabajoDesdeDondeEste(h) ==
    /\ ~caida /\ hilo[h].paso \in {"io", "archivo"}
    /\ Alcanzable(hilo[h].pid)
    /\ \E c \in Colas :
         /\ Contains(cola[c], hilo[h].pid)
         /\ cola' = move_pcb_from_to(hilo[h].pid, c, "READY")
    /\ hilo' = [hilo EXCEPT ![h] = Nuevo("fin", nadie)]
    /\ UNCHANGED <<next_queue, open_files, shared, recVars, quietas>>

\* The sleep is over, or the filesystem answered what was expected.
TrabajoListo(h) ==
    /\ ~caida /\ hilo[h].paso \in {"io", "archivo"}
    /\ Alcanzable(hilo[h].pid)
    /\ cola' = move_pcb_from_to(hilo[h].pid, "BLOCK", "READY")
    /\ hilo' = [hilo EXCEPT ![h] = Nuevo("fin", nadie)]
    /\ UNCHANGED <<next_queue, open_files, shared, recVars, quietas>>

\* It answered something else: this thread moves the process to EXIT and runs EXIT.
ArchivoFallido(h) ==
    /\ En(h, "archivo")
    /\ hilo[h].pid \in FallaEn
    /\ Alcanzable(hilo[h].pid)
    /\ cola' = move_pcb_from_to(hilo[h].pid, "BLOCK", "EXIT")
    /\ hilo' = [hilo EXCEPT ![h] = EmpezarExit(h, hilo[h].pid)]
    /\ UNCHANGED <<next_queue, open_files, shared, recVars, quietas>>

\* The order in which get_queue_id looks for a pcb, with no lock (NEW is empty here).
OrdenColas == <<"READY", "EXEC", "BLOCK">>

kill_process(p) ==
    /\ En(menu, "menu")
    /\ p \in Mata \ matados
    /\ matados' = matados \cup {p}
    /\ next_queue' = [next_queue EXCEPT ![p] = "EXIT"]
    /\ hilo' = [hilo EXCEPT ![menu] = [Nuevo("busca_cola", p) EXCEPT !.i = 1]]
    /\ UNCHANGED <<cola, open_files, shared, recVars, syscalls, caida>>

\* One queue of get_queue_id; a pcb found in none of them is taken to be in EXIT.
get_queue_id ==
    /\ En(menu, "busca_cola")
    /\ LET s == hilo[menu] IN
         hilo' = [hilo EXCEPT ![menu] =
             IF s.i > Len(OrdenColas) THEN Nuevo("menu", nadie)
             ELSE IF Contains(cola[OrdenColas[s.i]], s.pid) THEN [s EXCEPT !.paso = "mata"]
             ELSE [s EXCEPT !.i = @ + 1]]
    /\ UNCHANGED <<cola, next_queue, open_files, shared, recVars, quietas>>

MatarMover ==
    /\ En(menu, "mata")
    /\ cola' = move_pcb_from_to(hilo[menu].pid, OrdenColas[hilo[menu].i], "EXIT")
    /\ hilo' = [hilo EXCEPT ![menu] = EmpezarExit(menu, hilo[menu].pid)]
    /\ UNCHANGED <<next_queue, open_files, shared, recVars, quietas>>

-----------------------------------------------------------------------------
Nucleo ==
    \/ Despachar \/ MoverElegido \/ TomarDeExec \/ MoverDesalojado \/ SalirSiToca
    \/ Restar \/ WaitProbar \/ WaitBloquear \/ FopenEsperar \/ execute_io \/ execute_exit
    \/ \E r \in Recursos : execute_wait(r) \/ execute_signal(r)
    \/ \E f \in Archivos :
         execute_fopen(f) \/ FopenEnUso(f) \/ execute_fclose(f) \/ ProcesarArchivo(f)

Liberacion(h) ==
    \/ Leer(h) \/ Sumar(h) \/ Buscar(h) \/ Sacarse(h) \/ Probar(h) \/ Destruir(h)
    \/ Sacar(h) \/ Despertar(h) \/ UsarLiberado(h)

Exit(h) == ExitArchivo(h) \/ ExitArchivosFin(h) \/ ExitRecurso(h) \/ ExitFin(h)

Menu == get_queue_id \/ MatarMover \/ \E p \in Mata : kill_process(p)

EnExit(h) == hilo[h].i > 0 /\ hilo[h].paso \notin {"busca_cola", "mata"}

\* The t_recurso's that two threads have at hand, and the processes that one thread
\* takes through EXIT while another one works for them.
Cruces ==
    {r \in TRecurso : \E h, g \in Hilos : h # g /\ hilo[h].rec = r /\ hilo[g].rec = r}
      \cup {p \in Pid : \E h, g \in Hilos :
              /\ h # g /\ hilo[h].pid = p /\ hilo[g].pid = p
              /\ EnExit(h) /\ hilo[g].paso # "movido"}

Cruzar == cruzados' = cruzados \cup Cruces'

Next ==
    \/ Nucleo /\ Cruzar
    \/ Menu /\ Cruzar
    \/ \E h \in Hilos : (Liberacion(h) \/ Exit(h)) /\ Cruzar
    \/ \E h \in Trabajos : (TrabajoListo(h) \/ ArchivoFallido(h)) /\ Cruzar

Spec == Init /\ [][Next]_vars

-----------------------------------------------------------------------------
(* Properties                                                              *)

\* The entries of the tables of the processes that name r.
Poseidas(r) ==
    LET nombran(t, p) == {i \in DOMAIN t[p] : t[p][i] = r}
    IN  UNION {({p} \X nombran(shared, p)) \cup ({p} \X nombran(open_files, p)) : p \in Pid}

\* No thread is in the middle of something with r.
Quieto(r) ==
    \A h \in Hilos :
        /\ hilo[h].rec # r
        /\ hilo[h].i > 0 => ~Contains(shared[hilo[h].pid] \o open_files[hilo[h].pid], r)

\* No two threads ever met on r, nor on a process that names it.
Limpio(r) == r \notin cruzados /\ \A p \in cruzados \cap Pid : r \notin Usa[p]

\* Semaphores and files between two operations on them: what is left and what is in
\* the tables add up to what there was, exactly those that are owed an instance wait
\* for it, and a file is open as long as a table names it.  It holds with every access
\* of WAIT, SIGNAL, F_OPEN, F_CLOSE and EXIT apart, in whatever threads EXIT runs,
\* until two of them are in the middle of the same t_recurso or the same process.
CuentaCuadra ==
    \A r \in TRecurso : Limpio(r) /\ Quieto(r) =>
        LET poseidas == Cardinality(Poseidas(r)) IN
        /\ instancias[r] + poseidas = IF r \in Recursos THEN Instancias[r] ELSE 1
        /\ Len(bloqueados[r]) = IF instancias[r] < 0 THEN -instancias[r] ELSE 0
        /\ r \in Archivos => (r \in abiertos <=> poseidas > 0)

\* Where p is in the queues.
Lugares(p) == UNION {{c} \X {i \in DOMAIN cola[c] : cola[c][i] = p} : c \in Colas}

\* A process that is in BLOCK and nowhere else has exactly one thing that will move it:
\* a list of waiting processes, a thread that works for it, or a thread that has taken
\* it from a list and not moved it yet.  Moves that came too early, kills and failed
\* operations do not change that, as long as no two threads met.
DespertadorUnico ==
    \A p \in Pid :
        /\ cruzados = {}
        /\ Cardinality(Lugares(p)) = 1 /\ Contains(cola["BLOCK"], p)
        => Cardinality({r \in TRecurso : Contains(bloqueados[r], p)})
             + Cardinality({h \in Hilos : hilo[h].pend = p
                              \/ (hilo[h].paso \in {"io", "archivo"} /\ hilo[h].pid = p)}) = 1

\* The kernel moves NULL or uses a freed t_recurso only after two threads met in the
\* middle of the same t_recurso or the same process: a stale head of READY, a process
\* in two queues or an EXIT in another thread is not enough by itself.
CaidaSoloSiSeCruzan == caida => cruzados # {}

\* Whatever threads move processes, run EXIT and kill, with stale heads, stale queues
\* and processes that are not where they are looked for, no process is lost: each is
\* in some queue.
SiempreEnCola == \A p \in Pid : \E c \in Colas : Contains(cola[c], p)

\* What is in EXIT stays there: no late move takes a process out of it.
ExitDefinitivo == [][IsPrefix(cola["EXIT"], cola'["EXIT"])]_vars
=============================================================================
