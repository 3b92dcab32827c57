---------------------------- MODULE KernelProofs ----------------------------
(***************************************************************************)
(* Type correctness of the kernel; what its mutexes protect,               *)
(* mutex_NEW_to_READY the admission and the socket of memoria and          *)
(* mutex_fs_connection the compaction; and the accounting of the resources *)
(* of the configuration, whatever the programs do and whoever runs EXIT.   *)
(***************************************************************************)
EXTENDS Kernel, Listas, FiniteSetTheorems, TLAPS

-----------------------------------------------------------------------------
(* Types                                                                   *)

\* Where the core works on a pcb, and where a thread is inside move_NEW_to_READY.
Ejecuta == {"cpu", "espera_seg", "espera_tabla", "compacta_lock", "compacta_espera",
            "reintenta", "mueve", "exit_exec", "exit_otra_vez"}
Admite == {"mira_new", "cuenta_ready", "cuenta_exec", "cuenta_block", "espera_ts",
           "falla_ts", "exit_new"}

\* A thread that works on a pcb has one.
Elegidos ==
    /\ \A h \in Hilos : pc[h] \in {"espera_ts", "falla_ts", "exit_new"} => elegido[h] \in Pid
    /\ pc[core] \in Ejecuta => elegido[core] \in Pid

\* mutex_NEW_to_READY excludes: whoever is inside holds it.
MutexTomado == \A h \in Hilos : pc[h] \in Admite => mutexNR = h

\* What can_move_NEW_to_READY saw is still so when the pcb is taken.
NuevoEspera == \A h \in Hilos :
    pc[h] \in {"cuenta_ready", "cuenta_exec", "cuenta_block", "espera_ts"} => cola["NEW"] # <<>>

Control == Elegidos /\ MutexTomado /\ NuevoEspera
Tipos == TypeOK /\ Control

\* move_pcb_from_to gives queues of processes.
LEMMA MoverTipo ==
    ASSUME TypeColas, NEW p \in Pid, NEW de \in Colas, NEW a \in Colas, de # a
    PROVE  move_pcb_from_to(p, de, a) \in [Colas -> Seq(Pid)]
  <1>1. cola \in [Colas -> Seq(Pid)]
    BY DEF TypeColas
  <1>2. RemoveFirst(cola[de], p) \in Seq(Pid)
    BY <1>1, QuitarTipo
  <1> QED
    BY <1>1, <1>2, MoverEntre DEF move_pcb_from_to

\* The names of the queues.
LEMMA ColasDistintas ==
    /\ "NEW" \in Colas /\ "READY" \in Colas /\ "EXEC" \in Colas
    /\ "BLOCK" \in Colas /\ "EXIT" \in Colas
  BY DEF Colas

\* A thread that only goes on keeps the types of the threads.
LEMMA IrTipo ==
    ASSUME TypeHilos, NEW h \in Hilos, NEW e \in Etiquetas, Ir(h, e),
           UNCHANGED <<suma, elegido, anidado, mutexNR>>
    PROVE  TypeHilos'
  BY DEF TypeHilos, Ir

\* Variables that do not change keep their types.
LEMMA Inmoviles ==
    ASSUME TypeOK
    PROVE  /\ UNCHANGED cola => TypeColas'
           /\ UNCHANGED pcbVars => TypePcb'
           /\ UNCHANGED recVars => TypeRec'
           /\ UNCHANGED hilosVars => TypeHilos'
           /\ UNCHANGED fsVars => TypeFs'
           /\ UNCHANGED memVars => TypeMem'
           /\ UNCHANGED end_program_flag => end_program_flag' \in BOOLEAN
  BY DEF TypeOK, TypeColas, TypePcb, TypeRec, TypeHilos, TypeFs, TypeMem,
         pcbVars, recVars, hilosVars, fsVars, memVars

\* The rest of TypeOK when nothing of it changes.
LEMMA OtrosTipos ==
    ASSUME TypeOK, TypeColas', TypePcb', TypeRec', TypeHilos', TypeFs', TypeMem', end_program_flag' \in BOOLEAN,
           UNCHANGED <<saliendo, syscalls, informado, caida>>
    PROVE  TypeOK'
  BY DEF TypeOK

\* Moving a pcb between other queues leaves a queue as it was.
LEMMA MoverAparte ==
    ASSUME TypeColas, NEW p, NEW de \in Colas, NEW a \in Colas, NEW c \in Colas, c # de, c # a
    PROVE  move_pcb_from_to(p, de, a)[c] = cola[c]
  BY DEF TypeColas, move_pcb_from_to

\* A move between queues that are not NEW leaves NEW alone.
LEMMA MoverSinNew ==
    ASSUME TypeColas, NEW p \in Pid, NEW de \in Colas, NEW a \in Colas, de # a,
           de # "NEW", a # "NEW", cola' = move_pcb_from_to(p, de, a)
    PROVE  TypeColas' /\ cola'["NEW"] = cola["NEW"]
  <1>1. TypeColas'
    BY MoverTipo DEF TypeColas
  <1>2. cola'["NEW"] = cola["NEW"]
    BY MoverAparte, ColasDistintas
  <1> QED
    BY <1>1, <1>2

\* The control part survives a step that moves no thread and takes nobody out of NEW.
LEMMA ControlQuieto ==
    ASSUME Tipos, UNCHANGED <<pc, elegido, mutexNR>>,
           cola["NEW"] # <<>> => cola'["NEW"] # <<>>
    PROVE  Control'
  BY DEF Tipos, Control, Elegidos, MutexTomado, NuevoEspera

\* So it does when the core goes on with its pcb, and when it leaves it.
LEMMA ControlCore ==
    ASSUME Tipos, pc[core] \in Ejecuta, NEW e \in Ejecuta \cup {"lock_nr"}, Ir(core, e),
           \/ UNCHANGED elegido
           \/ e = "lock_nr" /\ elegido' = [elegido EXCEPT ![core] = nadie],
           UNCHANGED mutexNR,
           cola["NEW"] # <<>> => cola'["NEW"] # <<>>
    PROVE  Control'
  <1> USE DEF Tipos, Control, TypeOK, TypeHilos, Ir, Hilos
  <1>1. Elegidos'
    BY DEF Elegidos, Ejecuta
  <1>2. MutexTomado'
    BY DEF MutexTomado, Admite, Ejecuta
  <1>3. NuevoEspera'
    BY DEF NuevoEspera, Ejecuta
  <1> QED
    BY <1>1, <1>2, <1>3

\* And for a step of an admitting thread h, from its label to e.
LEMMA ControlAdmision ==
    ASSUME Tipos, NEW h \in Hilos, pc[h] \notin Ejecuta, NEW e \in Etiquetas \ Ejecuta, Ir(h, e),
           \A g \in Hilos : g # h => elegido'[g] = elegido[g],
           e \in {"espera_ts", "falla_ts", "exit_new"} => elegido'[h] \in Pid,
           e \in Admite => mutexNR' = h,
           mutexNR' = mutexNR \/ mutexNR = nadie \/ mutexNR = h,
           \/ cola["NEW"] # <<>> => cola'["NEW"] # <<>>
           \/ mutexNR = h,
           e \in {"cuenta_ready", "cuenta_exec", "cuenta_block", "espera_ts"} => cola'["NEW"] # <<>>
    PROVE  Control'
  <1> USE DEF Tipos, Control, TypeOK, TypeHilos, Ir
  <1>0. /\ pc'[h] = e /\ \A g \in Hilos : g # h => pc'[g] = pc[g]
        /\ nadie \notin Hilos /\ core \in Hilos
    BY KernelAssumption DEF Hilos, core, nadie
  <1>1. Elegidos'
    BY <1>0 DEF Elegidos
  <1>2. MutexTomado'
    BY <1>0 DEF MutexTomado
  <1>3. NuevoEspera'
    <2>1. \A g \in Hilos : g # h /\ pc[g] \in Admite => mutexNR # h
      BY DEF MutexTomado
    <2> QED
      BY <1>0, <2>1 DEF NuevoEspera, Admite
  <1> QED
    BY <1>1, <1>2, <1>3

-----------------------------------------------------------------------------
(* Admission                                                               *)

\* A console connects, and its thread decides where its process goes.
LEMMA AltaTipos ==
    ASSUME Tipos, NEW p \in Pid, process_instrucciones(p) \/ accept_new_process_in_READY(p)
    PROVE  Tipos'
  <1> USE DEF Tipos
  <1>1. TypeHilos'
    BY DEF TypeOK, TypeHilos, process_instrucciones, accept_new_process_in_READY, Hilos, Ir, Etiquetas
  <1>2. TypeOK'
    BY <1>1, Inmoviles, OtrosTipos DEF process_instrucciones, accept_new_process_in_READY
  <1>3. Control'
    <2>1. PICK e \in {"acepta_ready", "agrega_si", "agrega_no"} : Ir(p, e)
      BY DEF process_instrucciones, accept_new_process_in_READY
    <2>2. pc[p] \notin Ejecuta /\ e \in Etiquetas \ Ejecuta /\ e \notin Admite /\ p \in Hilos
      BY DEF process_instrucciones, accept_new_process_in_READY, En, Ejecuta, Etiquetas, Admite, Hilos
    <2> QED
      BY <2>1, <2>2, ControlAdmision DEF process_instrucciones, accept_new_process_in_READY, Admite
  <1> QED
    BY <1>2, <1>3

\* get_actual_multiprog.
LEMMA SumaTipos ==
    ASSUME Tipos, NEW h \in Hilos, get_actual_multiprog(h)
    PROVE  Tipos'
  <1> USE DEF Tipos
  <1> DEFINE e == Lectura[pc[h]].sigue
  <1>1. /\ e \in Etiquetas \ Ejecuta /\ Lectura[pc[h]].q \in Colas
        /\ pc[h] \notin Ejecuta
        /\ e \in Admite => pc[h] \in Admite
        /\ e \notin {"espera_ts", "falla_ts", "exit_new"}
        /\ e \in {"cuenta_exec", "cuenta_block"} => pc[h] \in {"cuenta_ready", "cuenta_exec"}
        /\ e # "cuenta_ready"
    BY DEF get_actual_multiprog, Lectura, Etiquetas, Colas, Ejecuta, Admite
  <1>2. Len(cola[Lectura[pc[h]].q]) \in Nat
    BY <1>1 DEF TypeOK, TypeColas
  <1>3. TypeHilos'
    BY <1>1, <1>2 DEF TypeOK, TypeHilos, get_actual_multiprog, Ir
  <1>4. TypeOK'
    BY <1>3, Inmoviles, OtrosTipos DEF get_actual_multiprog
  <1>5. Ir(h, e) /\ UNCHANGED <<cola, elegido, mutexNR>>
    BY DEF get_actual_multiprog
  <1>6. e \in Admite => mutexNR' = h
    BY <1>1, <1>5 DEF Control, MutexTomado
  <1>7. e \in {"cuenta_ready", "cuenta_exec", "cuenta_block", "espera_ts"} => cola'["NEW"] # <<>>
    BY <1>1, <1>5 DEF Control, NuevoEspera
  <1> HIDE DEF e
  <1>8. Control'
    BY <1>1, <1>5, <1>6, <1>7, ControlAdmision
  <1> QED
    BY <1>4, <1>8

\* add_pcb_to_queue.
LEMMA AgregarTipos ==
    ASSUME Tipos, NEW p \in Pid, add_pcb_to_queue(p)
    PROVE  Tipos'
  <1> USE DEF Tipos
  <1>1. TypeHilos'
    BY DEF TypeOK, TypeHilos, add_pcb_to_queue, Hilos, Ir, Etiquetas
  <1>2. TypeColas' /\ cola'["NEW"] # <<>>
    <2>1. cola["NEW"] \in Seq(Pid) /\ cola'["NEW"] = Append(cola["NEW"], p)
      BY ColasDistintas DEF TypeOK, TypeColas, add_pcb_to_queue
    <2>2. cola'["NEW"] \in Seq(Pid) /\ cola'["NEW"] # <<>>
      BY <2>1
    <2> QED
      BY <2>2 DEF TypeOK, TypeColas, add_pcb_to_queue
  <1>3. TypeOK'
    BY <1>1, <1>2, Inmoviles, OtrosTipos DEF add_pcb_to_queue
  <1>4. Control'
    <2>1. PICK e \in {"lock_nr", "espera"} : Ir(p, e)
      BY DEF add_pcb_to_queue
    <2>2. pc[p] \notin Ejecuta /\ e \in Etiquetas \ Ejecuta /\ e \notin Admite /\ p \in Hilos
      BY DEF add_pcb_to_queue, Ejecuta, Etiquetas, Admite, Hilos
    <2> QED
      BY <1>2, <2>1, <2>2, ControlAdmision DEF add_pcb_to_queue, Admite
  <1> QED
    BY <1>3, <1>4

\* Taking mutex_NEW_to_READY, leaving it, and finding somebody in NEW.
LEMMA MutexTipos ==
    ASSUME Tipos, NEW h \in Hilos,
           LockNewToReady(h) \/ UnlockNewToReady(h) \/ can_move_NEW_to_READY(h)
    PROVE  Tipos'
  <1> USE DEF Tipos
  <1>1. TypeHilos'
    <2>1. PICK e \in {"mira_new", "cuenta_ready", "despacha", "espera"} : Ir(h, e)
      BY DEF LockNewToReady, UnlockNewToReady, can_move_NEW_to_READY
    <2>2. e \in Etiquetas
      BY DEF Etiquetas
    <2>3. /\ mutexNR' \in Hilos \cup {nadie} /\ suma' \in [Hilos -> Nat]
          /\ UNCHANGED <<elegido, anidado>>
      BY DEF TypeOK, TypeHilos, LockNewToReady, UnlockNewToReady, can_move_NEW_to_READY
    <2> QED
      BY <2>1, <2>2, <2>3 DEF TypeOK, TypeHilos, Ir
  <1>2. TypeOK'
    BY <1>1, Inmoviles, OtrosTipos DEF LockNewToReady, UnlockNewToReady, can_move_NEW_to_READY
  <1>3. Control'
    <2>1. CASE LockNewToReady(h)
      <3>1. pc[h] \notin Ejecuta /\ "mira_new" \in Etiquetas \ Ejecuta
        BY <2>1 DEF LockNewToReady, En, Ejecuta, Etiquetas
      <3> QED
        BY <2>1, <3>1, ControlAdmision DEF LockNewToReady
    <2>2. CASE UnlockNewToReady(h)
      <3>1. PICK e \in {"despacha", "espera"} : Ir(h, e)
        BY <2>2 DEF UnlockNewToReady
      <3>2. pc[h] \notin Ejecuta /\ pc[h] \in Admite /\ e \in Etiquetas \ Ejecuta /\ e \notin Admite
        BY <2>2 DEF UnlockNewToReady, En, Ejecuta, Etiquetas, Admite
      <3>3. mutexNR = h /\ e \notin {"espera_ts", "falla_ts", "exit_new", "cuenta_ready", "cuenta_exec", "cuenta_block"}
        BY <3>2 DEF Control, MutexTomado, Admite
      <3> QED
        BY <2>2, <3>1, <3>2, <3>3, ControlAdmision DEF UnlockNewToReady
    <2>3. CASE can_move_NEW_to_READY(h)
      <3>1. pc[h] \notin Ejecuta /\ pc[h] \in Admite /\ "cuenta_ready" \in Etiquetas \ Ejecuta
        BY <2>3 DEF can_move_NEW_to_READY, En, Ejecuta, Etiquetas, Admite
      <3>2. mutexNR = h
        BY <3>1 DEF Control, MutexTomado
      <3> QED
        BY <2>3, <3>1, <3>2, ControlAdmision DEF can_move_NEW_to_READY
    <2> QED
      BY <2>1, <2>2, <2>3
  <1> QED
    BY <1>2, <1>3

\* An answer on the socket is one of memoria's, about a process.
LEMMA RespondeTipo ==
    ASSUME TypeMem, NEW op \in RespuestasMem, NEW p \in Pid, Responde(op, p)
    PROVE  sockMem' \in Seq([op : RespuestasMem, pid : Pid])
  <1>1. [op |-> op, pid |-> p] \in [op : RespuestasMem, pid : Pid]
    OBVIOUS
  <1> QED
    BY <1>1 DEF TypeMem, Responde

\* What is read from the socket is an answer of memoria.
LEMMA SacaDelSocket ==
    ASSUME TypeMem, sockMem # <<>>
    PROVE  /\ Tail(sockMem) \in Seq([op : RespuestasMem, pid : Pid])
           /\ Head(sockMem).op \in RespuestasMem /\ Head(sockMem).pid \in Pid
  <1>1. /\ Head(sockMem) \in [op : RespuestasMem, pid : Pid]
        /\ Tail(sockMem) \in Seq([op : RespuestasMem, pid : Pid])
    BY PrimeroYResto DEF TypeMem
  <1> QED
    BY <1>1

\* The request for a table: NEW is not empty, whatever happened since it was looked at.
LEMMA PedirTablaTipos ==
    ASSUME Tipos, NEW h \in Hilos, PedirTabla(h)
    PROVE  Tipos'
  <1> USE DEF Tipos
  <1> DEFINE p == Head(cola["NEW"])
  <1>0. pc[h] = "cuenta_block"
    BY DEF PedirTabla, En
  <1>1. cola["NEW"] # <<>> /\ mutexNR = h
    BY <1>0 DEF Control, NuevoEspera, MutexTomado, Admite
  <1>2. p \in Pid
    BY <1>1, PrimeroYResto, ColasDistintas DEF TypeOK, TypeColas
  <1>3. /\ elegido' = [elegido EXCEPT ![h] = p] /\ enMemoria' = enMemoria \cup {p}
        /\ Responde("TSEGMENTOS", p) /\ Ir(h, "espera_ts")
        /\ suma' = [suma EXCEPT ![h] = 0] /\ UNCHANGED <<anidado, mutexNR, cola>>
    BY DEF PedirTabla
  <1> HIDE DEF p
  <1>4. TypeMem'
    <2>1. "TSEGMENTOS" \in RespuestasMem
      BY DEF RespuestasMem
    <2> QED
      BY <1>2, <1>3, <2>1, RespondeTipo DEF TypeOK, TypeMem
  <1>5. "espera_ts" \in Etiquetas \ Ejecuta /\ pc[h] \notin Ejecuta
    BY <1>0 DEF Etiquetas, Ejecuta
  <1>6. TypeHilos'
    BY <1>2, <1>3, <1>5 DEF TypeOK, TypeHilos, Ir
  <1>7. TypeOK'
    BY <1>4, <1>6, Inmoviles, OtrosTipos DEF PedirTabla
  <1>8. elegido'[h] \in Pid /\ \A g \in Hilos : g # h => elegido'[g] = elegido[g]
    BY <1>2, <1>3 DEF TypeOK, TypeHilos
  <1>9. Control'
    BY <1>1, <1>3, <1>5, <1>8, ControlAdmision
  <1> QED
    BY <1>7, <1>9

\* The answer, and the move it decides.
LEMMA AdmitirTipos ==
    ASSUME Tipos, NEW h \in Hilos, move_NEW_to_READY(h)
    PROVE  Tipos'
  <1> USE DEF Tipos
  <1> DEFINE p == elegido[h]
             r == Head(sockMem)
  <1>0. pc[h] = "espera_ts" /\ pc[h] \notin Ejecuta /\ pc[h] \in Admite
    BY DEF move_NEW_to_READY, En, Ejecuta, Admite
  <1>1. p \in Pid /\ mutexNR = h
    BY <1>0 DEF Control, Elegidos, MutexTomado
  <1>2. r.pid \in Pid /\ Tail(sockMem) \in Seq([op : RespuestasMem, pid : Pid])
    BY SacaDelSocket DEF TypeOK, move_NEW_to_READY
  <1>3. PICK a \in {"READY", "EXIT"}, e \in {"mira_new", "falla_ts"} :
            /\ cola' = move_pcb_from_to(p, "NEW", a) /\ Ir(h, e)
            /\ e = "falla_ts" => UNCHANGED elegido
    BY DEF move_NEW_to_READY
  <1>4. TypeColas'
    BY <1>1, <1>3, MoverTipo, ColasDistintas DEF TypeOK, TypeColas
  <1>5. TypePcb'
    BY <1>1, <1>2 DEF move_NEW_to_READY, TypeOK, TypePcb
  <1>6. TypeMem'
    BY <1>2 DEF move_NEW_to_READY, TypeOK, TypeMem
  <1>7. e \in Etiquetas \ Ejecuta
    BY <1>3 DEF Etiquetas, Ejecuta
  <1>8. elegido' \in [Hilos -> Pid \cup {nadie}]
    BY DEF move_NEW_to_READY, TypeOK, TypeHilos
  <1>9. TypeHilos'
    BY <1>3, <1>7, <1>8 DEF move_NEW_to_READY, TypeOK, TypeHilos, Ir
  <1>10. TypeOK'
    BY <1>4, <1>5, <1>6, <1>9, Inmoviles, OtrosTipos DEF move_NEW_to_READY
  <1>11. /\ \A g \in Hilos : g # h => elegido'[g] = elegido[g]
         /\ e = "falla_ts" => elegido'[h] \in Pid
    BY <1>1, <1>3 DEF move_NEW_to_READY, TypeOK, TypeHilos
  <1>12. UNCHANGED mutexNR /\ e \notin {"espera_ts", "exit_new", "cuenta_ready", "cuenta_exec", "cuenta_block"}
    BY DEF move_NEW_to_READY
  <1>13. Control'
    BY <1>0, <1>1, <1>3, <1>7, <1>11, <1>12, ControlAdmision
  <1> QED
    BY <1>10, <1>13

\* An admission that failed, and its EXIT.
LEMMA FallidaTipos ==
    ASSUME Tipos, NEW h \in Hilos, AdmisionFallida(h) \/ SigueAdmision(h)
    PROVE  Tipos'
  <1> USE DEF Tipos
  <1>1. /\ pc[h] \in {"falla_ts", "exit_new"} /\ pc[h] \in Admite /\ pc[h] \notin Ejecuta
    BY DEF AdmisionFallida, SigueAdmision, En, Admite, Ejecuta
  <1>2. elegido[h] \in Pid /\ mutexNR = h
    BY <1>1 DEF Control, Elegidos, MutexTomado
  <1>3. PICK e \in {"mira_new", "exit_new"} : Ir(h, e) /\ (e = "exit_new" => UNCHANGED elegido)
    BY DEF AdmisionFallida, SigueAdmision
  <1>4. e \in Etiquetas \ Ejecuta
    BY <1>3 DEF Etiquetas, Ejecuta
  <1>5. TypeHilos'
    BY <1>3, <1>4 DEF AdmisionFallida, SigueAdmision, TypeOK, TypeHilos, Ir
  <1>6. TypePcb'
    BY <1>2 DEF AdmisionFallida, SigueAdmision, TypeOK, TypePcb, pcbVars, Estados
  <1>7. saliendo' \in [Pid -> {"no", "avisar", "archivos", "recursos"}]
    BY <1>2 DEF AdmisionFallida, SigueAdmision, TypeOK
  <1>8. TypeOK'
    BY <1>5, <1>6, <1>7, Inmoviles DEF AdmisionFallida, SigueAdmision, TypeOK
  <1>9. /\ \A g \in Hilos : g # h => elegido'[g] = elegido[g]
        /\ e = "exit_new" => elegido'[h] \in Pid
        /\ UNCHANGED <<mutexNR, cola>>
    BY <1>2, <1>3 DEF AdmisionFallida, SigueAdmision, TypeOK, TypeHilos
  <1>10. Control'
    BY <1>1, <1>2, <1>3, <1>4, <1>9, ControlAdmision
  <1> QED
    BY <1>8, <1>10

\* The client thread sees the end of its process and tells the console.
LEMMA ConsolaTipos ==
    ASSUME Tipos, NEW p \in Pid, wait_to_end_process(p) \/ InformarConsola(p)
    PROVE  Tipos'
  <1> USE DEF Tipos
  <1>1. PICK e \in {"informa", "fin"} : Ir(p, e)
    BY DEF wait_to_end_process, InformarConsola
  <1>2. e \in Etiquetas \ Ejecuta /\ e \notin Admite /\ pc[p] \notin Ejecuta /\ p \in Hilos
    BY DEF Etiquetas, Ejecuta, Admite, wait_to_end_process, InformarConsola, En, Hilos
  <1>3. TypeHilos'
    BY <1>1, <1>2, IrTipo DEF TypeOK, wait_to_end_process, InformarConsola
  <1>4. TypePcb' /\ informado' \in [Pid -> Estados \cup {nadie}]
    BY DEF TypeOK, TypePcb, wait_to_end_process, InformarConsola, pcbVars, Estados
  <1>5. TypeOK'
    BY <1>3, <1>4, Inmoviles DEF TypeOK, wait_to_end_process, InformarConsola
  <1>6. Control'
    BY <1>1, <1>2, ControlAdmision DEF wait_to_end_process, InformarConsola, Admite
  <1> QED
    BY <1>5, <1>6

-----------------------------------------------------------------------------
(* The core                                                                *)

\* An eviction: the core has a pcb, and its count of calls stays within the bound.
LEMMA DesalojoTipo ==
    ASSUME Tipos, NEW i, Desalojo(i)
    PROVE  /\ Actual \in Pid /\ pc[core] \in Ejecuta /\ core \in Hilos
           /\ syscalls' \in [Pid -> 0..MaxSyscalls]
  <1>1. pc[core] \in Ejecuta /\ core \in Hilos
    BY DEF Desalojo, En, Ejecuta, Hilos
  <1>2. Actual \in Pid
    BY <1>1 DEF Tipos, Control, Elegidos, Actual
  <1> QED
    BY <1>1, <1>2, KernelAssumption DEF Tipos, TypeOK, Desalojo

\* What the handlers that return do to the threads.
LEMMA RetornoTipo ==
    ASSUME Tipos, pc[core] \in Ejecuta, Reanuda \/ Sale, UNCHANGED quietos,
           cola["NEW"] # <<>> => cola'["NEW"] # <<>>
    PROVE  TypeHilos' /\ Control' /\ end_program_flag' \in BOOLEAN
  <1>1. PICK e \in {"cpu", "mueve"} : Ir(core, e)
    BY DEF Reanuda, Sale
  <1>2. e \in Ejecuta /\ e \in Etiquetas
    BY DEF Ejecuta, Etiquetas
  <1>3. UNCHANGED <<suma, elegido, mutexNR, end_program_flag>> /\ anidado' \in BOOLEAN
    BY DEF quietos, Reanuda, Sale, Tipos, TypeOK, TypeHilos
  <1>4. TypeHilos'
    BY <1>1, <1>2, <1>3 DEF Tipos, TypeOK, TypeHilos, Ir
  <1>5. Control'
    BY <1>1, <1>2, <1>3, ControlCore
  <1> QED
    BY <1>3, <1>4, <1>5, Inmoviles DEF Tipos

\* A handler that ends its process.
LEMMA TerminaTipo ==
    ASSUME Tipos, Actual \in Pid, NEW codigo \in Estados, Termina(codigo),
           UNCHANGED <<open_files, shared, tabla>>
    PROVE  TypePcb' /\ Sale
  BY DEF Tipos, TypeOK, TypePcb, Termina, Siguiente

\* WAIT.
LEMMA WaitTipos ==
    ASSUME Tipos, NEW r \in Recursos, execute_wait(r)
    PROVE  Tipos'
  <1> USE DEF Tipos
  <1>1. Desalojo("WAIT") /\ (Reanuda \/ Sale) /\ UNCHANGED quietos /\ UNCHANGED cola
    BY DEF execute_wait
  <1>2. TypeHilos' /\ Control' /\ end_program_flag' \in BOOLEAN
    BY <1>1, DesalojoTipo, RetornoTipo
  <1>3. TypeRec'
    <2>1. /\ Actual \in Pid /\ r \in TRecurso
          /\ instancias' = [instancias EXCEPT ![r] = @ - 1] /\ UNCHANGED abiertos
          /\ \/ UNCHANGED bloqueados
             \/ bloqueados' = [bloqueados EXCEPT ![r] = Append(@, Actual)]
      BY <1>1, DesalojoTipo DEF execute_wait, TRecurso
    <2>2. bloqueados' \in [TRecurso -> Seq(Pid)]
      <3>1. Append(bloqueados[r], Actual) \in Seq(Pid)
        BY <2>1 DEF TypeOK, TypeRec
      <3> QED
        BY <2>1, <3>1 DEF TypeOK, TypeRec
    <2>3. instancias' \in [TRecurso -> Int] /\ abiertos' \subseteq Archivos
      BY <2>1 DEF TypeOK, TypeRec
    <2> QED
      BY <2>2, <2>3 DEF TypeRec
  <1>4. TypePcb'
    <2>1. /\ Actual \in Pid /\ UNCHANGED <<exit_status, open_files, tabla>>
          /\ shared' = [shared EXCEPT ![Actual] = Append(@, r)]
          /\ UNCHANGED next_queue \/ Siguiente("BLOCK")
      BY <1>1, DesalojoTipo DEF execute_wait
    <2>2. Append(shared[Actual], r) \in Seq(Recursos)
      BY <2>1 DEF TypeOK, TypePcb
    <2> QED
      BY <2>1, <2>2 DEF TypeOK, TypePcb, Siguiente
  <1> QED
    BY <1>1, <1>2, <1>3, <1>4, DesalojoTipo, Inmoviles DEF execute_wait, TypeOK, quietos

\* The first process that waits goes to READY; NEW is not touched.
LEMMA DespertarTipo ==
    ASSUME Tipos, NEW r \in TRecurso, DespertarPrimero(r)
    PROVE  /\ TypeColas' /\ bloqueados' \in [TRecurso -> Seq(Pid)]
           /\ cola'["NEW"] = cola["NEW"] /\ caida' \in {nadie, "kernel", "memoria"}
  <1> USE DEF Tipos
  <1>1. CASE bloqueados[r] = <<>>
    BY <1>1 DEF DespertarPrimero, TypeOK, TypeColas, TypeRec
  <1>2. CASE bloqueados[r] # <<>>
    <2> DEFINE p == Head(bloqueados[r])
    <2>1. p \in Pid /\ Tail(bloqueados[r]) \in Seq(Pid)
      BY <1>2, PrimeroYResto DEF TypeOK, TypeRec
    <2>2. /\ cola' = move_pcb_from_to(p, "BLOCK", "READY") /\ UNCHANGED caida
          /\ bloqueados' = [bloqueados EXCEPT ![r] = Tail(@)]
      BY <1>2 DEF DespertarPrimero
    <2> HIDE DEF p
    <2>3. TypeColas' /\ cola'["NEW"] = cola["NEW"]
      BY <2>1, <2>2, MoverSinNew, ColasDistintas DEF TypeOK, TypeColas
    <2> QED
      BY <2>1, <2>2, <2>3 DEF TypeOK, TypeRec
  <1> QED
    BY <1>1, <1>2

\* SIGNAL.
LEMMA SignalTipos ==
    ASSUME Tipos, NEW r \in Recursos, execute_signal(r)
    PROVE  Tipos'
  <1> USE DEF Tipos
  <1>1. Desalojo("SIGNAL") /\ Reanuda /\ UNCHANGED quietos /\ r \in TRecurso
    BY DEF execute_signal, TRecurso
  <1>2. /\ TypeColas' /\ bloqueados' \in [TRecurso -> Seq(Pid)]
        /\ cola'["NEW"] = cola["NEW"] /\ caida' \in {nadie, "kernel", "memoria"}
    BY <1>1, DespertarTipo DEF execute_signal, TypeOK, TypeColas, TypeRec
  <1>3. TypeHilos' /\ Control' /\ end_program_flag' \in BOOLEAN
    BY <1>1, <1>2, DesalojoTipo, RetornoTipo
  <1>4. TypeRec'
    <2>1. instancias' = [instancias EXCEPT ![r] = @ + 1] /\ UNCHANGED abiertos
      BY DEF execute_signal
    <2> QED
      BY <1>1, <1>2, <2>1 DEF TypeOK, TypeRec
  <1>5. TypePcb'
    <2>1. RemoveFirst(shared[Actual], r) \in Seq(Recursos)
      BY <1>1, DesalojoTipo, QuitarTipo DEF TypeOK, TypePcb
    <2> QED
      BY <2>1 DEF execute_signal, TypeOK, TypePcb
  <1> QED
    BY <1>1, <1>2, <1>3, <1>4, <1>5, DesalojoTipo, Inmoviles DEF execute_signal, TypeOK, quietos

\* The handlers that only end the process, sleep it or give up the CPU.
LEMMA TerminarTipos ==
    ASSUME Tipos,
           \/ RecursoInvalido \/ execute_exit \/ execute_yield
           \/ \E f \in Archivos : FopenFallido(f)
    PROVE  Tipos'
  <1> USE DEF Tipos
  <1>1. /\ En(core, "cpu") /\ UNCHANGED quietos
        /\ UNCHANGED <<cola, open_files, shared, tabla, recVars, fsVars, memVars, caida>>
    BY DEF RecursoInvalido, execute_exit, execute_yield, FopenFallido, Desalojo
  <1>2. Actual \in Pid /\ pc[core] \in Ejecuta
    BY <1>1 DEF En, Ejecuta, Control, Elegidos, Actual
  <1>3. syscalls' \in [Pid -> 0..MaxSyscalls]
    <2>1. UNCHANGED syscalls \/ \E i : Desalojo(i)
      BY DEF RecursoInvalido, execute_exit, execute_yield, FopenFallido
    <2> QED
      BY <2>1, DesalojoTipo DEF TypeOK
  <1>4. TypePcb' /\ Sale
    <2>1. CASE execute_yield
      BY <2>1, <1>1, <1>2 DEF execute_yield, Siguiente, TypeOK, TypePcb
    <2>2. CASE ~execute_yield
      <3>1. \E codigo \in Estados : Termina(codigo)
        BY <2>2 DEF RecursoInvalido, execute_exit, FopenFallido, Estados
      <3> QED
        BY <1>1, <1>2, <3>1, TerminaTipo
    <2> QED
      BY <2>1, <2>2
  <1>5. TypeHilos' /\ Control' /\ end_program_flag' \in BOOLEAN
    BY <1>1, <1>2, <1>4, RetornoTipo
  <1> QED
    BY <1>1, <1>3, <1>4, <1>5, Inmoviles DEF TypeOK, quietos

\* The handlers that leave the work to a thread.
LEMMA TareaNuevaTipos ==
    ASSUME Tipos, execute_io \/ \E i \in {"F_TRUNCATE", "F_RW"}, f \in Archivos : ProcesarArchivo(i, f)
    PROVE  Tipos'
  <1> USE DEF Tipos
  <1>1. /\ \E i : Desalojo(i)
        /\ Siguiente("BLOCK") /\ Sale /\ UNCHANGED quietos
        /\ \E t \in {DeIO(Actual), Archivo(Actual, "corre")} : tareas' = tareas \cup {t}
        /\ caida' \in {nadie, "kernel", "memoria"}
        /\ UNCHANGED <<cola, exit_status, open_files, shared, tabla, recVars, mutexFS,
                       compactation_flag, memVars>>
    BY DEF execute_io, ProcesarArchivo, TypeOK
  <1>2. /\ Actual \in Pid /\ pc[core] \in Ejecuta
        /\ syscalls' \in [Pid -> 0..MaxSyscalls]
    BY <1>1, DesalojoTipo
  <1>3. TypeFs'
    BY <1>1, <1>2 DEF TypeOK, TypeFs, Tareas, DeIO, Archivo
  <1>4. TypePcb'
    BY <1>1, <1>2 DEF TypeOK, TypePcb, Siguiente
  <1>5. TypeHilos' /\ Control' /\ end_program_flag' \in BOOLEAN
    BY <1>1, <1>2, RetornoTipo
  <1> QED
    BY <1>1, <1>2, <1>3, <1>4, <1>5, Inmoviles DEF TypeOK, quietos

\* What opening or closing a file does to the lists.
LEMMA LiberarTipo ==
    ASSUME Tipos, NEW f \in Archivos, LiberarArchivo(f)
    PROVE  /\ TypeColas' /\ TypeRec'
           /\ cola'["NEW"] = cola["NEW"] /\ caida' \in {nadie, "kernel", "memoria"}
  <1> USE DEF Tipos
  <1>0. f \in TRecurso
    BY DEF TRecurso
  <1>1. CASE instancias[f] + 1 > 0
    <2>1. /\ abiertos' = abiertos \ {f} /\ instancias' = [instancias EXCEPT ![f] = 1]
          /\ bloqueados' = [bloqueados EXCEPT ![f] = <<>>] /\ UNCHANGED <<cola, caida>>
      BY <1>1 DEF LiberarArchivo
    <2> QED
      BY <1>0, <2>1 DEF TypeOK, TypeRec, TypeColas
  <1>2. CASE ~(instancias[f] + 1 > 0)
    <2>1. /\ instancias' = [instancias EXCEPT ![f] = @ + 1] /\ UNCHANGED abiertos
          /\ DespertarPrimero(f)
      BY <1>2 DEF LiberarArchivo
    <2> QED
      BY <1>0, <2>1, DespertarTipo DEF TypeOK, TypeRec
  <1> QED
    BY <1>1, <1>2

\* F_OPEN, of a file in use and of a free one.
LEMMA AbrirTipos ==
    ASSUME Tipos, NEW f \in Archivos, FopenEnUso(f) \/ execute_fopen(f)
    PROVE  Tipos'
  <1> USE DEF Tipos
  <1>1. /\ Desalojo("F_OPEN") /\ (Reanuda \/ Sale) /\ UNCHANGED quietos
        /\ archivo_abierto_create(Actual, f)
        /\ UNCHANGED next_queue \/ Siguiente("BLOCK")
        /\ UNCHANGED <<cola, exit_status, shared, tabla, fsVars, memVars, caida>>
    BY DEF FopenEnUso, execute_fopen
  <1>2. /\ Actual \in Pid /\ pc[core] \in Ejecuta /\ f \in TRecurso
        /\ syscalls' \in [Pid -> 0..MaxSyscalls]
    BY <1>1, DesalojoTipo DEF TRecurso
  <1>3. TypeHilos' /\ Control' /\ end_program_flag' \in BOOLEAN
    BY <1>1, <1>2, RetornoTipo
  <1>4. TypePcb'
    <2>1. Append(open_files[Actual], f) \in Seq(Archivos)
      BY <1>2 DEF TypeOK, TypePcb
    <2> QED
      BY <1>1, <1>2, <2>1 DEF TypeOK, TypePcb, Siguiente, archivo_abierto_create
  <1>5. TypeRec'
    <2>1. Append(bloqueados[f], Actual) \in Seq(Pid)
      BY <1>2 DEF TypeOK, TypeRec
    <2>2. /\ \E s \in {<<>>, Append(bloqueados[f], Actual)} : bloqueados' = [bloqueados EXCEPT ![f] = s]
          /\ \E n \in {0, instancias[f] - 1} : instancias' = [instancias EXCEPT ![f] = n]
          /\ abiertos' \in {abiertos, abiertos \cup {f}}
      BY DEF FopenEnUso, execute_fopen
    <2>3. bloqueados' \in [TRecurso -> Seq(Pid)]
      <3>1. <<>> \in Seq(Pid) /\ bloqueados \in [TRecurso -> Seq(Pid)]
        BY DEF TypeOK, TypeRec
      <3>2. PICK s \in {<<>>, Append(bloqueados[f], Actual)} : bloqueados' = [bloqueados EXCEPT ![f] = s]
        BY <2>2
      <3>3. s \in Seq(Pid)
        BY <2>1, <3>1, <3>2
      <3> QED
        BY <1>2, <3>1, <3>2, <3>3
    <2>4. instancias' \in [TRecurso -> Int] /\ abiertos' \subseteq Archivos
      BY <1>2, <2>2 DEF TypeOK, TypeRec
    <2> QED
      BY <2>3, <2>4 DEF TypeRec
  <1> QED
    BY <1>1, <1>2, <1>3, <1>4, <1>5, Inmoviles DEF TypeOK, quietos

\* F_CLOSE and F_SEEK.
LEMMA CerrarTipos ==
    ASSUME Tipos, NEW f \in Archivos, execute_fclose(f) \/ execute_fseek(f)
    PROVE  Tipos'
  <1> USE DEF Tipos
  <1>1. /\ \E i : Desalojo(i)
        /\ Reanuda /\ UNCHANGED quietos
        /\ UNCHANGED <<next_queue, exit_status, shared, tabla, fsVars, memVars>>
    BY DEF execute_fclose, execute_fseek, pcbVars
  <1>2. /\ Actual \in Pid /\ pc[core] \in Ejecuta
        /\ syscalls' \in [Pid -> 0..MaxSyscalls]
    BY <1>1, DesalojoTipo
  <1>3. /\ TypeColas' /\ TypeRec'
        /\ cola'["NEW"] = cola["NEW"] /\ caida' \in {nadie, "kernel", "memoria"}
    <2>1. CASE LiberarArchivo(f)
      BY <2>1, LiberarTipo
    <2>2. CASE UNCHANGED <<cola, recVars, caida>>
      BY <2>2, Inmoviles DEF TypeOK
    <2> QED
      BY <2>1, <2>2 DEF execute_fclose, execute_fseek
  <1>4. TypeHilos' /\ Control' /\ end_program_flag' \in BOOLEAN
    BY <1>1, <1>2, <1>3, RetornoTipo
  <1>5. TypePcb'
    <2>1. RemoveFirst(open_files[Actual], f) \in Seq(Archivos)
      BY <1>2, QuitarTipo DEF TypeOK, TypePcb
    <2>2. \/ open_files' = open_files
          \/ open_files' = [open_files EXCEPT ![Actual] = RemoveFirst(@, f)]
      BY DEF execute_fclose, execute_fseek, pcbVars
    <2>3. open_files' \in [Pid -> Seq(Archivos)]
      BY <1>2, <2>1, <2>2 DEF TypeOK, TypePcb
    <2> QED
      BY <1>1, <2>3 DEF TypeOK, TypePcb
  <1> QED
    BY <1>1, <1>2, <1>3, <1>4, <1>5, Inmoviles DEF TypeOK, quietos

\* A request of the core to memoria, on the socket it shares with the clients.
LEMMA PedidoTipos ==
    ASSUME Tipos, execute_create_segment \/ execute_delete_segment \/ ReintentarSegmento
    PROVE  Tipos'
  <1> USE DEF Tipos
  <1>1. /\ pc[core] \in {"cpu", "reintenta"}
        /\ UNCHANGED <<cola, pcbVars, recVars, anidado, fsVars, enMemoria, quietos, caida>>
    BY DEF execute_create_segment, execute_delete_segment, ReintentarSegmento, Desalojo, En
  <1>2. Actual \in Pid /\ pc[core] \in Ejecuta /\ core \in Hilos
    BY <1>1 DEF Ejecuta, Control, Elegidos, Actual, Hilos
  <1>3. syscalls' \in [Pid -> 0..MaxSyscalls]
    <2>1. UNCHANGED syscalls \/ \E i : Desalojo(i)
      BY DEF execute_create_segment, execute_delete_segment, ReintentarSegmento
    <2> QED
      BY <2>1, DesalojoTipo DEF TypeOK
  <1>4. TypeMem'
    <2>1. \E op \in RespuestasMem : Responde(op, Actual)
      BY DEF execute_create_segment, execute_delete_segment, ReintentarSegmento, RespuestasMem
    <2> QED
      BY <1>1, <1>2, <2>1, RespondeTipo DEF TypeOK, TypeMem
  <1>5. TypeHilos' /\ Control'
    <2>1. PICK e \in {"espera_seg", "espera_tabla"} : Ir(core, e)
      BY DEF execute_create_segment, execute_delete_segment, ReintentarSegmento
    <2>2. e \in Ejecuta /\ e \in Etiquetas
      BY DEF Ejecuta, Etiquetas
    <2> QED
      BY <1>1, <1>2, <2>1, <2>2, IrTipo, ControlCore DEF TypeOK, quietos
  <1> QED
    BY <1>1, <1>3, <1>4, <1>5, Inmoviles DEF TypeOK, quietos

\* The answers to the handlers of segments.
LEMMA RespuestaTipos ==
    ASSUME Tipos, RecibirSegmento \/ RecibirTabla
    PROVE  Tipos'
  <1> USE DEF Tipos
  <1> DEFINE r == Head(sockMem)
  <1>1. /\ pc[core] \in {"espera_seg", "espera_tabla"} /\ sockMem # <<>> /\ sockMem' = Tail(sockMem)
        /\ UNCHANGED <<cola, open_files, shared, recVars, mutexFS, tareas,
                       enMemoria, quietos, syscalls, caida>>
    BY DEF RecibirSegmento, RecibirTabla, En, fsVars
  <1>2. Actual \in Pid /\ pc[core] \in Ejecuta /\ core \in Hilos
    BY <1>1 DEF Ejecuta, Control, Elegidos, Actual, Hilos
  <1>3. TypeMem' /\ r.pid \in Pid
    BY <1>1, SacaDelSocket DEF TypeOK, TypeMem
  <1>4. TypeFs'
    BY <1>1 DEF RecibirSegmento, RecibirTabla, TypeOK, TypeFs, fsVars, Termina
  <1>5. TypePcb'
    <2>1. \/ UNCHANGED <<next_queue, exit_status>>
          \/ \E codigo \in Estados : Siguiente("EXIT") /\ exit_status' = [exit_status EXCEPT ![Actual] = codigo]
      BY DEF RecibirSegmento, RecibirTabla, Termina, Estados
    <2>2. tabla' = tabla \/ tabla' = [tabla EXCEPT ![Actual] = r.pid]
      BY DEF RecibirSegmento, RecibirTabla
    <2> HIDE DEF r
    <2>3. /\ next_queue' \in [Pid -> {"READY", "BLOCK", "EXIT"}]
          /\ exit_status' \in [Pid -> Estados]
      <3>1. CASE UNCHANGED <<next_queue, exit_status>>
        BY <3>1 DEF TypeOK, TypePcb
      <3>2. CASE ~UNCHANGED <<next_queue, exit_status>>
        <4>1. PICK codigo \in Estados : /\ next_queue' = [next_queue EXCEPT ![Actual] = "EXIT"]
                                        /\ exit_status' = [exit_status EXCEPT ![Actual] = codigo]
          BY <2>1, <3>2 DEF Siguiente
        <4> QED
          BY <1>2, <4>1 DEF TypeOK, TypePcb
      <3> QED
        BY <3>1, <3>2
    <2>4. tabla' \in [Pid -> Pid]
      BY <1>2, <1>3, <2>2 DEF TypeOK, TypePcb
    <2> QED
      BY <1>1, <2>3, <2>4 DEF TypeOK, TypePcb
  <1>6. TypeHilos' /\ Control' /\ end_program_flag' \in BOOLEAN
    <2>1. CASE Reanuda \/ Sale
      BY <1>1, <1>2, <2>1, RetornoTipo
    <2>2. CASE Ir(core, "compacta_lock") /\ UNCHANGED anidado
      <3>1. "compacta_lock" \in Ejecuta /\ "compacta_lock" \in Etiquetas
        BY DEF Ejecuta, Etiquetas
      <3> QED
        BY <1>1, <1>2, <2>2, <3>1, IrTipo, ControlCore, Inmoviles DEF TypeOK, quietos
    <2> QED
      BY <2>1, <2>2 DEF RecibirSegmento, RecibirTabla, Termina
  <1> QED
    BY <1>1, <1>3, <1>4, <1>5, <1>6, Inmoviles DEF TypeOK, quietos

\* The compaction.
LEMMA CompactarTipos ==
    ASSUME Tipos, compactar \/ FinCompactar
    PROVE  Tipos'
  <1> USE DEF Tipos
  <1>1. /\ pc[core] \in {"compacta_lock", "compacta_espera"}
        /\ UNCHANGED <<cola, next_queue, exit_status, open_files, shared, recVars, suma, elegido,
                       anidado, mutexNR, tareas, enMemoria, saliendo, syscalls, informado, caida>>
    BY DEF compactar, FinCompactar, En, quietos, pcbVars
  <1>2. Actual \in Pid /\ pc[core] \in Ejecuta /\ core \in Hilos
    BY <1>1 DEF Ejecuta, Control, Elegidos, Actual, Hilos
  <1>3. TypeMem'
    <2>1. "LTSEGMENTOS" \in RespuestasMem
      BY DEF RespuestasMem
    <2>2. sockMem' \in Seq([op : RespuestasMem, pid : Pid])
      BY <1>2, <2>1, RespondeTipo, SacaDelSocket DEF compactar, FinCompactar, TypeOK
    <2> QED
      BY <1>1, <2>2 DEF TypeOK, TypeMem
  <1>4. TypeFs'
    BY <1>1, <1>2 DEF compactar, FinCompactar, TypeOK, TypeFs
  <1>5. TypePcb'
    <2>1. tabla' \in [Pid -> Pid]
      BY DEF compactar, FinCompactar, actualizar_tablas, TypeOK, TypePcb, pcbVars
    <2> QED
      BY <1>1, <2>1 DEF TypeOK, TypePcb
  <1>6. end_program_flag' \in BOOLEAN
    BY <1>1 DEF compactar, FinCompactar, TypeOK, quietos
  <1>7. TypeHilos' /\ Control'
    <2>1. PICK e \in {"compacta_espera", "reintenta"} : Ir(core, e)
      BY DEF compactar, FinCompactar
    <2>2. e \in Ejecuta /\ e \in Etiquetas
      BY DEF Ejecuta, Etiquetas
    <2> QED
      BY <1>1, <1>2, <2>1, <2>2, IrTipo, ControlCore DEF TypeOK
  <1> QED
    BY <1>1, <1>3, <1>4, <1>5, <1>6, <1>7, Inmoviles DEF TypeOK

\* The core takes a process from READY, or finds nothing to run.
LEMMA DespacharTipos ==
    ASSUME Tipos, move_READY_to_EXEC \/ NadaQueDespachar
    PROVE  Tipos'
  <1> USE DEF Tipos
  <1>1. pc[core] = "despacha" /\ core \in Hilos
    BY DEF move_READY_to_EXEC, NadaQueDespachar, En, Hilos
  <1>2. CASE move_READY_to_EXEC
    <2>1. PICK p \in Candidatos : /\ cola' = move_pcb_from_to(p, "READY", "EXEC")
                                  /\ elegido' = [elegido EXCEPT ![core] = p]
      BY <1>2 DEF move_READY_to_EXEC
    <2>2. p \in Pid
      <3>1. cola["READY"] \in Seq(Pid) /\ cola["READY"] # <<>>
        BY <1>2, ColasDistintas DEF move_READY_to_EXEC, TypeOK, TypeColas
      <3>2. \A q \in ToSet(cola["READY"]) : q \in Pid
        BY <3>1 DEF ToSet
      <3> QED
        BY <3>1, <3>2, PrimeroYResto DEF Candidatos
    <2>3. TypeColas' /\ cola'["NEW"] = cola["NEW"]
      <3>1. TypeColas
        BY DEF TypeOK
      <3>2. move_pcb_from_to(p, "READY", "EXEC") \in [Colas -> Seq(Pid)]
        BY <2>2, <3>1, MoverTipo, ColasDistintas
      <3>3. move_pcb_from_to(p, "READY", "EXEC")["NEW"] = cola["NEW"]
        BY <3>1, MoverAparte, ColasDistintas
      <3> QED
        BY <2>1, <3>2, <3>3 DEF TypeColas
    <2>4. Ir(core, "cpu") /\ UNCHANGED <<suma, anidado, mutexNR>> /\ "cpu" \in Etiquetas
      BY <1>2 DEF move_READY_to_EXEC, Etiquetas
    <2>5. TypeHilos'
      BY <2>1, <2>2, <2>4, <1>1 DEF TypeOK, TypeHilos, Ir
    <2>6. TypeOK'
      BY <1>2, <2>3, <2>5, Inmoviles, OtrosTipos DEF move_READY_to_EXEC
    <2>7. /\ pc'[core] = "cpu" /\ elegido'[core] \in Pid
          /\ \A h \in Hilos : h # core => pc'[h] = pc[h] /\ elegido'[h] = elegido[h]
      BY <1>1, <2>1, <2>2, <2>4 DEF TypeOK, TypeHilos, Ir
    <2>8. Elegidos'
      BY <2>7 DEF Control, Elegidos
    <2>9. MutexTomado'
      BY <2>4, <2>7 DEF Control, MutexTomado, Admite
    <2>10. NuevoEspera'
      BY <2>3, <2>7 DEF Control, NuevoEspera
    <2> QED
      BY <2>6, <2>8, <2>9, <2>10 DEF Control
  <1>3. CASE NadaQueDespachar
    <2>1. "lock_nr" \in Etiquetas \ Ejecuta /\ "lock_nr" \notin Admite /\ pc[core] \notin Ejecuta
      BY <1>1 DEF Etiquetas, Ejecuta, Admite
    <2>2. TypeHilos'
      BY <1>1, <1>3, <2>1, IrTipo DEF NadaQueDespachar, TypeOK
    <2>3. TypeOK'
      BY <1>3, <2>2, Inmoviles, OtrosTipos DEF NadaQueDespachar
    <2>4. Control'
      BY <1>1, <1>3, <2>1, ControlAdmision DEF NadaQueDespachar
    <2> QED
      BY <2>3, <2>4
  <1> QED
    BY <1>2, <1>3

\* The core moves what it evicted, the CPU gave no context, or EXIT has returned.
LEMMA FinExecTipos ==
    ASSUME Tipos, MoverDesalojado \/ RespuestaNula \/ FinExec
    PROVE  Tipos'
  <1> USE DEF Tipos
  <1>1. /\ pc[core] \in {"mueve", "cpu", "exit_exec", "exit_otra_vez"}
        /\ UNCHANGED <<open_files, shared, tabla, recVars, suma, mutexNR, fsVars, memVars,
                       syscalls, informado, end_program_flag, caida>>
    BY DEF MoverDesalojado, RespuestaNula, FinExec, En, pcbVars
  <1>2. Actual \in Pid /\ pc[core] \in Ejecuta /\ core \in Hilos
    BY <1>1 DEF Ejecuta, Control, Elegidos, Actual, Hilos
  <1>3. TypePcb'
    BY <1>1, <1>2 DEF MoverDesalojado, RespuestaNula, FinExec, TypeOK, TypePcb, Siguiente, Estados, pcbVars
  <1>4. TypeColas' /\ cola'["NEW"] = cola["NEW"]
    <2>1. \/ UNCHANGED cola
          \/ \E a \in {"READY", "BLOCK", "EXIT"} : cola' = move_pcb_from_to(Actual, "EXEC", a)
      BY <1>2 DEF MoverDesalojado, RespuestaNula, FinExec, TypeOK, TypePcb
    <2> QED
      BY <1>2, <2>1, MoverSinNew, ColasDistintas DEF TypeOK, TypeColas
  <1>5. saliendo' \in [Pid -> {"no", "avisar", "archivos", "recursos"}]
    BY <1>2 DEF MoverDesalojado, RespuestaNula, FinExec, TypeOK
  <1>6. PICK e \in {"exit_exec", "exit_otra_vez", "lock_nr", "mueve"} :
              /\ Ir(core, e)
              /\ \/ UNCHANGED elegido
                 \/ e = "lock_nr" /\ elegido' = [elegido EXCEPT ![core] = nadie]
    BY DEF MoverDesalojado, RespuestaNula, FinExec
  <1>7. e \in Ejecuta \cup {"lock_nr"} /\ e \in Etiquetas
    BY <1>6 DEF Ejecuta, Etiquetas
  <1>8. TypeHilos'
    <2>1. anidado' \in BOOLEAN
      BY DEF MoverDesalojado, RespuestaNula, FinExec, TypeOK, TypeHilos
    <2> QED
      BY <1>1, <1>2, <1>6, <1>7, <2>1 DEF TypeOK, TypeHilos, Ir
  <1>9. Control'
    BY <1>1, <1>2, <1>4, <1>6, <1>7, ControlCore
  <1> QED
    BY <1>1, <1>3, <1>4, <1>5, <1>8, <1>9, Inmoviles DEF TypeOK

-----------------------------------------------------------------------------
(* EXIT, the threads of the I/O and of the files, the operator             *)

\* EXIT(pcb).
LEMMA ExitTipos ==
    ASSUME Tipos, NEW p \in Pid, Exit(p)
    PROVE  Tipos'
  <1> USE DEF Tipos
  <1>1. CASE ExitAvisar(p) \/ ExitArchivosFin(p) \/ ExitFin(p)
    <2>1. /\ UNCHANGED <<cola, pcbVars, recVars, hilosVars, fsVars, sockMem, syscalls, informado, end_program_flag>>
          /\ enMemoria' \subseteq enMemoria /\ caida' \in {caida, "memoria"}
      BY <1>1 DEF ExitAvisar, ExitArchivosFin, ExitFin, memVars
    <2>2. saliendo' \in [Pid -> {"no", "avisar", "archivos", "recursos"}]
      BY <1>1 DEF ExitAvisar, ExitArchivosFin, ExitFin, TypeOK
    <2>3. TypeMem'
      BY <2>1 DEF TypeOK, TypeMem
    <2>4. Control'
      BY <2>1, ControlQuieto DEF hilosVars
    <2> QED
      BY <2>1, <2>2, <2>3, <2>4, Inmoviles DEF TypeOK
  <1>2. CASE ExitArchivo(p)
    <2> DEFINE f == Head(open_files[p])
    <2>1. f \in Archivos /\ Tail(open_files[p]) \in Seq(Archivos)
      BY <1>2, PrimeroYResto DEF ExitArchivo, TypeOK, TypePcb
    <2>2. LiberarArchivo(f)
      BY <1>2 DEF ExitArchivo
    <2> HIDE DEF f
    <2>3. /\ TypeColas' /\ TypeRec'
          /\ cola'["NEW"] = cola["NEW"] /\ caida' \in {nadie, "kernel", "memoria"}
      BY <2>1, <2>2, LiberarTipo
    <2>4. TypePcb'
      <3>1. open_files' \in [Pid -> Seq(Archivos)]
        BY <1>2, <2>1 DEF ExitArchivo, TypeOK, TypePcb
      <3> QED
        BY <1>2, <3>1 DEF ExitArchivo, TypeOK, TypePcb
    <2>5. Control'
      BY <1>2, <2>3, ControlQuieto DEF ExitArchivo, hilosVars
    <2> QED
      BY <1>2, <2>3, <2>4, <2>5, Inmoviles DEF ExitArchivo, TypeOK
  <1>3. CASE ExitRecurso(p)
    <2> DEFINE r == Head(shared[p])
    <2>1. r \in Recursos /\ r \in TRecurso /\ Tail(shared[p]) \in Seq(Recursos)
      BY <1>3, PrimeroYResto DEF ExitRecurso, TypeOK, TypePcb, TRecurso
    <2>2. /\ instancias' = [instancias EXCEPT ![r] = @ + 1]
          /\ \/ bloqueados' = [bloqueados EXCEPT ![r] = RemoveFirst(@, p)] /\ UNCHANGED <<cola, caida>>
             \/ DespertarPrimero(r)
             \/ UNCHANGED <<cola, bloqueados, caida>>
      BY <1>3 DEF ExitRecurso
    <2> HIDE DEF r
    <2>3. /\ TypeColas' /\ bloqueados' \in [TRecurso -> Seq(Pid)]
          /\ cola'["NEW"] = cola["NEW"] /\ caida' \in {nadie, "kernel", "memoria"}
      <3>1. RemoveFirst(bloqueados[r], p) \in Seq(Pid)
        BY <2>1, QuitarTipo DEF TypeOK, TypeRec
      <3>2. CASE bloqueados' = [bloqueados EXCEPT ![r] = RemoveFirst(@, p)] /\ UNCHANGED <<cola, caida>>
        BY <3>1, <3>2 DEF TypeOK, TypeColas, TypeRec
      <3>3. CASE DespertarPrimero(r)
        BY <2>1, <3>3, DespertarTipo
      <3>4. CASE UNCHANGED <<cola, bloqueados, caida>>
        BY <3>4 DEF TypeOK, TypeColas, TypeRec
      <3> QED
        BY <2>2, <3>2, <3>3, <3>4
    <2>4. TypeRec'
      <3>1. UNCHANGED abiertos
        BY <1>3 DEF ExitRecurso
      <3>2. instancias' \in [TRecurso -> Int]
        BY <2>1, <2>2 DEF TypeOK, TypeRec
      <3> QED
        BY <2>3, <3>1, <3>2 DEF TypeOK, TypeRec
    <2>5. TypePcb'
      <3>1. shared' \in [Pid -> Seq(Recursos)]
        BY <1>3, <2>1 DEF ExitRecurso, TypeOK, TypePcb
      <3> QED
        BY <1>3, <3>1 DEF ExitRecurso, TypeOK, TypePcb
    <2>6. Control'
      BY <1>3, <2>3, ControlQuieto DEF ExitRecurso, hilosVars
    <2> QED
      BY <1>3, <2>3, <2>4, <2>5, <2>6, Inmoviles DEF ExitRecurso, TypeOK
  <1> QED
    BY <1>1, <1>2, <1>3 DEF Exit

\* The threads io and file_processing.
LEMMA TareaTipos ==
    ASSUME Tipos, NEW p \in Pid, Tarea(p)
    PROVE  Tipos'
  <1> USE DEF Tipos
  <1>1. /\ UNCHANGED <<pcbVars, recVars, hilosVars, compactation_flag, memVars, saliendo, syscalls,
                       informado, end_program_flag, caida>>
    BY DEF Tarea, io, MirarCompactacion, AbandonarArchivo, EnviarFS, RecibirFS, ArchivoListo, pcbVars
  <1>4. TypeFs'
    <2>1. mutexFS' \in {mutexFS, p, nadie}
      BY DEF Tarea, io, MirarCompactacion, AbandonarArchivo, EnviarFS, RecibirFS, ArchivoListo
    <2>2. \/ tareas' \subseteq tareas
          \/ \E paso \in {"pide_fs", "en_fs", "ok"} :
                tareas' \subseteq tareas \cup {Archivo(p, paso)}
      BY DEF Tarea, io, MirarCompactacion, AbandonarArchivo, EnviarFS, RecibirFS, ArchivoListo, Pasa
    <2>3. tareas' \subseteq Tareas
      BY <2>2 DEF TypeOK, TypeFs, Tareas, Archivo
    <2> QED
      BY <1>1, <2>1, <2>3 DEF TypeOK, TypeFs, Hilos
  <1>5. TypeColas' /\ cola'["NEW"] = cola["NEW"]
    <2>1. \/ UNCHANGED cola
          \/ cola' = move_pcb_from_to(p, "BLOCK", "READY")
      BY DEF Tarea, io, MirarCompactacion, AbandonarArchivo, EnviarFS, RecibirFS, ArchivoListo
    <2> QED
      BY <2>1, MoverSinNew, ColasDistintas DEF TypeOK, TypeColas
  <1>6. Control'
    BY <1>1, <1>5, ControlQuieto DEF hilosVars
  <1> QED
    BY <1>1, <1>4, <1>5, <1>6, Inmoviles DEF TypeOK

\* The operator ends the kernel.
LEMMA OperadorTipos ==
    ASSUME Tipos, Apagar
    PROVE  Tipos'
  <1> USE DEF Tipos
  <1>1. /\ UNCHANGED <<cola, pcbVars, recVars, hilosVars, fsVars, memVars, saliendo, syscalls, informado, caida>>
        /\ end_program_flag' \in BOOLEAN
    BY DEF Apagar
  <1>2. Control'
    BY <1>1, ControlQuieto DEF hilosVars
  <1> QED
    BY <1>1, <1>2, Inmoviles, OtrosTipos

\* The start.
LEMMA InitTipos == Init => Tipos
  <1> SUFFICES ASSUME Init PROVE Tipos
    OBVIOUS
  <1> USE DEF Init
  <1>1. TypeColas /\ TypePcb /\ TypeFs /\ TypeMem /\ end_program_flag \in BOOLEAN
    <2>1. TypeColas
      BY DEF InitColas, TypeColas
    <2>2. TypePcb
      BY DEF InitPcbs, TypePcb, Estados
    <2>3. TypeFs /\ TypeMem /\ end_program_flag \in BOOLEAN
      <3>1. \A S : <<>> \in Seq(S)
        OBVIOUS
      <3> QED
        BY <3>1 DEF TypeFs, TypeMem
    <2> QED
      BY <2>1, <2>2, <2>3
  <1>2. TypeRec
    BY KernelAssumption DEF InitRecursos, TypeRec, TRecurso
  <1>3. TypeHilos
    BY DEF InitHilos, TypeHilos, Etiquetas
  <1>4. TypeOK
    BY <1>1, <1>2, <1>3, KernelAssumption DEF InitPcbs, TypeOK
  <1>5. Control
    BY KernelAssumption DEF InitHilos, Control, Elegidos, MutexTomado, NuevoEspera, Admite, Ejecuta, Hilos
  <1> QED
    BY <1>4, <1>5 DEF Tipos

\* Every step keeps the types and the control facts they rest on.
LEMMA NextTipos ==
    ASSUME Tipos, [Next]_vars
    PROVE  Tipos'
  <1>1. ASSUME NEW p \in Pid, process_instrucciones(p) \/ Cliente(p) \/ Exit(p) \/ Tarea(p)
        PROVE  Tipos'
    BY <1>1, AltaTipos, AgregarTipos, ConsolaTipos, ExitTipos, TareaTipos DEF Cliente
  <1>2. ASSUME NEW h \in Hilos, Admision(h) PROVE Tipos'
    BY <1>2, SumaTipos, MutexTipos, PedirTablaTipos, AdmitirTipos, FallidaTipos DEF Admision
  <1>3. CASE Manejador
    BY <1>3, WaitTipos, SignalTipos, TerminarTipos, TareaNuevaTipos, AbrirTipos, CerrarTipos,
       PedidoTipos, FinExecTipos DEF Manejador
  <1>4. CASE NucleoInterno
    BY <1>4, DespacharTipos, FinExecTipos, PedidoTipos, RespuestaTipos, CompactarTipos
       DEF NucleoInterno
  <1>5. CASE Apagar
    BY <1>5, OperadorTipos
  <1>6. CASE UNCHANGED vars
    <2>1. TypeOK'
      BY <1>6, Inmoviles DEF vars, Tipos, TypeOK
    <2>2. Control'
      BY <1>6, ControlQuieto DEF vars, hilosVars
    <2> QED
      BY <2>1, <2>2 DEF Tipos
  <1> QED
    BY <1>1, <1>2, <1>3, <1>4, <1>5, <1>6 DEF Next

\* Every variable of the kernel stays in its type whatever the threads, the programs and
\* the answers are: no thread takes the head of an empty list, and no answer is read
\* that is not there.
THEOREM KernelTipos == Spec => []TypeOK
  <1>1. Init => Tipos
    BY InitTipos
  <1>2. Tipos /\ [Next]_vars => Tipos'
    BY NextTipos
  <1>3. Tipos => TypeOK
    BY DEF Tipos
  <1> QED
    BY <1>1, <1>2, <1>3, PTL DEF Spec

-----------------------------------------------------------------------------
(* mutex_fs_connection                                                     *)

\* Whoever uses the filesystem, or keeps it still, holds mutex_fs_connection.
MutexFS ==
    /\ pc[core] = "compacta_espera" => mutexFS = core
    /\ \A t \in tareas : t.paso = "en_fs" => mutexFS = t.pid /\ t.tipo = "file"

\* A step that has nothing to do with it.
FueraDeFS ==
    /\ mutexFS' = mutexFS
    /\ pc'[core] = "compacta_espera" => pc[core] = "compacta_espera"
    /\ \A t \in tareas' : t.paso = "en_fs" => t \in tareas

\* Such a step keeps the mutex with who has it.
LEMMA FueraDeFSConserva == ASSUME MutexFS, FueraDeFS PROVE MutexFS'
  BY DEF MutexFS, FueraDeFS

\* Threads that admit and clients.
LEMMA AdmisionFueraDeFS ==
    ASSUME Tipos, \/ \E p \in Pid : process_instrucciones(p) \/ Cliente(p)
                  \/ \E h \in Hilos : Admision(h)
    PROVE  FueraDeFS
  <1>1. UNCHANGED fsVars
    BY DEF process_instrucciones, Cliente, accept_new_process_in_READY, add_pcb_to_queue,
           wait_to_end_process, InformarConsola, Admision, get_actual_multiprog, LockNewToReady,
           UnlockNewToReady, can_move_NEW_to_READY, PedirTabla, move_NEW_to_READY,
           AdmisionFallida, SigueAdmision
  <1>2. PICK h \in Hilos, e \in Etiquetas : Ir(h, e) /\ e # "compacta_espera"
    <2>1. CASE \E p \in Pid : process_instrucciones(p) \/ Cliente(p)
      BY <2>1 DEF process_instrucciones, Cliente, accept_new_process_in_READY, add_pcb_to_queue,
                  wait_to_end_process, InformarConsola, Hilos, Etiquetas
    <2>2. CASE \E h \in Hilos : get_actual_multiprog(h)
      <3>1. PICK h \in Hilos : get_actual_multiprog(h)
        BY <2>2
      <3>2. Lectura[pc[h]].sigue \in Etiquetas \ {"compacta_espera"} /\ Ir(h, Lectura[pc[h]].sigue)
        BY <3>1 DEF get_actual_multiprog, Lectura, Etiquetas
      <3> QED
        BY <3>2
    <2>3. CASE \E h \in Hilos : Admision(h) /\ ~get_actual_multiprog(h)
      BY <2>3 DEF Admision, LockNewToReady,
           UnlockNewToReady, can_move_NEW_to_READY, PedirTabla, move_NEW_to_READY,
           AdmisionFallida, SigueAdmision, Etiquetas
    <2> QED
      BY <2>1, <2>2, <2>3
  <1> QED
    BY <1>1, <1>2 DEF fsVars, FueraDeFS, Ir, Tipos, TypeOK, TypeHilos

\* Handlers and what the core does on its own.
LEMMA CoreFueraDeFS ==
    ASSUME Tipos, Manejador \/ NucleoInterno, ~compactar, ~FinCompactar
    PROVE  FueraDeFS
  <1> USE DEF Reanuda, Sale, Termina
  <1>1. CASE Manejador
    <2>1. mutexFS' = mutexFS
      BY <1>1 DEF Manejador, execute_wait, execute_signal, RecursoInvalido, execute_io, execute_yield,
             execute_exit, ProcesarArchivo, FopenEnUso, execute_fopen, FopenFallido, execute_fclose,
             execute_fseek, execute_create_segment, execute_delete_segment, RespuestaNula, fsVars
    <2>2. tareas' = tareas \/ tareas' = tareas \cup {DeIO(Actual)} \/ tareas' = tareas \cup {Archivo(Actual, "corre")}
      BY <1>1 DEF Manejador, execute_wait, execute_signal, RecursoInvalido, execute_io, execute_yield,
             execute_exit, ProcesarArchivo, FopenEnUso, execute_fopen, FopenFallido, execute_fclose,
             execute_fseek, execute_create_segment, execute_delete_segment, RespuestaNula, fsVars
    <2>3. \E e \in {"cpu", "mueve", "espera_seg", "espera_tabla", "exit_exec", "exit_otra_vez"} : Ir(core, e)
      BY <1>1 DEF Manejador, execute_wait, execute_signal, RecursoInvalido, execute_io, execute_yield,
             execute_exit, ProcesarArchivo, FopenEnUso, execute_fopen, FopenFallido, execute_fclose,
             execute_fseek, execute_create_segment, execute_delete_segment, RespuestaNula
    <2> QED
      BY <2>1, <2>2, <2>3 DEF FueraDeFS, Ir, Tipos, TypeOK, TypeHilos, Hilos, DeIO, Archivo
  <1>2. CASE NucleoInterno
    <2>1. mutexFS' = mutexFS /\ tareas' = tareas
      BY <1>2 DEF NucleoInterno, move_READY_to_EXEC, NadaQueDespachar, MoverDesalojado, FinExec,
             ReintentarSegmento, RecibirSegmento, RecibirTabla, fsVars
    <2>2. \E e \in {"cpu", "mueve", "espera_seg", "exit_exec", "lock_nr", "compacta_lock"} : Ir(core, e)
      BY <1>2 DEF NucleoInterno, move_READY_to_EXEC, NadaQueDespachar, MoverDesalojado, FinExec,
             ReintentarSegmento, RecibirSegmento, RecibirTabla
    <2> QED
      BY <2>1, <2>2 DEF FueraDeFS, Ir, Tipos, TypeOK, TypeHilos, Hilos
  <1> QED
    BY <1>1, <1>2

\* The steps that take and leave the mutex, and the other steps of the same threads.
LEMMA TareaMutexFS ==
    ASSUME Tipos, MutexFS, NEW p \in Pid, Tarea(p)
    PROVE  MutexFS'
  <1> USE DEF MutexFS, Tipos
  <1>0. pc' = pc /\ core \notin Pid /\ nadie \notin Pid
    BY KernelAssumption DEF Tarea, io, MirarCompactacion, AbandonarArchivo, EnviarFS, RecibirFS,
           ArchivoListo, hilosVars
  <1>1. CASE EnviarFS(p)
    <2>1. \A t \in tareas : t.paso # "en_fs"
      BY <1>0, <1>1 DEF EnviarFS, TypeOK, TypeFs, Tareas
    <2>2. /\ mutexFS = nadie /\ mutexFS' = p
          /\ tareas' = (tareas \ {Archivo(p, "pide_fs")}) \cup {Archivo(p, "en_fs")}
      BY <1>1 DEF EnviarFS, Pasa
    <2>3. nadie # core
      BY DEF nadie, core
    <2> QED
      BY <1>0, <2>1, <2>2, <2>3 DEF Archivo
  <1>2. CASE RecibirFS(p)
    <2>1. mutexFS = p
      BY <1>2 DEF RecibirFS, EnTarea, Archivo
    <2>2. \A t \in tareas : t.paso = "en_fs" => t = Archivo(p, "en_fs")
      <3>1. ASSUME NEW t \in tareas, t.paso = "en_fs" PROVE t = Archivo(p, "en_fs")
        <4>1. t \in Tareas /\ t.pid = p
          BY <2>1, <3>1 DEF TypeOK, TypeFs
        <4>2. t.tipo = "file"
          BY <3>1
        <4> QED
          BY <3>1, <4>1, <4>2 DEF Tareas, Archivo
      <3> QED
        BY <3>1
    <2> QED
      BY <1>0, <1>2, <2>1, <2>2 DEF RecibirFS, Pasa, Archivo
  <1>3. CASE io(p) \/ MirarCompactacion(p) \/ AbandonarArchivo(p) \/ ArchivoListo(p)
    <2>1. FueraDeFS
      BY <1>0, <1>3 DEF FueraDeFS, io, MirarCompactacion, AbandonarArchivo, ArchivoListo, Pasa, Archivo
    <2> QED
      BY <2>1, FueraDeFSConserva
  <1> QED
    BY <1>1, <1>2, <1>3 DEF Tarea

\* compactar takes the mutex when it is free, so no thread is inside; FinCompactar,
\* which held it, leaves it.
LEMMA CompactarMutexFS ==
    ASSUME Tipos, MutexFS, compactar \/ FinCompactar
    PROVE  MutexFS'
  <1> USE DEF MutexFS, Tipos, TypeOK, TypeFs, TypeHilos, Tareas, Hilos, core, nadie
  <1>1. CASE compactar
    <2>1. \A t \in tareas : t.paso # "en_fs"
      BY <1>1, KernelAssumption DEF compactar
    <2>2. mutexFS' = core /\ tareas' = tareas
      BY <1>1 DEF compactar
    <2> QED
      BY <2>1, <2>2
  <1>2. CASE FinCompactar
    <2>1. \A t \in tareas : t.paso # "en_fs"
      BY <1>2, KernelAssumption DEF FinCompactar, En
    <2>2. tareas' = tareas /\ Ir(core, "reintenta")
      BY <1>2 DEF FinCompactar
    <2> QED
      BY <2>1, <2>2 DEF Ir
  <1> QED
    BY <1>1, <1>2

\* EXIT and the operator have nothing to do with it.
LEMMA OtrosFueraDeFS ==
    ASSUME (\E p \in Pid : Exit(p)) \/ Apagar \/ UNCHANGED vars
    PROVE  FueraDeFS
  BY DEF FueraDeFS, Exit, ExitAvisar, ExitArchivo, ExitArchivosFin, ExitRecurso, ExitFin, Apagar, vars, hilosVars, fsVars

\* Every step keeps whoever uses the filesystem in possession of the mutex.
LEMMA NextMutexFS ==
    ASSUME Tipos, MutexFS, [Next]_vars
    PROVE  MutexFS'
  <1>1. CASE \/ \E p \in Pid : process_instrucciones(p) \/ Cliente(p)
             \/ \E h \in Hilos : Admision(h)
    BY <1>1, AdmisionFueraDeFS, FueraDeFSConserva
  <1>2. CASE Manejador \/ NucleoInterno
    <2>1. CASE compactar \/ FinCompactar
      BY <2>1, CompactarMutexFS
    <2>2. CASE ~compactar /\ ~FinCompactar
      BY <1>2, <2>2, CoreFueraDeFS, FueraDeFSConserva
    <2> QED
      BY <2>1, <2>2
  <1>3. CASE \E p \in Pid : Tarea(p)
    BY <1>3, TareaMutexFS
  <1>4. CASE (\E p \in Pid : Exit(p)) \/ Apagar \/ UNCHANGED vars
    BY <1>4, OtrosFueraDeFS, FueraDeFSConserva
  <1> QED
    BY <1>1, <1>2, <1>3, <1>4 DEF Next

\* While memoria compacts no operation of the filesystem is under way, whoever
\* took mutex_fs_connection and however many threads of files there are.
THEOREM KernelCompactaSinFS == Spec => []CompactaSinFS
  <1>1. Init => Tipos /\ MutexFS
    BY InitTipos DEF Init, InitHilos, MutexFS, Hilos
  <1>2. Tipos /\ MutexFS /\ [Next]_vars => (Tipos /\ MutexFS)'
    BY NextTipos, NextMutexFS
  <1>3. Tipos /\ MutexFS => CompactaSinFS
    BY KernelAssumption DEF MutexFS, CompactaSinFS, Tipos, TypeOK, TypeFs, Tareas
  <1> QED
    BY <1>1, <1>2, <1>3, PTL DEF Spec


-----------------------------------------------------------------------------
(* The socket of memoria                                                   *)

\* Where the core is inside a handler of segments, which talks to memoria.
Segmentos == {"espera_seg", "espera_tabla", "compacta_lock", "compacta_espera", "reintenta"}

\* No program of the workload creates or deletes segments.
SinSegmentos == Instrucciones \cap {"CREATE_SEGMENT", "DELETE_SEGMENT"} = {}

\* The socket carries nothing but the answer to the one thread that waits for it.
SocketPropio ==
    /\ pc[core] \notin Segmentos
    /\ \A h \in Hilos : /\ pc[h] \notin {"falla_ts", "exit_new"}
                        /\ pc[h] = "espera_ts" => sockMem = <<[op |-> "TSEGMENTOS", pid |-> elegido[h]]>>
    /\ (\A h \in Hilos : pc[h] # "espera_ts") => sockMem = <<>>
    /\ TablaPropia

\* A step that has nothing to do with it.
FueraDeMemoria ==
    /\ UNCHANGED <<sockMem, tabla>>
    /\ pc'[core] \notin Segmentos
    /\ \A h \in Hilos : /\ pc'[h] \notin {"falla_ts", "exit_new"}
                        /\ pc'[h] = "espera_ts" <=> pc[h] = "espera_ts"
                        /\ pc[h] = "espera_ts" => elegido'[h] = elegido[h]

\* A step that has nothing to do with the socket keeps the answer for who waits for it.
LEMMA FueraDeMemoriaConserva == ASSUME SocketPropio, FueraDeMemoria PROVE SocketPropio'
  BY DEF SocketPropio, FueraDeMemoria, TablaPropia

\* Only who holds mutex_NEW_to_READY waits for a table.
LEMMA SoloUnoEspera ==
    ASSUME Tipos, NEW h \in Hilos, pc[h] \in Admite
    PROVE  \A g \in Hilos : pc[g] = "espera_ts" => g = h
  BY DEF Tipos, Control, MutexTomado, Admite

\* The request for a table leaves one answer on the socket, which was empty.
LEMMA PedirTablaSocket ==
    ASSUME Tipos, SocketPropio, NEW h \in Hilos, PedirTabla(h)
    PROVE  SocketPropio'
  <1> DEFINE p == Head(cola["NEW"])
  <1>1. pc[h] = "cuenta_block" /\ UNCHANGED tabla
    BY DEF PedirTabla, En, pcbVars
  <1>2. \A g \in Hilos : pc[g] # "espera_ts"
    BY <1>1, SoloUnoEspera DEF Admite
  <1>3. sockMem = <<>>
    BY <1>2 DEF SocketPropio
  <1>4. sockMem' = <<[op |-> "TSEGMENTOS", pid |-> p]>>
    BY <1>3 DEF PedirTabla, Responde
  <1>5. /\ pc'[h] = "espera_ts" /\ elegido'[h] = p
        /\ \A g \in Hilos : g # h => pc'[g] = pc[g]
    BY DEF PedirTabla, Ir, Tipos, TypeOK, TypeHilos
  <1> HIDE DEF p
  <1>6. core \in Hilos
    BY DEF Hilos
  <1> QED
    BY <1>1, <1>2, <1>4, <1>5, <1>6 DEF SocketPropio, TablaPropia, Segmentos

\* The thread reads its own answer: the table is the one of the process it admits.
LEMMA AdmitirSocket ==
    ASSUME Tipos, SocketPropio, NEW h \in Hilos, move_NEW_to_READY(h)
    PROVE  SocketPropio'
  <1>1. pc[h] = "espera_ts" /\ core \in Hilos
    BY DEF move_NEW_to_READY, En, Hilos
  <1>2. \A g \in Hilos : pc[g] = "espera_ts" => g = h
    BY <1>1, SoloUnoEspera DEF Admite
  <1>3. sockMem = <<[op |-> "TSEGMENTOS", pid |-> elegido[h]]>>
    BY <1>1 DEF SocketPropio
  <1>4. Head(sockMem) = [op |-> "TSEGMENTOS", pid |-> elegido[h]] /\ Tail(sockMem) = <<>>
    BY <1>3
  <1>5. Head(sockMem).op = "TSEGMENTOS" /\ Head(sockMem).pid = elegido[h]
    BY <1>4
  <1>6. /\ sockMem' = <<>> /\ Ir(h, "mira_new")
        /\ tabla' = [tabla EXCEPT ![elegido[h]] = elegido[h]]
    BY <1>4, <1>5 DEF move_NEW_to_READY
  <1>7. TablaPropia'
    BY <1>6 DEF SocketPropio, TablaPropia, Tipos, TypeOK, TypePcb
  <1>8. pc'[h] = "mira_new" /\ \A g \in Hilos : g # h => pc'[g] = pc[g]
    BY <1>6 DEF Ir, Tipos, TypeOK, TypeHilos
  <1> QED
    BY <1>1, <1>2, <1>6, <1>7, <1>8 DEF SocketPropio, Segmentos

\* The other steps of the threads that admit and of the clients.
LEMMA AdmisionFueraDeMemoria ==
    ASSUME Tipos, SocketPropio,
           \/ \E p \in Pid : process_instrucciones(p) \/ Cliente(p)
           \/ \E h \in Hilos : Admision(h) /\ ~PedirTabla(h) /\ ~move_NEW_to_READY(h)
    PROVE  FueraDeMemoria
  <1>0. \A h \in Hilos : ~AdmisionFallida(h) /\ ~SigueAdmision(h)
    BY DEF AdmisionFallida, SigueAdmision, En, SocketPropio
  <1>1. UNCHANGED <<sockMem, tabla, elegido>>
    BY <1>0 DEF process_instrucciones, Cliente, accept_new_process_in_READY, add_pcb_to_queue,
           wait_to_end_process, InformarConsola, Admision, get_actual_multiprog, LockNewToReady,
           UnlockNewToReady, can_move_NEW_to_READY, memVars, pcbVars
  <1>2. PICK h \in Hilos, e \in Etiquetas :
            Ir(h, e) /\ e \notin Segmentos \cup {"espera_ts", "falla_ts", "exit_new"} /\ pc[h] # "espera_ts"
    <2>1. CASE \E p \in Pid : process_instrucciones(p) \/ Cliente(p)
      BY <2>1 DEF process_instrucciones, Cliente, accept_new_process_in_READY, add_pcb_to_queue,
                  wait_to_end_process, InformarConsola, Hilos, Etiquetas, Segmentos, En
    <2>2. CASE \E h \in Hilos : get_actual_multiprog(h)
      <3>1. PICK h \in Hilos : get_actual_multiprog(h)
        BY <2>2
      <3>2. /\ Lectura[pc[h]].sigue \in {"acepta_exec", "acepta_block", "cuenta_exec", "cuenta_block"}
            /\ Ir(h, Lectura[pc[h]].sigue) /\ pc[h] # "espera_ts"
        BY <3>1 DEF get_actual_multiprog, Lectura
      <3> QED
        BY <3>2 DEF Etiquetas, Segmentos
    <2>3. CASE \E h \in Hilos : LockNewToReady(h) \/ UnlockNewToReady(h) \/ can_move_NEW_to_READY(h)
      BY <2>3 DEF LockNewToReady, UnlockNewToReady, can_move_NEW_to_READY, Etiquetas, Segmentos, En
    <2> QED
      BY <1>0, <2>1, <2>2, <2>3 DEF Admision
  <1>3. \A g \in Hilos : pc'[g] = IF g = h THEN e ELSE pc[g]
    BY <1>2 DEF Ir, Tipos, TypeOK, TypeHilos
  <1> QED
    BY <1>1, <1>2, <1>3 DEF FueraDeMemoria, SocketPropio, Hilos

\* The handlers and the core, of a workload without segments.
LEMMA CoreFueraDeMemoria ==
    ASSUME SinSegmentos, Tipos, SocketPropio, Manejador \/ NucleoInterno
    PROVE  FueraDeMemoria
  <1> USE DEF Reanuda, Sale, Termina
  <1>1. CASE Manejador
    <2>0. ~execute_create_segment /\ ~execute_delete_segment
      BY DEF execute_create_segment, execute_delete_segment, Desalojo, SinSegmentos
    <2>1. UNCHANGED <<sockMem, tabla>> /\ UNCHANGED elegido /\ pc[core] = "cpu"
      BY <1>1, <2>0 DEF Manejador, execute_wait, execute_signal, RecursoInvalido, execute_io, execute_yield,
             execute_exit, ProcesarArchivo, FopenEnUso, execute_fopen, FopenFallido, execute_fclose,
             execute_fseek, RespuestaNula, memVars, pcbVars, quietos, Desalojo, En
    <2>2. \E e \in {"cpu", "mueve", "exit_exec", "exit_otra_vez"} : Ir(core, e)
      BY <1>1, <2>0 DEF Manejador, execute_wait, execute_signal, RecursoInvalido, execute_io, execute_yield,
             execute_exit, ProcesarArchivo, FopenEnUso, execute_fopen, FopenFallido, execute_fclose,
             execute_fseek, RespuestaNula
    <2> QED
      BY <2>1, <2>2 DEF FueraDeMemoria, SocketPropio, Segmentos, Ir, Tipos, TypeOK, TypeHilos, Hilos
  <1>2. CASE NucleoInterno
    <2>0. ~ReintentarSegmento /\ ~RecibirSegmento /\ ~compactar /\ ~FinCompactar /\ ~RecibirTabla
      BY DEF ReintentarSegmento, RecibirSegmento, compactar, FinCompactar, RecibirTabla, En,
             SocketPropio, Segmentos
    <2>1. UNCHANGED <<sockMem, tabla>>
      BY <1>2, <2>0 DEF NucleoInterno, move_READY_to_EXEC, NadaQueDespachar, MoverDesalojado, FinExec,
             memVars, pcbVars
    <2>2. \E e \in {"cpu", "mueve", "exit_exec", "lock_nr"} : Ir(core, e)
      BY <1>2, <2>0 DEF NucleoInterno, move_READY_to_EXEC, NadaQueDespachar, MoverDesalojado, FinExec
    <2>3. pc[core] # "espera_ts"
      BY <1>2, <2>0 DEF NucleoInterno, move_READY_to_EXEC, NadaQueDespachar, MoverDesalojado, FinExec, En
    <2>4. \A h \in Hilos : h # core => elegido'[h] = elegido[h]
      BY <1>2, <2>0 DEF NucleoInterno, move_READY_to_EXEC, NadaQueDespachar, MoverDesalojado, FinExec,
             Tipos, TypeOK, TypeHilos
    <2> QED
      BY <2>1, <2>2, <2>3, <2>4 DEF FueraDeMemoria, SocketPropio, Segmentos, Ir, Tipos, TypeOK, TypeHilos, Hilos
  <1> QED
    BY <1>1, <1>2

\* EXIT, the threads of I/O and files and the operator do not read the socket.
LEMMA OtrosFueraDeMemoria ==
    ASSUME SocketPropio,
           \/ \E p \in Pid : Exit(p) \/ Tarea(p)
           \/ Apagar \/ UNCHANGED vars
    PROVE  FueraDeMemoria
  <1>1. UNCHANGED <<sockMem, tabla>> /\ UNCHANGED <<pc, elegido>>
    BY DEF Exit, ExitAvisar, ExitArchivo, ExitArchivosFin, ExitRecurso, ExitFin, Tarea, io,
         MirarCompactacion, AbandonarArchivo, EnviarFS, RecibirFS, ArchivoListo, Apagar, vars, hilosVars, memVars, pcbVars
  <1> QED
    BY <1>1 DEF FueraDeMemoria, SocketPropio

\* Every step keeps the answers in order.
LEMMA NextSocket ==
    ASSUME SinSegmentos, Tipos, SocketPropio, [Next]_vars
    PROVE  SocketPropio'
  <1>1. CASE \E h \in Hilos : PedirTabla(h) \/ move_NEW_to_READY(h)
    BY <1>1, PedirTablaSocket, AdmitirSocket
  <1>2. CASE \/ \E p \in Pid : process_instrucciones(p) \/ Cliente(p)
             \/ \E h \in Hilos : Admision(h) /\ ~PedirTabla(h) /\ ~move_NEW_to_READY(h)
    BY <1>2, AdmisionFueraDeMemoria, FueraDeMemoriaConserva
  <1>3. CASE Manejador \/ NucleoInterno
    BY <1>3, CoreFueraDeMemoria, FueraDeMemoriaConserva
  <1>4. CASE \/ \E p \in Pid : Exit(p) \/ Tarea(p)
             \/ Apagar \/ UNCHANGED vars
    BY <1>4, OtrosFueraDeMemoria, FueraDeMemoriaConserva
  <1> QED
    BY <1>1, <1>2, <1>3, <1>4 DEF Next

\* At the start nothing is on the socket and nobody waits.
LEMMA InitSocket == Init => SocketPropio
  BY DEF Init, InitHilos, InitPcbs, SocketPropio, TablaPropia, Segmentos, Hilos

\* However many clients admit processes at once, the table in a pcb is its own:
\* mutex_NEW_to_READY keeps a request and its answer together on the socket.  The handlers of
\* segments use the socket without that mutex, hence the hypothesis on the workload.
THEOREM KernelTablaPropia ==
    ASSUME SinSegmentos
    PROVE  Spec => []TablaPropia
  <1>1. Init => Tipos /\ SocketPropio
    BY InitTipos, InitSocket
  <1>2. Tipos /\ SocketPropio /\ [Next]_vars => (Tipos /\ SocketPropio)'
    BY NextTipos, NextSocket
  <1>3. SocketPropio => TablaPropia
    BY DEF SocketPropio
  <1> QED
    BY <1>1, <1>2, <1>3, PTL DEF Spec


-----------------------------------------------------------------------------
(* Counting the places of shared_resources                                 *)

\* A place is a process and an index of its list.
LEMMA PoseidasForma ==
    ASSUME NEW r
    PROVE  \A x : x \in Poseidas(r) <=>
             \E p \in Pid : \E i \in 1..Len(shared[p]) : x = <<p, i>> /\ shared[p][i] = r
  BY DEF Poseidas

\* Nobody's list changes: the places are the same.
LEMMA PoseidasIgual ==
    ASSUME NEW r, UNCHANGED shared
    PROVE  Poseidas(r)' = Poseidas(r)
  BY DEF Poseidas

\* A WAIT adds one place of its resource and none of another.
LEMMA PoseidasMas ==
    ASSUME TypePcb, NEW p \in Pid, NEW r \in Recursos, NEW r2 \in Recursos,
           shared' = [shared EXCEPT ![p] = Append(@, r)], IsFiniteSet(Poseidas(r2))
    PROVE  /\ IsFiniteSet(Poseidas(r2)')
           /\ Cardinality(Poseidas(r2)') = Cardinality(Poseidas(r2)) + IF r2 = r THEN 1 ELSE 0
  <1> DEFINE n == Len(shared[p]) + 1
  <1>1. /\ Len(shared'[p]) = n /\ shared'[p][n] = r /\ n \in Nat
        /\ \A i \in 1..(n - 1) : shared'[p][i] = shared[p][i]
        /\ \A q \in Pid : q # p => shared'[q] = shared[q]
        /\ n \notin 1..Len(shared[p]) /\ 1..n = 1..(n-1) \cup {n} /\ n - 1 = Len(shared[p])
    BY DEF TypePcb
  <1> HIDE DEF n
  <1>2. \A x : x \in Poseidas(r2)' <=>
             \E q \in Pid : \E i \in 1..Len(shared'[q]) : x = <<q, i>> /\ shared'[q][i] = r2
    BY DEF Poseidas
  <1>3. \A x : x \in Poseidas(r2)' <=> x \in Poseidas(r2) \/ (x = <<p, n>> /\ r2 = r)
    BY <1>1, <1>2, PoseidasForma
  <1>4. <<p, n>> \notin Poseidas(r2)
    BY <1>1, PoseidasForma
  <1>5. CASE r2 = r
    <2>1. Poseidas(r2)' = Poseidas(r2) \cup {<<p, n>>}
      BY <1>3, <1>5
    <2>2. /\ IsFiniteSet(Poseidas(r2) \cup {<<p, n>>})
          /\ Cardinality(Poseidas(r2) \cup {<<p, n>>}) = Cardinality(Poseidas(r2)) + 1
      BY <1>4, FS_AddElement
    <2> QED
      BY <1>5, <2>1, <2>2
  <1>6. CASE r2 # r
    <2>1. Poseidas(r2)' = Poseidas(r2)
      BY <1>3, <1>6
    <2>2. Cardinality(Poseidas(r2)) \in Nat
      BY FS_CardinalityType
    <2> QED
      BY <1>6, <2>1, <2>2
  <1> QED
    BY <1>5, <1>6

\* Taking the place n out of the list of p leaves one place fewer of what was there.
LEMMA PoseidasMenos ==
    ASSUME TypePcb, NEW p \in Pid, NEW n, NEW s, SinIndice(shared[p], n, s),
           NEW r2 \in Recursos,
           shared' = [shared EXCEPT ![p] = s], IsFiniteSet(Poseidas(r2))
    PROVE  /\ IsFiniteSet(Poseidas(r2)')
           /\ Cardinality(Poseidas(r2)') =
                Cardinality(Poseidas(r2)) - IF shared[p][n] = r2 THEN 1 ELSE 0
  <1> DEFINE m(x) == IF x[1] = p /\ x[2] > n THEN <<p, x[2] - 1>> ELSE x
             A == Poseidas(r2) \ {<<p, n>>}
             f == [x \in A |-> m(x)]
  <1>1. /\ n \in Nat /\ Len(shared[p]) \in Nat /\ n \in 1..Len(shared[p]) /\ Len(s) = Len(shared[p]) - 1
        /\ \A i \in 1..Len(s) : s[i] = IF i < n THEN shared[p][i] ELSE shared[p][i + 1]
        /\ shared'[p] = s /\ \A q \in Pid : q # p => shared'[q] = shared[q]
    BY DEF TypePcb, SinIndice
  <1>2. \A x : x \in Poseidas(r2)' <=>
             \E q \in Pid : \E i \in 1..Len(shared'[q]) : x = <<q, i>> /\ shared'[q][i] = r2
    BY DEF Poseidas
  <1>3. ASSUME NEW x \in A PROVE m(x) \in Poseidas(r2)'
    <2>1. PICK q \in Pid, i \in Nat : i \in 1..Len(shared[q]) /\ x = <<q, i>> /\ shared[q][i] = r2
      BY PoseidasForma
    <2>2. CASE q = p /\ i > n
      <3>1. /\ m(x) = <<p, i - 1>> /\ i - 1 \in 1..Len(s) /\ i \in Nat
            /\ s[i - 1] = shared[p][(i - 1) + 1] /\ (i - 1) + 1 = i
        BY <1>1, <2>1, <2>2
      <3> QED
        BY <1>1, <1>2, <2>1, <2>2, <3>1
    <2>3. CASE q = p /\ ~(i > n)
      <3>1. m(x) = <<p, i>> /\ i # n /\ i < n /\ i \in 1..Len(s) /\ s[i] = shared[p][i]
        BY <1>1, <2>1, <2>3
      <3> QED
        BY <1>1, <1>2, <2>1, <2>3, <3>1
    <2>4. CASE q # p
      <3>1. m(x) = <<q, i>>
        BY <2>1, <2>4
      <3> QED
        BY <1>1, <1>2, <2>1, <2>4, <3>1
    <2> QED
      BY <2>2, <2>3, <2>4
  <1>4. ASSUME NEW x \in A, NEW y \in A, m(x) = m(y) PROVE x = y
    <2>1. PICK q \in Pid, i \in Nat : i \in 1..Len(shared[q]) /\ x = <<q, i>> /\ shared[q][i] = r2
      BY PoseidasForma
    <2>2. PICK u \in Pid, j \in Nat : j \in 1..Len(shared[u]) /\ y = <<u, j>> /\ shared[u][j] = r2
      BY PoseidasForma
    <2>3. /\ i \in Int /\ j \in Int
          /\ q = p => i # n
          /\ u = p => j # n
      BY <2>1, <2>2, <1>1
    <2>4. m(x) = IF q = p /\ i > n THEN <<p, i - 1>> ELSE <<q, i>>
      BY <2>1
    <2>5. m(y) = IF u = p /\ j > n THEN <<p, j - 1>> ELSE <<u, j>>
      BY <2>2
    <2>6. q = u /\ i = j
      BY <1>1, <1>4, <2>3, <2>4, <2>5
    <2> QED
      BY <2>1, <2>2, <2>6
  <1>5. ASSUME NEW z \in Poseidas(r2)' PROVE \E x \in A : m(x) = z
    <2>1. PICK q \in Pid, i \in Nat : i \in 1..Len(shared'[q]) /\ z = <<q, i>> /\ shared'[q][i] = r2
      BY <1>2
    <2>2. CASE q = p /\ i < n
      <3>1. i \in 1..Len(shared[p]) /\ shared[p][i] = r2 /\ ~(i > n) /\ i # n
        BY <1>1, <2>1, <2>2
      <3>2. <<p, i>> \in A /\ m(<<p, i>>) = z
        BY <2>1, <2>2, <3>1, PoseidasForma
      <3> QED
        BY <3>2
    <2>3. CASE q = p /\ ~(i < n)
      <3>1. /\ i + 1 \in 1..Len(shared[p]) /\ shared[p][i + 1] = r2 /\ i + 1 > n /\ i + 1 # n
            /\ (i + 1) - 1 = i
        BY <1>1, <2>1, <2>3
      <3>2. <<p, i + 1>> \in A /\ m(<<p, i + 1>>) = <<p, (i + 1) - 1>>
        BY <2>1, <2>3, <3>1, PoseidasForma
      <3> QED
        BY <2>1, <2>3, <3>1, <3>2
    <2>4. CASE q # p
      <3>1. <<q, i>> \in A /\ m(<<q, i>>) = z
        BY <1>1, <2>1, <2>4, PoseidasForma
      <3> QED
        BY <3>1
    <2> QED
      BY <2>2, <2>3, <2>4
  <1>6. f \in Bijection(A, Poseidas(r2)')
    <2> HIDE DEF m, A
    <2>1. f \in [A -> Poseidas(r2)']
      BY <1>3
    <2> QED
      BY <2>1, <1>4, <1>5 DEF Bijection, Injection, Surjection, IsInjective
  <1>7. ExistsBijection(A, Poseidas(r2)')
    BY <1>6 DEF ExistsBijection
  <1>8. /\ IsFiniteSet(A)
        /\ Cardinality(A) = Cardinality(Poseidas(r2)) - IF shared[p][n] = r2 THEN 1 ELSE 0
    <2>1. <<p, n>> \in Poseidas(r2) <=> shared[p][n] = r2
      BY <1>1, PoseidasForma
    <2>2. Cardinality(Poseidas(r2)) \in Nat
      BY FS_CardinalityType
    <2>3. CASE shared[p][n] = r2
      <3>1. IsFiniteSet(A) /\ Cardinality(A) = Cardinality(Poseidas(r2)) - 1
        BY <2>1, <2>3, FS_RemoveElement
      <3> QED
        BY <2>3, <3>1
    <2>4. CASE shared[p][n] # r2
      <3>1. A = Poseidas(r2)
        BY <2>1, <2>4
      <3> QED
        BY <2>2, <2>4, <3>1
    <2> QED
      BY <2>3, <2>4
  <1> HIDE DEF A
  <1> QED
    BY <1>7, <1>8, FS_Bijection

-----------------------------------------------------------------------------
(* The invariant                                                           *)

\* As many processes wait for a resource or a file as instances are owed.
ColaCuadra == \A r \in TRecurso :
    Len(bloqueados[r]) = IF instancias[r] < 0 THEN -instancias[r] ELSE 0

\* An open file has given its only instance, and a closed one has it.
AbiertoTomado == \A f \in Archivos :
    IF f \in abiertos THEN instancias[f] <= 0 ELSE instancias[f] = 1

\* No instance is lost, nor invented by programs that SIGNAL only what they hold.
InstanciasCuadran == \A r \in Recursos :
    /\ IsFiniteSet(Poseidas(r))
    /\ instancias[r] + Cardinality(Poseidas(r)) >= Instancias[r]
    /\ Disciplinado => instancias[r] + Cardinality(Poseidas(r)) = Instancias[r]

Cuentas == ColaCuadra /\ AbiertoTomado /\ InstanciasCuadran

\* The accounts of the invariant are what RecursoCuadra asks.
LEMMA CuentasDanCuadra == ASSUME Cuentas PROVE RecursoCuadra
  BY DEF Cuentas, ColaCuadra, InstanciasCuadran, RecursoCuadra, TRecurso

\* A step that touches no resource, no file and no list of a pcb.
LEMMA CuentasQuietas ==
    ASSUME Cuentas, UNCHANGED <<instancias, bloqueados, abiertos, shared>>
    PROVE  Cuentas'
  <1>1. \A r : Poseidas(r)' = Poseidas(r)
    BY PoseidasIgual
  <1> QED
    BY <1>1 DEF Cuentas, ColaCuadra, AbiertoTomado, InstanciasCuadran

\* A step on one resource or file r keeps ColaCuadra if it does for r.
LEMMA ColaUna ==
    ASSUME ColaCuadra, NEW r \in TRecurso,
           \A s \in TRecurso : s # r =>
               instancias'[s] = instancias[s] /\ bloqueados'[s] = bloqueados[s],
           Len(bloqueados'[r]) = IF instancias'[r] < 0 THEN -instancias'[r] ELSE 0
    PROVE  ColaCuadra'
  BY DEF ColaCuadra

\* Who owes an instance has somebody waiting: remove_pcb_from_queue_resourse finds him.
LEMMA HayQuienDespertar ==
    ASSUME TypeRec, ColaCuadra, NEW r \in TRecurso, instancias[r] + 1 <= 0, DespertarPrimero(r)
    PROVE  /\ bloqueados[r] # <<>>
           /\ bloqueados' = [bloqueados EXCEPT ![r] = Tail(@)]
           /\ Tail(bloqueados[r]) \in Seq(Pid)
           /\ Len(Tail(bloqueados[r])) = Len(bloqueados[r]) - 1
           /\ UNCHANGED caida
  <1>1. bloqueados[r] \in Seq(Pid) /\ Len(bloqueados[r]) = -instancias[r] /\ instancias[r] \in Int
    BY DEF TypeRec, ColaCuadra
  <1>2. bloqueados[r] # <<>>
    BY <1>1
  <1>3. Tail(bloqueados[r]) \in Seq(Pid) /\ Len(Tail(bloqueados[r])) = Len(bloqueados[r]) - 1
    BY <1>1, <1>2
  <1> QED
    BY <1>2, <1>3 DEF DespertarPrimero

\* An instance more, and the first who waits is woken if one was owed.
LEMMA DevolverCola ==
    ASSUME TypeRec, ColaCuadra, NEW r \in TRecurso,
           instancias' = [instancias EXCEPT ![r] = @ + 1],
           IF instancias[r] + 1 <= 0 THEN DespertarPrimero(r) ELSE UNCHANGED <<bloqueados, caida>>
    PROVE  ColaCuadra' /\ UNCHANGED caida
  <1>0. instancias[r] \in Int /\ bloqueados[r] \in Seq(Pid)
    BY DEF TypeRec
  <1>1. CASE instancias[r] + 1 <= 0
    <2>1. /\ bloqueados' = [bloqueados EXCEPT ![r] = Tail(bloqueados[r])]
          /\ UNCHANGED caida
          /\ Len(Tail(bloqueados[r])) = Len(bloqueados[r]) - 1
      BY <1>1, HayQuienDespertar
    <2>2. bloqueados'[r] = Tail(bloqueados[r]) /\ instancias'[r] = instancias[r] + 1
      BY <2>1 DEF TypeRec
    <2>3. \A s \in TRecurso : s # r =>
               instancias'[s] = instancias[s] /\ bloqueados'[s] = bloqueados[s]
      BY <2>1 DEF TypeRec
    <2>4. Len(bloqueados'[r]) = IF instancias'[r] < 0 THEN -instancias'[r] ELSE 0
      <3>1. Len(bloqueados[r]) = -instancias[r]
        BY <1>0, <1>1 DEF ColaCuadra
      <3>2. Len(bloqueados'[r]) = -instancias[r] - 1
        BY <2>1, <2>2, <3>1
      <3> QED
        BY <1>0, <1>1, <2>2, <3>2
    <2> QED
      BY <2>1, <2>3, <2>4, ColaUna
  <1>2. CASE ~(instancias[r] + 1 <= 0)
    <2>1. /\ UNCHANGED <<bloqueados, caida>> /\ instancias'[r] = instancias[r] + 1
          /\ \A s \in TRecurso : s # r => instancias'[s] = instancias[s]
      BY <1>2 DEF TypeRec
    <2>2. Len(bloqueados[r]) = 0
      BY <1>0, <1>2 DEF ColaCuadra
    <2> QED
      BY <1>0, <1>2, <2>1, <2>2, ColaUna
  <1> QED
    BY <1>1, <1>2

-----------------------------------------------------------------------------
(* WAIT, SIGNAL and the resources of EXIT                                  *)

\* The open files do not notice a step on a resource.
LEMMA RecursoNoEsArchivo ==
    ASSUME TypeRec, AbiertoTomado, NEW r \in Recursos, NEW i,
           instancias' = [instancias EXCEPT ![r] = i], UNCHANGED abiertos
    PROVE  AbiertoTomado'
  BY KernelAssumption DEF TypeRec, AbiertoTomado, TRecurso

\* WAIT takes an instance or queues its process.
LEMMA WaitCuentas ==
    ASSUME Tipos, Cuentas, NEW r \in Recursos, execute_wait(r)
    PROVE  Cuentas' /\ UNCHANGED caida
  <1> USE DEF Tipos, TypeOK, Cuentas
  <1>1. /\ Actual \in Pid /\ r \in TRecurso /\ instancias[r] \in Int /\ bloqueados[r] \in Seq(Pid)
        /\ instancias' = [instancias EXCEPT ![r] = @ - 1]
        /\ shared' = [shared EXCEPT ![Actual] = Append(@, r)]
        /\ UNCHANGED <<abiertos, caida>>
        /\ r \notin Archivos
    BY DesalojoTipo, KernelAssumption DEF execute_wait, TRecurso, TypeRec
  <1>2. ColaCuadra'
    <2>1. CASE instancias[r] - 1 >= 0
      <3>1. /\ UNCHANGED bloqueados /\ instancias'[r] = instancias[r] - 1
            /\ \A s \in TRecurso : s # r => instancias'[s] = instancias[s]
        BY <1>1, <2>1 DEF execute_wait, TypeRec
      <3>2. Len(bloqueados[r]) = 0
        BY <1>1, <2>1 DEF ColaCuadra
      <3>3. Len(bloqueados'[r]) = IF instancias'[r] < 0 THEN -instancias'[r] ELSE 0
        BY <1>1, <2>1, <3>1, <3>2
      <3>4. ColaCuadra /\ r \in TRecurso
        BY <1>1
      <3> HIDE DEF Tipos, TypeOK, Cuentas
      <3> QED
        BY <3>1, <3>3, <3>4, ColaUna
    <2>2. CASE ~(instancias[r] - 1 >= 0)
      <3>1. bloqueados' = [bloqueados EXCEPT ![r] = Append(bloqueados[r], Actual)]
        BY <2>2 DEF execute_wait
      <3>2. /\ Append(bloqueados[r], Actual) \in Seq(Pid)
            /\ Len(Append(bloqueados[r], Actual)) = Len(bloqueados[r]) + 1
            /\ Len(bloqueados[r]) = IF instancias[r] < 0 THEN -instancias[r] ELSE 0
        BY <1>1 DEF ColaCuadra
      <3>3. instancias'[r] = instancias[r] - 1 /\ bloqueados'[r] = Append(bloqueados[r], Actual)
        BY <1>1, <3>1 DEF TypeRec
      <3>4. \A s \in TRecurso : s # r =>
               instancias'[s] = instancias[s] /\ bloqueados'[s] = bloqueados[s]
        BY <1>1, <3>1 DEF TypeRec
      <3>5. Len(bloqueados'[r]) = IF instancias'[r] < 0 THEN -instancias'[r] ELSE 0
        BY <1>1, <2>2, <3>2, <3>3
      <3> QED
        BY <1>1, <3>4, <3>5, ColaUna
    <2> QED
      BY <2>1, <2>2
  <1>3. InstanciasCuadran'
    <2>1. ASSUME NEW r2 \in Recursos
          PROVE  /\ IsFiniteSet(Poseidas(r2)')
                 /\ instancias'[r2] + Cardinality(Poseidas(r2)') = instancias[r2] + Cardinality(Poseidas(r2))
      <3>1. IsFiniteSet(Poseidas(r2)) /\ r2 \in TRecurso /\ instancias[r2] \in Int
        BY DEF InstanciasCuadran, TRecurso, TypeRec
      <3>2. /\ IsFiniteSet(Poseidas(r2)')
            /\ Cardinality(Poseidas(r2)') = Cardinality(Poseidas(r2)) + IF r2 = r THEN 1 ELSE 0
        BY <1>1, <3>1, PoseidasMas
      <3>3. Cardinality(Poseidas(r2)) \in Nat
        BY <3>1, FS_CardinalityType
      <3>4. instancias'[r2] = instancias[r2] - IF r2 = r THEN 1 ELSE 0
        BY <1>1, <3>1 DEF TypeRec
      <3> QED
        BY <3>1, <3>2, <3>3, <3>4
    <2> QED
      BY <2>1 DEF InstanciasCuadran
  <1>4. AbiertoTomado'
    BY <1>1, RecursoNoEsArchivo
  <1> QED
    BY <1>1, <1>2, <1>3, <1>4

\* What a SIGNAL or a turn of EXIT does to the counts: place n of the list of p goes and
\* the instance comes back.
LEMMA DevolverInstancia ==
    ASSUME TypeRec, TypePcb, InstanciasCuadran, NEW p \in Pid, NEW r \in Recursos, NEW s, NEW n,
           SinIndice(shared[p], n, s), shared[p][n] = r,
           shared' = [shared EXCEPT ![p] = s], instancias' = [instancias EXCEPT ![r] = @ + 1]
    PROVE  InstanciasCuadran'
  <1>1. ASSUME NEW r2 \in Recursos
        PROVE  /\ IsFiniteSet(Poseidas(r2)')
               /\ instancias'[r2] + Cardinality(Poseidas(r2)') = instancias[r2] + Cardinality(Poseidas(r2))
    <2>1. IsFiniteSet(Poseidas(r2)) /\ r2 \in TRecurso /\ instancias[r2] \in Int
      BY DEF InstanciasCuadran, TRecurso, TypeRec
    <2>2. /\ IsFiniteSet(Poseidas(r2)')
          /\ Cardinality(Poseidas(r2)') = Cardinality(Poseidas(r2)) - IF shared[p][n] = r2 THEN 1 ELSE 0
      BY <2>1, PoseidasMenos
    <2>3. Cardinality(Poseidas(r2)) \in Nat
      BY <2>1, FS_CardinalityType
    <2>4. instancias'[r2] = instancias[r2] + IF r2 = r THEN 1 ELSE 0
      BY <2>1 DEF TypeRec
    <2> QED
      BY <2>1, <2>2, <2>3, <2>4
  <1> QED
    BY <1>1 DEF InstanciasCuadran

\* SIGNAL gives back what the process had, or an instance nobody had.
LEMMA SignalCuentas ==
    ASSUME Tipos, Cuentas, NEW r \in Recursos, execute_signal(r)
    PROVE  Cuentas' /\ UNCHANGED caida
  <1> USE DEF Tipos, TypeOK, Cuentas
  <1>1. /\ Actual \in Pid /\ r \in TRecurso /\ shared[Actual] \in Seq(Recursos)
        /\ instancias' = [instancias EXCEPT ![r] = @ + 1]
        /\ shared' = [shared EXCEPT ![Actual] = RemoveFirst(@, r)]
        /\ UNCHANGED abiertos
    BY DesalojoTipo DEF execute_signal, TRecurso, TypePcb
  <1>2. ColaCuadra' /\ UNCHANGED caida
    BY <1>1, DevolverCola DEF execute_signal
  <1>3. InstanciasCuadran'
    <2>1. CASE Contains(shared[Actual], r)
      <3>1. PICK n \in 1..Len(shared[Actual]) : /\ shared[Actual][n] = r
                   /\ SinIndice(shared[Actual], n, RemoveFirst(shared[Actual], r))
        BY <1>1, <2>1, QuitarIndice
      <3> QED
        BY <1>1, <3>1, DevolverInstancia
    <2>2. CASE ~Contains(shared[Actual], r)
      <3>1. ~Disciplinado
        BY <2>2 DEF execute_signal
      <3>2. UNCHANGED shared
        BY <1>1, <2>2, QuitarAusente DEF TypePcb
      <3>3. \A r2 : Poseidas(r2)' = Poseidas(r2)
        BY <3>2, PoseidasIgual
      <3>4. ASSUME NEW r2 \in Recursos PROVE /\ IsFiniteSet(Poseidas(r2)')
              /\ instancias'[r2] + Cardinality(Poseidas(r2)') >= Instancias[r2]
        <4>1. /\ IsFiniteSet(Poseidas(r2)) /\ r2 \in TRecurso /\ instancias[r2] \in Int
              /\ instancias[r2] + Cardinality(Poseidas(r2)) >= Instancias[r2]
              /\ Instancias[r2] \in Nat
          BY KernelAssumption DEF InstanciasCuadran, TRecurso, TypeRec
        <4>2. Cardinality(Poseidas(r2)) \in Nat
          BY <4>1, FS_CardinalityType
        <4>3. instancias'[r2] \in Int /\ instancias'[r2] >= instancias[r2]
          BY <1>1, <4>1 DEF TypeRec
        <4> QED
          BY <3>3, <4>1, <4>2, <4>3
      <3> QED
        BY <3>1, <3>4 DEF InstanciasCuadran
    <2> QED
      BY <2>1, <2>2
  <1>4. AbiertoTomado'
    BY <1>1, RecursoNoEsArchivo
  <1> QED
    BY <1>2, <1>3, <1>4

\* EXIT gives back one instance, whether its process held it or waited for it.
LEMMA ExitRecursoCuentas ==
    ASSUME Tipos, Cuentas, NEW p \in Pid, ExitRecurso(p)
    PROVE  Cuentas' /\ UNCHANGED caida
  <1> USE DEF Tipos, TypeOK, Cuentas
  <1> DEFINE r == Head(shared[p])
  <1>1. /\ r \in Recursos /\ r \in TRecurso
        /\ SinIndice(shared[p], 1, Tail(shared[p])) /\ shared[p][1] = r
    BY PrimeroYResto, SacarIndice DEF ExitRecurso, TypePcb, TRecurso
  <1>2. /\ instancias' = [instancias EXCEPT ![r] = @ + 1]
        /\ shared' = [shared EXCEPT ![p] = Tail(@)]
        /\ UNCHANGED abiertos
        /\ IF Contains(bloqueados[r], p)
           THEN bloqueados' = [bloqueados EXCEPT ![r] = RemoveFirst(@, p)] /\ UNCHANGED caida
           ELSE IF instancias[r] + 1 <= 0
                THEN DespertarPrimero(r)
                ELSE UNCHANGED <<bloqueados, caida>>
    BY DEF ExitRecurso
  <1> HIDE DEF r
  <1>3. ColaCuadra' /\ UNCHANGED caida
    <2>1. CASE Contains(bloqueados[r], p)
      <3>1. bloqueados[r] \in Seq(Pid) /\ instancias[r] \in Int
        BY <1>1 DEF TypeRec
      <3>2. RemoveFirst(bloqueados[r], p) \in Seq(Pid)
        BY <3>1, QuitarTipo
      <3>3. Len(RemoveFirst(bloqueados[r], p)) = Len(bloqueados[r]) - 1 /\ Len(bloqueados[r]) > 0
        BY <2>1, <3>1, QuitarIndice DEF SinIndice
      <3>4. Len(bloqueados[r]) = IF instancias[r] < 0 THEN -instancias[r] ELSE 0
        BY <1>1 DEF ColaCuadra
      <3>5. /\ instancias'[r] = instancias[r] + 1
            /\ bloqueados'[r] = RemoveFirst(bloqueados[r], p) /\ UNCHANGED caida
        BY <1>1, <1>2, <2>1 DEF TypeRec
      <3>6. \A s \in TRecurso : s # r =>
               instancias'[s] = instancias[s] /\ bloqueados'[s] = bloqueados[s]
        BY <1>1, <1>2, <2>1 DEF TypeRec
      <3>7. Len(bloqueados'[r]) = IF instancias'[r] < 0 THEN -instancias'[r] ELSE 0
        BY <3>1, <3>3, <3>4, <3>5
      <3> QED
        BY <1>1, <3>5, <3>6, <3>7, ColaUna
    <2>2. CASE ~Contains(bloqueados[r], p)
      BY <1>1, <1>2, <2>2, DevolverCola
    <2> QED
      BY <2>1, <2>2
  <1>4. InstanciasCuadran'
    BY <1>1, <1>2, DevolverInstancia
  <1>5. AbiertoTomado'
    BY <1>1, <1>2, RecursoNoEsArchivo
  <1> QED
    BY <1>3, <1>4, <1>5

-----------------------------------------------------------------------------
(* Files                                                                   *)

\* The resources do not notice a step on a file.
LEMMA ArchivoNoEsRecurso ==
    ASSUME TypeRec, InstanciasCuadran, NEW f \in Archivos, NEW i,
           instancias' = [instancias EXCEPT ![f] = i], UNCHANGED shared
    PROVE  InstanciasCuadran'
  <1>1. \A r : Poseidas(r)' = Poseidas(r)
    BY PoseidasIgual
  <1>2. \A r \in Recursos : instancias'[r] = instancias[r]
    BY KernelAssumption DEF TypeRec, TRecurso
  <1> QED
    BY <1>1, <1>2 DEF InstanciasCuadran

\* F_OPEN makes a file with no instance left and nobody waiting, or queues its process.
LEMMA AbrirCuentas ==
    ASSUME Tipos, Cuentas, NEW f \in Archivos, FopenEnUso(f) \/ execute_fopen(f)
    PROVE  Cuentas' /\ UNCHANGED caida
  <1> USE DEF Tipos, TypeOK, Cuentas
  <1>1. /\ Actual \in Pid /\ f \in TRecurso /\ instancias[f] \in Int /\ bloqueados[f] \in Seq(Pid)
        /\ UNCHANGED <<shared, caida>>
    BY DesalojoTipo DEF FopenEnUso, execute_fopen, TRecurso, TypeRec
  <1>2. CASE FopenEnUso(f)
    <2>1. /\ bloqueados' = [bloqueados EXCEPT ![f] = Append(bloqueados[f], Actual)]
          /\ instancias' = [instancias EXCEPT ![f] = instancias[f] - 1]
          /\ UNCHANGED abiertos /\ f \in abiertos
      BY <1>2 DEF FopenEnUso, buscar_archivo
    <2>2. /\ Append(bloqueados[f], Actual) \in Seq(Pid)
          /\ Len(Append(bloqueados[f], Actual)) = Len(bloqueados[f]) + 1
          /\ Len(bloqueados[f]) = IF instancias[f] < 0 THEN -instancias[f] ELSE 0
          /\ instancias[f] <= 0
      BY <1>1, <2>1 DEF ColaCuadra, AbiertoTomado
    <2>3. ColaCuadra'
      <3>1. instancias'[f] = instancias[f] - 1 /\ bloqueados'[f] = Append(bloqueados[f], Actual)
        BY <1>1, <2>1 DEF TypeRec
      <3>2. \A s \in TRecurso : s # f =>
               instancias'[s] = instancias[s] /\ bloqueados'[s] = bloqueados[s]
        BY <1>1, <2>1 DEF TypeRec
      <3>3. Len(bloqueados'[f]) = IF instancias'[f] < 0 THEN -instancias'[f] ELSE 0
        BY <1>1, <2>2, <3>1
      <3> QED
        BY <1>1, <3>2, <3>3, ColaUna
    <2>4. AbiertoTomado'
      BY <1>1, <2>1, <2>2 DEF AbiertoTomado, TypeRec, TRecurso
    <2> QED
      BY <1>1, <2>1, <2>3, <2>4, ArchivoNoEsRecurso
  <1>3. CASE execute_fopen(f)
    <2>1. /\ bloqueados' = [bloqueados EXCEPT ![f] = <<>>]
          /\ instancias' = [instancias EXCEPT ![f] = 0]
          /\ abiertos' = abiertos \cup {f}
      BY <1>3 DEF execute_fopen
    <2>2. ColaCuadra'
      <3>1. Len(bloqueados'[f]) = 0 /\ instancias'[f] \in {0, 1}
        BY <1>1, <2>1 DEF TypeRec
      <3>2. \A s \in TRecurso : s # f =>
               instancias'[s] = instancias[s] /\ bloqueados'[s] = bloqueados[s]
        BY <1>1, <2>1 DEF TypeRec
      <3> QED
        BY <1>1, <3>1, <3>2, ColaUna
    <2>3. AbiertoTomado'
      BY <1>1, <2>1 DEF AbiertoTomado, TypeRec, TRecurso
    <2> QED
      BY <1>1, <2>1, <2>2, <2>3, ArchivoNoEsRecurso
  <1> QED
    BY <1>2, <1>3

\* Closing a file finds somebody to wake whenever an instance is owed.
LEMMA LiberarCuentas ==
    ASSUME Tipos, Cuentas, NEW f \in Archivos, LiberarArchivo(f), UNCHANGED shared
    PROVE  Cuentas' /\ UNCHANGED caida
  <1> USE DEF Tipos, TypeOK, Cuentas
  <1>1. f \in TRecurso /\ instancias[f] \in Int /\ bloqueados[f] \in Seq(Pid)
    BY DEF TRecurso, TypeRec
  <1>2. CASE instancias[f] + 1 > 0
    <2>1. /\ abiertos' = abiertos \ {f} /\ instancias' = [instancias EXCEPT ![f] = 1]
          /\ bloqueados' = [bloqueados EXCEPT ![f] = <<>>] /\ UNCHANGED caida
      BY <1>2 DEF LiberarArchivo
    <2>2. ColaCuadra'
      <3>1. Len(bloqueados'[f]) = 0 /\ instancias'[f] \in {0, 1}
        BY <1>1, <2>1 DEF TypeRec
      <3>2. \A s \in TRecurso : s # f =>
               instancias'[s] = instancias[s] /\ bloqueados'[s] = bloqueados[s]
        BY <1>1, <2>1 DEF TypeRec
      <3> QED
        BY <1>1, <3>1, <3>2, ColaUna
    <2>3. AbiertoTomado'
      BY <1>1, <2>1 DEF AbiertoTomado, TypeRec, TRecurso
    <2> QED
      BY <1>1, <2>1, <2>2, <2>3, ArchivoNoEsRecurso
  <1>3. CASE ~(instancias[f] + 1 > 0)
    <2>1. /\ instancias' = [instancias EXCEPT ![f] = @ + 1] /\ UNCHANGED abiertos
          /\ DespertarPrimero(f) /\ instancias[f] + 1 <= 0
      BY <1>1, <1>3 DEF LiberarArchivo
    <2>2. ColaCuadra' /\ UNCHANGED caida
      BY <1>1, <2>1, DevolverCola
    <2>3. AbiertoTomado'
      BY <1>1, <2>1 DEF AbiertoTomado, TypeRec, TRecurso
    <2> QED
      BY <1>1, <2>1, <2>2, <2>3, ArchivoNoEsRecurso
  <1> QED
    BY <1>2, <1>3

\* The two places where a file is closed: F_CLOSE and EXIT.
LEMMA CerrarCuentas ==
    ASSUME Tipos, Cuentas
    PROVE  /\ \A f \in Archivos : execute_fclose(f) => Cuentas' /\ UNCHANGED caida
           /\ \A p \in Pid : ExitArchivo(p) => Cuentas' /\ UNCHANGED caida
  <1>1. ASSUME NEW f \in Archivos, execute_fclose(f) PROVE Cuentas' /\ UNCHANGED caida
    BY <1>1, LiberarCuentas DEF execute_fclose
  <1>2. ASSUME NEW p \in Pid, ExitArchivo(p) PROVE Cuentas' /\ UNCHANGED caida
    <2>1. Head(open_files[p]) \in Archivos
      BY <1>2, PrimeroYResto DEF ExitArchivo, Tipos, TypeOK, TypePcb
    <2> QED
      BY <1>2, <2>1, LiberarCuentas DEF ExitArchivo
  <1> QED
    BY <1>1, <1>2

-----------------------------------------------------------------------------
(* Every step                                                              *)

Ajeno == UNCHANGED <<instancias, bloqueados, abiertos, shared>>

\* The kernel has not dereferenced NULL.
KernelEnPie == caida # "kernel"

\* Programs do not read or write a file they have not opened: the other NULL of the
\* kernel, the file pointer of execute_fread and execute_fwrite, is not reached.
SoloAbiertos == Disciplinado \/ "F_RW" \notin Instrucciones

\* Clients and threads that admit.
LEMMA AdmisionCuentas ==
    ASSUME Cuentas, \/ \E p \in Pid : process_instrucciones(p) \/ Cliente(p)
                    \/ \E h \in Hilos : Admision(h)
    PROVE  Cuentas' /\ UNCHANGED caida
  <1>1. Ajeno /\ UNCHANGED caida
    BY DEF Ajeno, process_instrucciones, Cliente, accept_new_process_in_READY, add_pcb_to_queue,
           wait_to_end_process, InformarConsola, Admision, get_actual_multiprog, LockNewToReady,
           UnlockNewToReady, can_move_NEW_to_READY, PedirTabla, move_NEW_to_READY,
           AdmisionFallida, SigueAdmision, recVars, pcbVars
  <1> QED
    BY <1>1, CuentasQuietas DEF Ajeno

\* The handlers; a program that reads and writes only what it opened makes none dereference
\* NULL.
LEMMA ManejadorCuentas ==
    ASSUME Tipos, Cuentas, Manejador
    PROVE  Cuentas' /\ (SoloAbiertos /\ KernelEnPie => KernelEnPie')
  <1>1. CASE \E r \in Recursos : execute_wait(r) \/ execute_signal(r)
    BY <1>1, WaitCuentas, SignalCuentas DEF KernelEnPie
  <1>2. CASE \E f \in Archivos : FopenEnUso(f) \/ execute_fopen(f) \/ execute_fclose(f)
    BY <1>2, AbrirCuentas, CerrarCuentas DEF KernelEnPie
  <1>3. CASE \E f \in Archivos : \E i \in {"F_TRUNCATE", "F_RW"} : ProcesarArchivo(i, f)
    <2>1. Ajeno
      BY <1>3 DEF ProcesarArchivo, Ajeno, recVars
    <2>2. SoloAbiertos => UNCHANGED caida
      BY <1>3 DEF SoloAbiertos, ProcesarArchivo, Desalojo
    <2> QED
      BY <2>1, <2>2, CuentasQuietas DEF Ajeno, KernelEnPie
  <1>4. CASE \/ RecursoInvalido \/ execute_io \/ execute_yield \/ execute_exit
             \/ \E f \in Archivos : FopenFallido(f) \/ execute_fseek(f)
             \/ execute_create_segment \/ execute_delete_segment \/ RespuestaNula
    <2>1. Ajeno /\ UNCHANGED caida
      BY <1>4 DEF RecursoInvalido, execute_io, execute_yield, execute_exit, FopenFallido,
             execute_fseek, execute_create_segment, execute_delete_segment, RespuestaNula,
             Ajeno, recVars, pcbVars
    <2> QED
      BY <2>1, CuentasQuietas DEF Ajeno, KernelEnPie
  <1> QED
    BY <1>1, <1>2, <1>3, <1>4 DEF Manejador

\* What the core does on its own.
LEMMA NucleoCuentas ==
    ASSUME Cuentas, NucleoInterno
    PROVE  Cuentas' /\ UNCHANGED caida
  <1>1. Ajeno /\ UNCHANGED caida
    BY DEF NucleoInterno, move_READY_to_EXEC, NadaQueDespachar, MoverDesalojado, FinExec,
           ReintentarSegmento, RecibirSegmento, compactar, FinCompactar, RecibirTabla,
           Ajeno, recVars, pcbVars
  <1> QED
    BY <1>1, CuentasQuietas DEF Ajeno

\* EXIT(pcb).
LEMMA ExitCuentas ==
    ASSUME Tipos, Cuentas, NEW p \in Pid, Exit(p)
    PROVE  Cuentas' /\ (KernelEnPie => KernelEnPie')
  <1>1. CASE ExitArchivo(p) \/ ExitRecurso(p)
    BY <1>1, CerrarCuentas, ExitRecursoCuentas DEF KernelEnPie
  <1>2. CASE ExitAvisar(p) \/ ExitArchivosFin(p) \/ ExitFin(p)
    <2>1. Ajeno /\ caida' \in {caida, "memoria"}
      BY <1>2 DEF ExitAvisar, ExitArchivosFin, ExitFin, Ajeno, recVars, pcbVars
    <2> QED
      BY <2>1, CuentasQuietas DEF Ajeno, KernelEnPie
  <1> QED
    BY <1>1, <1>2 DEF Exit

\* Threads of I/O and files, and the operator.
LEMMA RestoCuentas ==
    ASSUME Cuentas, (\E p \in Pid : Tarea(p)) \/ Apagar \/ UNCHANGED vars
    PROVE  Cuentas' /\ UNCHANGED caida
  <1>1. Ajeno /\ UNCHANGED caida
    BY DEF Tarea, io, MirarCompactacion, AbandonarArchivo, EnviarFS, RecibirFS, ArchivoListo, Apagar, vars, Ajeno, recVars, pcbVars
  <1> QED
    BY <1>1, CuentasQuietas DEF Ajeno

\* Every step keeps the accounts.
LEMMA NextCuentas ==
    ASSUME Tipos, Cuentas, [Next]_vars
    PROVE  Cuentas' /\ (SoloAbiertos /\ KernelEnPie => KernelEnPie')
  BY AdmisionCuentas, ManejadorCuentas, NucleoCuentas, ExitCuentas, RestoCuentas
     DEF Next, KernelEnPie

\* At the start every instance is free and no list has anybody.
LEMMA InitCuentas == Init => Cuentas
  <1> SUFFICES ASSUME Init PROVE Cuentas
    OBVIOUS
  <1> USE KernelAssumption DEF Init, InitRecursos, InitPcbs
  <1>1. ColaCuadra
    BY DEF ColaCuadra, TRecurso
  <1>2. AbiertoTomado
    BY DEF AbiertoTomado, TRecurso
  <1>3. InstanciasCuadran
    <2>1. ASSUME NEW r \in Recursos PROVE Poseidas(r) = {}
      BY PoseidasForma
    <2>2. ASSUME NEW r \in Recursos PROVE instancias[r] = Instancias[r] /\ Instancias[r] \in Nat
      BY DEF TRecurso
    <2>3. IsFiniteSet({}) /\ Cardinality({}) = 0
      BY FS_EmptySet
    <2>4. ASSUME NEW r \in Recursos
          PROVE  /\ IsFiniteSet(Poseidas(r))
                 /\ instancias[r] + Cardinality(Poseidas(r)) = Instancias[r]
                 /\ instancias[r] + Cardinality(Poseidas(r)) >= Instancias[r]
      <3>1. Poseidas(r) = {}
        BY <2>1
      <3>2. IsFiniteSet(Poseidas(r)) /\ Cardinality(Poseidas(r)) = 0
        BY <2>3, <3>1
      <3> QED
        BY <2>2, <3>2
    <2> QED
      BY <2>4 DEF InstanciasCuadran
  <1> QED
    BY <1>1, <1>2, <1>3 DEF Cuentas

\* Whatever the programs do, as many processes wait for a resource as instances are owed,
\* and WAIT, SIGNAL and the EXIT of processes that hold instances or wait for one neither
\* lose nor, for programs that SIGNAL only what they hold, invent an instance.  Only the
\* core touches a t_recurso here (KernelSoloElCore).
THEOREM KernelRecursoCuadra == Spec => []RecursoCuadra
  <1>1. Init => Tipos /\ Cuentas
    BY InitTipos, InitCuentas
  <1>2. Tipos /\ Cuentas /\ [Next]_vars => (Tipos /\ Cuentas)'
    BY NextTipos, NextCuentas
  <1>3. Tipos /\ Cuentas => RecursoCuadra
    BY CuentasDanCuadra
  <1> QED
    BY <1>1, <1>2, <1>3, PTL DEF Spec

\* While only the core touches a t_recurso, remove_pcb_from_queue_resourse never returns
\* NULL to the code that wakes a process, be it SIGNAL, F_CLOSE or EXIT, so the kernel does
\* not crash there.
THEOREM KernelSinNulos ==
    ASSUME SoloAbiertos
    PROVE  Spec => []KernelEnPie
  <1>1. Init => Tipos /\ Cuentas /\ KernelEnPie
    BY InitTipos, InitCuentas DEF Init, KernelEnPie, nadie
  <1>2. Tipos /\ Cuentas /\ KernelEnPie /\ [Next]_vars => (Tipos /\ Cuentas /\ KernelEnPie)'
    BY NextTipos, NextCuentas
  <1> QED
    BY <1>1, <1>2, PTL DEF Spec
=============================================================================
