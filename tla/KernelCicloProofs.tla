-------------------------- MODULE KernelCicloProofs --------------------------
(***************************************************************************)
(* The life cycle of a process: which queue it is in, who will wake it,    *)
(* what memoria and the console know of it.                                *)
(***************************************************************************)
EXTENDS KernelProofs

-----------------------------------------------------------------------------
(* The invariant                                                           *)

\* No thread moves a process the core is still blocking, and the CPU always returns a context.
SinCarreras == ~Carrera /\ ~FallaCPU

Esta(p, c) == Contains(cola[c], p)

\* The core works on a pcb that is in EXEC.
Corre == Ejecuta \ {"exit_exec", "exit_otra_vez"}

Unico == Repartida(cola, Colas)

\* A process is in a queue from add_pcb_to_queue on.
Alta == \A p \in Pid : pc[p] \in SinAlta <=> \A c \in Colas : ~Esta(p, c)

\* The process a thread asked a table for is still in NEW when the answer comes, and in
\* EXIT, with EXIT(pcb) still to run, when the answer was not a table.
Admitiendo == \A h \in Hilos :
    /\ pc[h] = "espera_ts" => Esta(elegido[h], "NEW") /\ elegido[h] \in enMemoria
    /\ pc[h] = "falla_ts" => /\ Esta(elegido[h], "EXIT") /\ elegido[h] \in enMemoria
                             /\ saliendo[elegido[h]] = "no"

Ejecutando ==
    /\ pc[core] \in Corre => Esta(Actual, "EXEC")
    /\ pc[core] # "exit_otra_vez"

\* Who will move p out of BLOCK: a list it is in, or a thread that works for it.
EnEspera(p) == \E r \in TRecurso : Contains(bloqueados[r], p)
Trabaja(p) == \E t \in tareas : t.pid = p

\* p is in BLOCK, or about to be.
Despertable(p) == Esta(p, "BLOCK") \/ (EnTransito(p) /\ next_queue[p] = "BLOCK")

Despertadores ==
    /\ Repartida(bloqueados, TRecurso)
    /\ \A p \in Pid : EnEspera(p) \/ Trabaja(p) => Despertable(p)
    /\ \A p \in Pid : ~(EnEspera(p) /\ Trabaja(p))
    /\ \A t, u \in tareas : t.pid = u.pid => t = u

\* EXIT(pcb) runs for a process that is in EXIT.
EnSalida == \A p \in Pid : saliendo[p] # "no" => Esta(p, "EXIT")

\* Memoria has the table of a process from its admission to its PROCESS_END.
ConTabla ==
    /\ \A p \in Pid : Esta(p, "READY") \/ Esta(p, "EXEC") \/ Esta(p, "BLOCK") => p \in enMemoria
    /\ \A p \in Pid : saliendo[p] = "avisar" => p \in enMemoria

\* What EXIT has to give back, and nobody but the core, in EXIT of the process it ran, gives
\* back anything: a process that never ran holds nothing.
SinNada(p) == open_files[p] = <<>> /\ shared[p] = <<>>

Ajenos ==
    /\ \A p \in Pid : pc[p] \in SinAlta \/ Esta(p, "NEW") => SinNada(p)
    /\ \A h \in Hilos : pc[h] = "falla_ts" => SinNada(elegido[h])
    /\ \A p \in Pid : saliendo[p] # "no" => SinNada(p) \/ (pc[core] = "exit_exec" /\ Actual = p)

Ciclo == Unico /\ Alta /\ Admitiendo /\ Ejecutando /\ Despertadores /\ EnSalida /\ ConTabla

-----------------------------------------------------------------------------
(* Queues                                                                  *)

\* A process is in one queue.
LEMMA UnaCola ==
    ASSUME Unico
    PROVE  \A c, d \in Colas : \A p : Contains(cola[c], p) /\ Contains(cola[d], p) => c = d
  BY UnaLista DEF Unico

\* move_pcb_from_to takes a process that is in the source queue to the other.
LEMMA MoverCiclo ==
    ASSUME TypeColas, Unico, NEW p \in Pid, NEW de \in Colas, NEW a \in Colas, de # a,
           Contains(cola[de], p), cola' = move_pcb_from_to(p, de, a)
    PROVE  Unico' /\ Movido(cola, cola', Colas, a, p)
  BY RepartidaMueve DEF TypeColas, Unico, move_pcb_from_to

\* A thread that is neither admitting a process nor running one goes on.
LEMMA HiloCiclo ==
    ASSUME Tipos, Ciclo, NEW h \in Hilos, NEW e \in Etiquetas, Ir(h, e),
           e \notin Ejecuta, e \notin {"espera_ts", "falla_ts"},
           pc[h] # "mueve", pc[h] \in SinAlta <=> e \in SinAlta,
           \A g \in Hilos : g # h => elegido'[g] = elegido[g],
           UNCHANGED <<cola, bloqueados, tareas, saliendo, enMemoria, next_queue>>
    PROVE  Ciclo'
  <1>1. /\ pc'[h] = e /\ \A g \in Hilos : g # h => pc'[g] = pc[g]
        /\ core \in Hilos /\ Pid \subseteq Hilos
        /\ elegido'[core] = elegido[core] \/ h = core
    BY DEF Tipos, TypeOK, TypeHilos, Ir, Hilos
  <1>2. Unico'
    BY DEF Ciclo, Unico
  <1>3. Alta'
    BY <1>1 DEF Ciclo, Alta, Esta
  <1>4. Admitiendo'
    BY <1>1 DEF Ciclo, Admitiendo, Esta
  <1>5. Ejecutando'
    BY <1>1 DEF Ciclo, Ejecutando, Esta, Corre, Actual, Ejecuta
  <1>6. Despertadores'
    BY <1>1 DEF Ciclo, Despertadores, EnEspera, Trabaja, Despertable, EnTransito, Actual, Esta, Ejecuta
  <1>7. EnSalida' /\ ConTabla'
    BY DEF Ciclo, EnSalida, ConTabla, Esta
  <1> QED
    BY <1>2, <1>3, <1>4, <1>5, <1>6, <1>7 DEF Ciclo

\* The core goes on with the process it runs, whatever next_queue becomes.
LEMMA CoreCiclo ==
    ASSUME Tipos, Ciclo, pc[core] \in Corre \ {"mueve"}, NEW e \in Corre, Ir(core, e),
           UNCHANGED <<cola, bloqueados, tareas, saliendo, enMemoria, elegido>>
    PROVE  Ciclo'
  <1>1. /\ pc'[core] = e /\ \A g \in Hilos : g # core => pc'[g] = pc[g]
        /\ core \in Hilos /\ Pid \subseteq Hilos /\ core \notin Pid
    BY KernelAssumption DEF Tipos, TypeOK, TypeHilos, Ir, Hilos
  <1>2. Unico'
    BY DEF Ciclo, Unico
  <1>3. Alta'
    BY <1>1 DEF Ciclo, Alta, Esta
  <1>4. Admitiendo'
    BY <1>1 DEF Ciclo, Admitiendo, Esta, Corre, Ejecuta
  <1>5. Ejecutando'
    BY <1>1 DEF Ciclo, Ejecutando, Esta, Corre, Actual, Ejecuta
  <1>6. Despertadores'
    BY <1>1 DEF Ciclo, Despertadores, EnEspera, Trabaja, Despertable, EnTransito, Actual, Esta
  <1>7. EnSalida' /\ ConTabla'
    BY DEF Ciclo, EnSalida, ConTabla, Esta
  <1> QED
    BY <1>2, <1>3, <1>4, <1>5, <1>6, <1>7 DEF Ciclo

\* The process the core runs has nobody to wake it.
LEMMA SinDespertador ==
    ASSUME Tipos, Ciclo, pc[core] \in Corre \ {"mueve"}
    PROVE  ~EnEspera(Actual) /\ ~Trabaja(Actual)
  <1>1. Actual \in Pid /\ Contains(cola["EXEC"], Actual)
    BY DEF Tipos, Control, Elegidos, Actual, Ciclo, Ejecutando, Esta, Corre
  <1>2. ~Contains(cola["BLOCK"], Actual)
    BY <1>1, UnaCola, ColasDistintas DEF Ciclo
  <1> QED
    BY <1>1, <1>2 DEF Ciclo, Despertadores, Despertable, EnTransito, Esta

\* A handler sends its process to BLOCK and starts a thread for it, or adds it to a list.
LEMMA BloquearCiclo ==
    ASSUME Tipos, Ciclo, pc[core] \in Corre \ {"mueve"}, Ir(core, "mueve"),
           next_queue'[Actual] = "BLOCK",
           \/ /\ UNCHANGED bloqueados
              /\ \E t : t.pid = Actual /\ t.paso = "corre" /\ tareas' = tareas \cup {t}
           \/ /\ UNCHANGED tareas
              /\ \E r \in TRecurso : bloqueados' = [bloqueados EXCEPT ![r] = Append(@, Actual)],
           UNCHANGED <<cola, saliendo, enMemoria, elegido>>
    PROVE  Ciclo'
  <1>1. /\ pc'[core] = "mueve" /\ \A g \in Hilos : g # core => pc'[g] = pc[g]
        /\ core \in Hilos /\ Pid \subseteq Hilos /\ core \notin Pid
    BY KernelAssumption DEF Tipos, TypeOK, TypeHilos, Ir, Hilos
  <1>0. Actual \in Pid /\ Actual' = Actual
    BY DEF Tipos, Control, Elegidos, Actual, Corre
  <1>2. Unico' /\ Alta'
    BY <1>1 DEF Ciclo, Unico, Alta, Esta
  <1>3. Admitiendo'
    BY <1>1 DEF Ciclo, Admitiendo, Esta, Corre, Ejecuta
  <1>4. Ejecutando'
    BY <1>1 DEF Ciclo, Ejecutando, Esta, Corre, Actual, Ejecuta
  <1>5. Despertable(Actual)' /\ \A p \in Pid : Despertable(p) => Despertable(p)'
    BY <1>0, <1>1 DEF Despertable, EnTransito, Esta
  <1>9. ~EnEspera(Actual) /\ ~Trabaja(Actual)
    BY SinDespertador
  <1>10. \A p \in Pid : (EnEspera(p) \/ Trabaja(p) => Despertable(p)) /\ ~(EnEspera(p) /\ Trabaja(p))
    BY DEF Ciclo, Despertadores
  <1>6. Despertadores'
    <2>1. CASE UNCHANGED bloqueados /\ \E t : t.pid = Actual /\ t.paso = "corre" /\ tareas' = tareas \cup {t}
      <3>1. PICK t : t.pid = Actual /\ t.paso = "corre" /\ tareas' = tareas \cup {t}
        BY <2>1
      <3>2. \A p \in Pid : EnEspera(p)' <=> EnEspera(p)
        BY <2>1 DEF EnEspera
      <3>3. \A p \in Pid : Trabaja(p)' <=> Trabaja(p) \/ p = Actual
        BY <3>1 DEF Trabaja
      <3>4. \A u, v \in tareas' : u.pid = v.pid => u = v
        BY <3>1, SinDespertador DEF Trabaja, Ciclo, Despertadores
      <3>8. ASSUME NEW p \in Pid
            PROVE  /\ (EnEspera(p) \/ Trabaja(p))' => Despertable(p)'
                   /\ ~(EnEspera(p) /\ Trabaja(p))'
        BY <1>0, <1>5, <1>9, <1>10, <3>2, <3>3
      <3> QED
        BY <2>1, <3>4, <3>8 DEF Ciclo, Despertadores
    <2>2. CASE UNCHANGED tareas /\ \E r \in TRecurso : bloqueados' = [bloqueados EXCEPT ![r] = Append(@, Actual)]
      <3>1. PICK r \in TRecurso : bloqueados' = [bloqueados EXCEPT ![r] = Append(@, Actual)]
        BY <2>2
      <3>2. bloqueados \in [TRecurso -> Seq(Pid)]
        BY DEF Tipos, TypeOK, TypeRec
      <3>3. SoloEn(bloqueados, bloqueados', TRecurso, r, Append(bloqueados[r], Actual))
        BY <3>1, <3>2 DEF SoloEn
      <3>4. Ausente(bloqueados, TRecurso, Actual)
        BY SinDespertador DEF Ausente, EnEspera
      <3>5. Repartida(bloqueados', TRecurso) /\ Agregado(bloqueados, bloqueados', TRecurso, r, Actual)
        BY <1>0, <3>2, <3>3, <3>4, RepartidaAgrega DEF Ciclo, Despertadores
      <3>6. \A p \in Pid : EnEspera(p)' <=> EnEspera(p) \/ p = Actual
        BY <3>5 DEF EnEspera, Agregado
      <3>7. \A p \in Pid : Trabaja(p)' <=> Trabaja(p)
        BY <2>2 DEF Trabaja
      <3>8. ASSUME NEW p \in Pid
            PROVE  /\ (EnEspera(p) \/ Trabaja(p))' => Despertable(p)'
                   /\ ~(EnEspera(p) /\ Trabaja(p))'
        BY <1>0, <1>5, <1>9, <1>10, <3>6, <3>7
      <3> QED
        BY <2>2, <3>5, <3>8 DEF Ciclo, Despertadores
    <2> QED
      BY <2>1, <2>2
  <1>7. EnSalida'
    BY DEF Ciclo, EnSalida, Esta
  <1>8. ConTabla'
    BY DEF Ciclo, ConTabla, Esta
  <1> QED
    BY <1>2, <1>3, <1>4, <1>6, <1>7, <1>8 DEF Ciclo

-----------------------------------------------------------------------------
(* Waking                                                                  *)

\* The first of list r goes from BLOCK to READY.
Despierta(r) ==
    /\ bloqueados[r] # <<>>
    /\ bloqueados' = [bloqueados EXCEPT ![r] = Tail(@)]
    /\ cola' = move_pcb_from_to(Head(bloqueados[r]), "BLOCK", "READY")

\* While a thread wakes p the core stays where it is, or returns to the CPU.
CoreQuieto ==
    \/ pc' = pc
    \/ pc[core] \in Corre \ {"mueve"} /\ Ir(core, "cpu")

\* A process whose waker moves it out of BLOCK.  Nobody else waits for it.
LEMMA DesbloquearCiclo ==
    ASSUME Tipos, Ciclo, NEW p \in Pid, Contains(cola["BLOCK"], p),
           cola' = move_pcb_from_to(p, "BLOCK", "READY"), CoreQuieto,
           Repartida(bloqueados', TRecurso),
           ~EnEspera(p)', ~Trabaja(p)',
           \A q \in Pid : q # p => (EnEspera(q)' <=> EnEspera(q)) /\ (Trabaja(q)' <=> Trabaja(q)),
           \A t, u \in tareas' : t.pid = u.pid => t = u,
           UNCHANGED <<saliendo, enMemoria, elegido, next_queue>>
    PROVE  Ciclo'
  <1>1. /\ Unico' /\ Movido(cola, cola', Colas, "READY", p)
    BY MoverCiclo, ColasDistintas DEF Tipos, TypeOK, Ciclo
  <1>2. \A q, c : q \in Pid /\ c \in Colas =>
            (Contains(cola'[c], q) <=> IF q = p THEN c = "READY" ELSE Contains(cola[c], q))
    BY <1>1 DEF Movido
  <1>3. \A c \in Colas : Contains(cola[c], p) => c = "BLOCK"
    BY UnaCola, ColasDistintas DEF Ciclo
  <1>4. /\ core \in Hilos /\ Pid \subseteq Hilos
        /\ \A h \in Hilos : h # core => pc'[h] = pc[h]
        /\ \/ pc'[core] = pc[core]
           \/ pc'[core] = "cpu" /\ pc[core] \in Corre \ {"mueve"}
        /\ core \notin Pid
    BY KernelAssumption DEF CoreQuieto, Tipos, TypeOK, TypeHilos, Ir, Hilos
  <1>5. Alta'
    BY <1>2, <1>3, <1>4, ColasDistintas DEF Ciclo, Alta, Esta
  <1>6. \A h \in Hilos : pc[h] \in {"espera_ts", "falla_ts"} => elegido[h] # p
    BY <1>3, ColasDistintas DEF Ciclo, Admitiendo, Esta
  <1>7. Admitiendo'
    <2>1. \A h \in Hilos : pc'[h] \in {"espera_ts", "falla_ts"} => pc[h] = pc'[h] /\ elegido[h] \in Pid
      BY <1>4 DEF Tipos, Control, Elegidos
    <2> QED
      BY <1>2, <1>6, <2>1, ColasDistintas DEF Ciclo, Admitiendo, Esta
  <1>8. Ejecutando'
    <2>1. pc'[core] \in Corre => pc[core] \in Corre /\ elegido[core] \in Pid
      BY <1>4 DEF Tipos, Control, Elegidos, Corre
    <2>2. pc'[core] # "exit_otra_vez"
      BY <1>4 DEF Ciclo, Ejecutando
    <2>3. pc[core] \in Corre => Contains(cola["EXEC"], Actual) /\ Actual # p
      BY <1>3, ColasDistintas DEF Ciclo, Ejecutando, Esta
    <2> QED
      BY <1>2, <2>1, <2>2, <2>3, ColasDistintas DEF Ejecutando, Esta, Actual
  <1>9. Despertadores'
    <2>1. ASSUME NEW q \in Pid, EnEspera(q)' \/ Trabaja(q)' PROVE Despertable(q)'
      <3>1. q # p /\ Despertable(q)
        BY <2>1 DEF Ciclo, Despertadores
      <3>2. EnTransito(q) => EnTransito(q)'
        BY <1>4 DEF EnTransito, Actual
      <3> QED
        BY <1>2, <3>1, <3>2, ColasDistintas DEF Despertable, Esta
    <2>2. ASSUME NEW q \in Pid PROVE ~(EnEspera(q)' /\ Trabaja(q)')
      BY DEF Ciclo, Despertadores
    <2> QED
      BY <2>1, <2>2 DEF Despertadores
  <1>10. EnSalida'
    BY <1>2, <1>3, ColasDistintas DEF Ciclo, EnSalida, Esta
  <1>11. ConTabla'
    <2>1. p \in enMemoria
      BY DEF Ciclo, ConTabla, Esta
    <2> QED
      BY <1>2, <2>1, ColasDistintas DEF Ciclo, ConTabla, Esta
  <1> QED
    BY <1>1, <1>5, <1>7, <1>8, <1>9, <1>10, <1>11 DEF Ciclo

\* What waking the first of a list does: it leaves BLOCK and the list, and nobody else does.
LEMMA DespiertaEfecto ==
    ASSUME Tipos, Ciclo, NEW r \in TRecurso, Despierta(r), ~EnTransito(Head(bloqueados[r]))
    PROVE  \E p \in Pid :
             /\ Contains(cola["BLOCK"], p) /\ ~Trabaja(p)
             /\ cola' = move_pcb_from_to(p, "BLOCK", "READY")
             /\ Repartida(bloqueados', TRecurso)
             /\ \A q \in Pid : EnEspera(q)' <=> (EnEspera(q) /\ q # p)
  <1> DEFINE p == Head(bloqueados[r])
  <1>1. bloqueados \in [TRecurso -> Seq(Pid)] /\ bloqueados[r] \in Seq(Pid) /\ bloqueados[r] # <<>>
    BY DEF Tipos, TypeOK, TypeRec, Despierta
  <1>2. p \in Pid /\ SinIndice(bloqueados[r], 1, Tail(bloqueados[r])) /\ bloqueados[r][1] = p
    BY <1>1, PrimeroYResto, SacarIndice
  <1>3. SoloEn(bloqueados, bloqueados', TRecurso, r, Tail(bloqueados[r]))
    BY <1>1 DEF Despierta, SoloEn
  <1>4. cola' = move_pcb_from_to(p, "BLOCK", "READY") /\ ~EnTransito(p)
    BY DEF Despierta
  <1> HIDE DEF p
  <1>5. Repartida(bloqueados', TRecurso) /\ Quitado(bloqueados, bloqueados', TRecurso, p)
    <2>1. Repartida(bloqueados, TRecurso)
      BY DEF Ciclo, Despertadores
    <2>2. Repartida(bloqueados', TRecurso) /\ Quitado(bloqueados, bloqueados', TRecurso, bloqueados[r][1])
      BY <1>1, <1>2, <1>3, <2>1, RepartidaQuita
    <2> QED
      BY <1>2, <2>2
  <1>6. EnEspera(p)
    <2>1. 1 \in 1..Len(bloqueados[r])
      BY <1>1
    <2> QED
      BY <1>2, <2>1 DEF EnEspera, Contains
  <1>7. Contains(cola["BLOCK"], p) /\ ~Trabaja(p)
    BY <1>2, <1>4, <1>6 DEF Ciclo, Despertadores, Despertable, Esta
  <1>8. \A q \in Pid : EnEspera(q)' <=> (EnEspera(q) /\ q # p)
    BY <1>5 DEF EnEspera, Quitado
  <1> QED
    BY <1>2, <1>4, <1>5, <1>7, <1>8

\* Waking the first of a list.
LEMMA DespiertaCiclo ==
    ASSUME Tipos, Ciclo, NEW r \in TRecurso, Despierta(r),
           ~EnTransito(Head(bloqueados[r])), CoreQuieto,
           UNCHANGED <<tareas, saliendo, enMemoria, elegido, next_queue>>
    PROVE  Ciclo'
  <1>1. PICK p \in Pid :
          /\ Contains(cola["BLOCK"], p) /\ ~Trabaja(p)
          /\ cola' = move_pcb_from_to(p, "BLOCK", "READY")
          /\ Repartida(bloqueados', TRecurso)
          /\ \A q \in Pid : EnEspera(q)' <=> (EnEspera(q) /\ q # p)
    BY DespiertaEfecto
  <1>2. \A q \in Pid : Trabaja(q)' <=> Trabaja(q)
    BY DEF Trabaja
  <1>3. \A t, u \in tareas' : t.pid = u.pid => t = u
    BY DEF Ciclo, Despertadores
  <1> QED
    BY <1>1, <1>2, <1>3, DesbloquearCiclo

\* Waking a process touches neither NEW nor EXIT.
LEMMA DespiertaEnPaz ==
    ASSUME Tipos, NEW r \in TRecurso, UNCHANGED cola \/ Despierta(r)
    PROVE  cola'["EXIT"] = cola["EXIT"] /\ cola'["NEW"] = cola["NEW"]
  <1>1. TypeColas
    BY DEF Tipos, TypeOK
  <1> DEFINE q == Head(bloqueados[r])
  <1>2. /\ move_pcb_from_to(q, "BLOCK", "READY")["EXIT"] = cola["EXIT"]
        /\ move_pcb_from_to(q, "BLOCK", "READY")["NEW"] = cola["NEW"]
    <2> HIDE DEF q
    <2> QED
      BY <1>1, MoverAparte, ColasDistintas
  <1> QED
    BY <1>2 DEF Despierta

-----------------------------------------------------------------------------
(* Admission                                                               *)

\* A client adds its process, which was nowhere, to NEW.
LEMMA AgregarCiclo ==
    ASSUME Tipos, Ciclo, NEW p \in Pid, add_pcb_to_queue(p)
    PROVE  Ciclo'
  <1>1. /\ cola \in [Colas -> Seq(Pid)] /\ cola' = [cola EXCEPT !["NEW"] = Append(@, p)]
        /\ UNCHANGED <<bloqueados, tareas, saliendo, enMemoria, elegido, next_queue>>
    BY DEF Tipos, TypeOK, TypeColas, add_pcb_to_queue, recVars, fsVars, memVars, pcbVars
  <1>2. /\ pc[p] \in SinAlta /\ pc'[p] \in {"lock_nr", "espera"}
        /\ \A h \in Hilos : h # p => pc'[h] = pc[h]
        /\ core \in Hilos /\ Pid \subseteq Hilos /\ p # core
    BY KernelAssumption DEF add_pcb_to_queue, SinAlta, Ir, Tipos, TypeOK, TypeHilos, Hilos
  <1>3. Ausente(cola, Colas, p)
    BY <1>2 DEF Ciclo, Alta, Ausente, Esta
  <1>4. SoloEn(cola, cola', Colas, "NEW", Append(cola["NEW"], p))
    BY <1>1, ColasDistintas DEF SoloEn
  <1>5. Unico' /\ Agregado(cola, cola', Colas, "NEW", p)
    BY <1>1, <1>3, <1>4, RepartidaAgrega, ColasDistintas DEF Ciclo, Unico
  <1>6. \A q, c : q \in Pid /\ c \in Colas =>
            (Contains(cola'[c], q) <=> Contains(cola[c], q) \/ (q = p /\ c = "NEW"))
    BY <1>5 DEF Agregado
  <1>7. Alta'
    BY <1>2, <1>6, ColasDistintas DEF Ciclo, Alta, Esta, SinAlta
  <1>8. Admitiendo'
    <2>1. \A h \in Hilos : pc'[h] \in {"espera_ts", "falla_ts"} => pc[h] = pc'[h] /\ elegido[h] \in Pid
      BY <1>2 DEF Tipos, Control, Elegidos
    <2> QED
      BY <1>1, <1>6, <2>1, ColasDistintas DEF Ciclo, Admitiendo, Esta
  <1>9. Ejecutando'
    <2>1. pc[core] \in Corre => elegido[core] \in Pid
      BY DEF Tipos, Control, Elegidos, Corre
    <2> QED
      BY <1>1, <1>2, <1>6, <2>1, ColasDistintas DEF Ciclo, Ejecutando, Esta, Actual
  <1>10. Despertadores'
    <2>1. \A q \in Pid : Despertable(q) => Despertable(q)'
      BY <1>1, <1>2, <1>6, ColasDistintas DEF Despertable, EnTransito, Actual, Esta
    <2>2. \A q \in Pid : (EnEspera(q)' <=> EnEspera(q)) /\ (Trabaja(q)' <=> Trabaja(q))
      BY <1>1 DEF EnEspera, Trabaja
    <2> QED
      BY <1>1, <2>1, <2>2 DEF Ciclo, Despertadores
  <1>11. EnSalida' /\ ConTabla'
    BY <1>1, <1>6, ColasDistintas DEF Ciclo, EnSalida, ConTabla, Esta
  <1> QED
    BY <1>5, <1>7, <1>8, <1>9, <1>10, <1>11 DEF Ciclo

\* Nobody else is admitting while h is.
LEMMA SoloUnoAdmite ==
    ASSUME Tipos, NEW h \in Hilos, pc[h] \in Admite
    PROVE  \A g \in Hilos : g # h => pc[g] \notin Admite
  BY DEF Tipos, Control, MutexTomado

\* The request for a table of the first process of NEW.
LEMMA PedirTablaCiclo ==
    ASSUME Tipos, Ciclo, NEW h \in Hilos, PedirTabla(h)
    PROVE  Ciclo'
  <1> DEFINE p == Head(cola["NEW"])
  <1>1. p \in Pid /\ Contains(cola["NEW"], p)
    <2>1. cola["NEW"] \in Seq(Pid) /\ cola["NEW"] # <<>>
      BY ColasDistintas DEF PedirTabla, En, Tipos, TypeOK, TypeColas, Control, NuevoEspera
    <2>2. cola["NEW"][1] = p /\ 1 \in 1..Len(cola["NEW"])
      BY <2>1
    <2> QED
      BY <2>1, <2>2, PrimeroYResto DEF Contains
  <1>2. /\ pc[h] = "cuenta_block"
        /\ elegido' = [elegido EXCEPT ![h] = p] /\ enMemoria' = enMemoria \cup {p}
        /\ Ir(h, "espera_ts")
        /\ UNCHANGED <<cola, bloqueados, tareas, saliendo, next_queue>>
    BY DEF PedirTabla, En, recVars, fsVars, pcbVars
  <1> HIDE DEF p
  <1>3. /\ pc'[h] = "espera_ts" /\ elegido'[h] = p
        /\ \A g \in Hilos : g # h => pc'[g] = pc[g] /\ elegido'[g] = elegido[g]
        /\ core \in Hilos /\ Pid \subseteq Hilos
    BY <1>2 DEF Ir, Tipos, TypeOK, TypeHilos, Hilos
  <1>4. Unico' /\ Alta'
    BY <1>2, <1>3 DEF Ciclo, Unico, Alta, Esta, SinAlta
  <1>5. Admitiendo'
    BY <1>1, <1>2, <1>3 DEF Ciclo, Admitiendo, Esta
  <1>6. Ejecutando'
    BY <1>2, <1>3 DEF Ciclo, Ejecutando, Esta, Actual, Corre, Ejecuta
  <1>7. Despertadores'
    BY <1>2, <1>3 DEF Ciclo, Despertadores, EnEspera, Trabaja, Despertable, EnTransito, Actual, Esta
  <1>8. EnSalida' /\ ConTabla'
    BY <1>2 DEF Ciclo, EnSalida, ConTabla, Esta
  <1> QED
    BY <1>4, <1>5, <1>6, <1>7, <1>8 DEF Ciclo

\* NEW to READY, or to EXIT when the answer was not a table.
LEMMA AdmitirCiclo ==
    ASSUME Tipos, Ciclo, NEW h \in Hilos, move_NEW_to_READY(h)
    PROVE  Ciclo'
  <1> DEFINE p == elegido[h]
  <1>1. /\ pc[h] = "espera_ts" /\ p \in Pid /\ Contains(cola["NEW"], p) /\ p \in enMemoria
    BY DEF move_NEW_to_READY, En, Tipos, Control, Elegidos, Ciclo, Admitiendo, Esta
  <1>2. PICK a \in {"READY", "EXIT"}, e \in {"mira_new", "falla_ts"} :
          /\ cola' = move_pcb_from_to(p, "NEW", a) /\ Ir(h, e)
          /\ e = "falla_ts" => a = "EXIT" /\ UNCHANGED elegido
          /\ e = "mira_new" => a = "READY"
          /\ \A g \in Hilos : g # h => elegido'[g] = elegido[g]
    BY DEF move_NEW_to_READY, Tipos, TypeOK, TypeHilos
  <1>3. UNCHANGED <<bloqueados, tareas, saliendo, enMemoria, next_queue>>
    BY DEF move_NEW_to_READY, recVars, fsVars
  <1>4. Unico' /\ Movido(cola, cola', Colas, a, p) /\ a \in Colas
    BY <1>1, <1>2, MoverCiclo, ColasDistintas DEF Tipos, TypeOK, Ciclo
  <1>5. \A q, c : q \in Pid /\ c \in Colas =>
            (Contains(cola'[c], q) <=> IF q = p THEN c = a ELSE Contains(cola[c], q))
    BY <1>4 DEF Movido
  <1>6. \A c \in Colas : Contains(cola[c], p) => c = "NEW"
    BY <1>1, UnaCola, ColasDistintas DEF Ciclo
  <1>7. /\ pc'[h] = e /\ \A g \in Hilos : g # h => pc'[g] = pc[g]
        /\ core \in Hilos /\ Pid \subseteq Hilos
        /\ h = core \/ elegido'[core] = elegido[core]
    BY <1>2 DEF Ir, Tipos, TypeOK, TypeHilos, Hilos
  <1>8. Alta'
    BY <1>1, <1>4, <1>5, <1>7, ColasDistintas DEF Ciclo, Alta, Esta, SinAlta
  <1>9. saliendo[p] = "no"
    BY <1>1, <1>6, ColasDistintas DEF Ciclo, EnSalida, Esta
  <1>10. Admitiendo'
    <2>1. \A g \in Hilos : g # h => pc'[g] \notin {"espera_ts", "falla_ts"}
      BY <1>1, <1>7, SoloUnoAdmite DEF Admite
    <2>2. pc'[h] = "falla_ts" => elegido'[h] = p /\ Contains(cola'["EXIT"], p)
      BY <1>1, <1>2, <1>5, <1>7, ColasDistintas
    <2> QED
      BY <1>1, <1>2, <1>3, <1>7, <1>9, <2>1, <2>2 DEF Admitiendo, Esta
  <1>11. Ejecutando'
    <2>1. pc'[core] \in Corre => /\ pc[core] \in Corre /\ elegido[core] \in Pid /\ h # core
                                 /\ Contains(cola["EXEC"], elegido[core]) /\ elegido[core] # p
      BY <1>6, <1>7, <1>1, <1>2, ColasDistintas
         DEF Tipos, Control, Elegidos, Corre, Ejecuta, Ciclo, Ejecutando, Esta, Actual
    <2>2. pc'[core] # "exit_otra_vez"
      BY <1>2, <1>7 DEF Ciclo, Ejecutando
    <2> QED
      BY <1>5, <1>7, <2>1, <2>2, ColasDistintas DEF Ejecutando, Esta, Actual
  <1>12. Despertadores'
    <2>1. \A q \in Pid : Despertable(q) => Despertable(q)'
      <3>1. ASSUME NEW q \in Pid, EnTransito(q) PROVE EnTransito(q)'
        BY <1>1, <1>7, <3>1 DEF EnTransito, Actual
      <3>2. ASSUME NEW q \in Pid, Contains(cola["BLOCK"], q) PROVE Contains(cola'["BLOCK"], q)
        BY <1>5, <1>6, <3>2, ColasDistintas
      <3> QED
        BY <1>3, <3>1, <3>2 DEF Despertable, Esta
    <2>2. \A q \in Pid : (EnEspera(q)' <=> EnEspera(q)) /\ (Trabaja(q)' <=> Trabaja(q))
      BY <1>3 DEF EnEspera, Trabaja
    <2> QED
      BY <1>3, <2>1, <2>2 DEF Ciclo, Despertadores
  <1>13. EnSalida'
    BY <1>3, <1>5, <1>6, ColasDistintas DEF Ciclo, EnSalida, Esta
  <1>14. ConTabla'
    BY <1>1, <1>3, <1>5, ColasDistintas DEF Ciclo, ConTabla, Esta
  <1> QED
    BY <1>4, <1>8, <1>10, <1>11, <1>12, <1>13, <1>14 DEF Ciclo

\* An admission that failed runs EXIT of a process that is in EXIT.
LEMMA FallidaCiclo ==
    ASSUME Tipos, Ciclo, NEW h \in Hilos, AdmisionFallida(h)
    PROVE  Ciclo'
  <1> DEFINE p == elegido[h]
  <1>1. /\ pc[h] = "falla_ts" /\ p \in Pid /\ Contains(cola["EXIT"], p) /\ p \in enMemoria
    BY DEF AdmisionFallida, En, Tipos, Control, Elegidos, Ciclo, Admitiendo, Esta
  <1>2. /\ saliendo' = [saliendo EXCEPT ![p] = "avisar"] /\ Ir(h, "exit_new")
        /\ UNCHANGED <<cola, bloqueados, tareas, enMemoria, elegido, next_queue>>
    BY DEF AdmisionFallida, recVars, fsVars, memVars
  <1>3. /\ pc'[h] = "exit_new" /\ \A g \in Hilos : g # h => pc'[g] = pc[g]
        /\ core \in Hilos /\ Pid \subseteq Hilos
        /\ saliendo'[p] = "avisar" /\ \A q \in Pid : q # p => saliendo'[q] = saliendo[q]
    BY <1>1, <1>2 DEF Ir, Tipos, TypeOK, TypeHilos, Hilos
  <1>4. Unico' /\ Alta'
    BY <1>1, <1>2, <1>3 DEF Ciclo, Unico, Alta, Esta, SinAlta
  <1>5. Admitiendo'
    <2>1. \A g \in Hilos : g # h => pc'[g] \notin {"espera_ts", "falla_ts"}
      BY <1>1, <1>3, SoloUnoAdmite DEF Admite
    <2> QED
      BY <1>3, <2>1 DEF Admitiendo
  <1>6. Ejecutando'
    BY <1>1, <1>2, <1>3 DEF Ciclo, Ejecutando, Esta, Actual, Corre, Ejecuta
  <1>7. Despertadores'
    BY <1>1, <1>2, <1>3 DEF Ciclo, Despertadores, EnEspera, Trabaja, Despertable, EnTransito, Actual, Esta
  <1>8. EnSalida' /\ ConTabla'
    BY <1>1, <1>2, <1>3 DEF Ciclo, EnSalida, ConTabla, Esta
  <1> QED
    BY <1>4, <1>5, <1>6, <1>7, <1>8 DEF Ciclo

\* The other steps of the threads that admit and of the clients.
LEMMA ClienteCiclo ==
    ASSUME Tipos, Ciclo,
           \/ \E p \in Pid : \/ process_instrucciones(p) \/ accept_new_process_in_READY(p)
                             \/ wait_to_end_process(p) \/ InformarConsola(p)
           \/ \E h \in Hilos : \/ get_actual_multiprog(h) \/ LockNewToReady(h)
                               \/ UnlockNewToReady(h) \/ can_move_NEW_to_READY(h)
                               \/ SigueAdmision(h)
    PROVE  Ciclo'
  <1>1. UNCHANGED <<cola, bloqueados, tareas, saliendo, enMemoria, next_queue>>
    BY DEF process_instrucciones, accept_new_process_in_READY, wait_to_end_process, InformarConsola,
           get_actual_multiprog, LockNewToReady, UnlockNewToReady, can_move_NEW_to_READY,
           SigueAdmision, recVars, fsVars, memVars, pcbVars
  <1>2. PICK h \in Hilos, e \in Etiquetas :
          /\ Ir(h, e) /\ e \notin Ejecuta /\ e \notin {"espera_ts", "falla_ts"}
          /\ pc[h] # "mueve" /\ (pc[h] \in SinAlta <=> e \in SinAlta)
          /\ \A g \in Hilos : g # h => elegido'[g] = elegido[g]
    <2>1. CASE \E p \in Pid : \/ process_instrucciones(p) \/ accept_new_process_in_READY(p)
                              \/ wait_to_end_process(p) \/ InformarConsola(p)
      <3>1. PICK p \in Pid : \/ process_instrucciones(p) \/ accept_new_process_in_READY(p)
                             \/ wait_to_end_process(p) \/ InformarConsola(p)
        BY <2>1
      <3>2. PICK e \in {"acepta_ready", "agrega_si", "agrega_no", "informa", "fin"} :
              /\ Ir(p, e) /\ pc[p] # "mueve" /\ (pc[p] \in SinAlta <=> e \in SinAlta)
        BY <3>1 DEF process_instrucciones, accept_new_process_in_READY, wait_to_end_process,
               InformarConsola, En, SinAlta
      <3>3. UNCHANGED elegido /\ p \in Hilos
        BY <3>1 DEF process_instrucciones, accept_new_process_in_READY, wait_to_end_process,
               InformarConsola, Hilos
      <3> QED
        BY <3>2, <3>3 DEF Etiquetas, Ejecuta
    <2>2. CASE \E h \in Hilos : get_actual_multiprog(h)
      <3>1. PICK h \in Hilos : get_actual_multiprog(h)
        BY <2>2
      <3>2. PICK e \in {"acepta_exec", "acepta_block", "cuenta_exec", "cuenta_block"} :
              /\ Ir(h, e) /\ pc[h] # "mueve" /\ (pc[h] \in SinAlta <=> e \in SinAlta)
        BY <3>1 DEF get_actual_multiprog, Lectura, SinAlta
      <3>3. UNCHANGED elegido
        BY <3>1 DEF get_actual_multiprog
      <3> QED
        BY <3>2, <3>3 DEF Etiquetas, Ejecuta
    <2>3. CASE \E h \in Hilos : \/ LockNewToReady(h) \/ UnlockNewToReady(h)
                                \/ can_move_NEW_to_READY(h) \/ SigueAdmision(h)
      <3>1. PICK h \in Hilos : \/ LockNewToReady(h) \/ UnlockNewToReady(h)
                               \/ can_move_NEW_to_READY(h) \/ SigueAdmision(h)
        BY <2>3
      <3>2. PICK e \in {"mira_new", "despacha", "espera", "cuenta_ready"} :
              /\ Ir(h, e) /\ pc[h] # "mueve" /\ (pc[h] \in SinAlta <=> e \in SinAlta)
        BY <3>1 DEF LockNewToReady, UnlockNewToReady, can_move_NEW_to_READY, SigueAdmision, En, SinAlta
      <3>3. \A g \in Hilos : g # h => elegido'[g] = elegido[g]
        BY <3>1 DEF LockNewToReady, UnlockNewToReady, can_move_NEW_to_READY, SigueAdmision,
               Tipos, TypeOK, TypeHilos
      <3> QED
        BY <3>2, <3>3 DEF Etiquetas, Ejecuta
    <2> QED
      BY <2>1, <2>2, <2>3
  <1> QED
    BY <1>1, <1>2, HiloCiclo

-----------------------------------------------------------------------------
(* The core                                                                *)

\* The core takes a process from READY to EXEC.
LEMMA DespacharCiclo ==
    ASSUME Tipos, Ciclo, move_READY_to_EXEC
    PROVE  Ciclo'
  <1>1. /\ pc[core] = "despacha" /\ Ir(core, "cpu")
        /\ UNCHANGED <<bloqueados, tareas, saliendo, enMemoria, next_queue>>
    BY DEF move_READY_to_EXEC, En, recVars, fsVars, memVars, pcbVars
  <1>2. PICK p \in Candidatos : /\ cola' = move_pcb_from_to(p, "READY", "EXEC")
                                /\ elegido' = [elegido EXCEPT ![core] = p]
    BY DEF move_READY_to_EXEC
  <1>3. p \in Pid /\ Contains(cola["READY"], p)
    <2>1. cola["READY"] \in Seq(Pid) /\ cola["READY"] # <<>>
      BY ColasDistintas DEF move_READY_to_EXEC, Tipos, TypeOK, TypeColas
    <2>2. Head(cola["READY"]) = cola["READY"][1] /\ 1 \in 1..Len(cola["READY"])
      BY <2>1
    <2>3. \A q \in ToSet(cola["READY"]) : Contains(cola["READY"], q) /\ q \in Pid
      BY <2>1 DEF ToSet, Contains
    <2> QED
      BY <2>1, <2>2, <2>3, PrimeroYResto DEF Candidatos, Contains
  <1>4. Unico' /\ Movido(cola, cola', Colas, "EXEC", p)
    BY <1>2, <1>3, MoverCiclo, ColasDistintas DEF Tipos, TypeOK, Ciclo
  <1>5. \A q, c : q \in Pid /\ c \in Colas =>
            (Contains(cola'[c], q) <=> IF q = p THEN c = "EXEC" ELSE Contains(cola[c], q))
    BY <1>4 DEF Movido
  <1>6. \A c \in Colas : Contains(cola[c], p) => c = "READY"
    BY <1>3, UnaCola, ColasDistintas DEF Ciclo
  <1>7. /\ pc'[core] = "cpu" /\ elegido'[core] = p
        /\ \A g \in Hilos : g # core => pc'[g] = pc[g] /\ elegido'[g] = elegido[g]
        /\ core \in Hilos /\ Pid \subseteq Hilos /\ core \notin Pid
    BY <1>1, <1>2, KernelAssumption DEF Ir, Tipos, TypeOK, TypeHilos, Hilos
  <1>8. Alta'
    BY <1>3, <1>5, <1>7, ColasDistintas DEF Ciclo, Alta, Esta
  <1>9. Admitiendo'
    <2>1. \A h \in Hilos : pc'[h] \in {"espera_ts", "falla_ts"} =>
             pc[h] = pc'[h] /\ elegido[h] \in Pid /\ elegido'[h] = elegido[h]
      BY <1>7 DEF Tipos, Control, Elegidos
    <2> QED
      BY <1>1, <1>5, <1>6, <2>1, ColasDistintas DEF Ciclo, Admitiendo, Esta
  <1>10. Ejecutando'
    BY <1>3, <1>5, <1>7, ColasDistintas DEF Ejecutando, Esta, Actual
  <1>11. Despertadores'
    <2>1. \A q \in Pid : Despertable(q) => Despertable(q)'
      BY <1>1, <1>5, <1>6, ColasDistintas DEF Despertable, EnTransito, Actual, Esta
    <2>2. \A q \in Pid : (EnEspera(q)' <=> EnEspera(q)) /\ (Trabaja(q)' <=> Trabaja(q))
      BY <1>1 DEF EnEspera, Trabaja
    <2> QED
      BY <1>1, <2>1, <2>2 DEF Ciclo, Despertadores
  <1>12. EnSalida'
    BY <1>1, <1>5, <1>6, ColasDistintas DEF Ciclo, EnSalida, Esta
  <1>13. ConTabla'
    BY <1>1, <1>3, <1>5, ColasDistintas DEF Ciclo, ConTabla, Esta
  <1> QED
    BY <1>4, <1>8, <1>9, <1>10, <1>11, <1>12, <1>13 DEF Ciclo

\* The core moves what it evicted.
LEMMA MoverDesalojadoCiclo ==
    ASSUME Tipos, Ciclo, MoverDesalojado
    PROVE  Ciclo'
  <1> DEFINE p == elegido[core]
             a == next_queue[p]
  <1>1. /\ pc[core] = "mueve" /\ p \in Pid /\ Contains(cola["EXEC"], p) /\ p \in enMemoria
    BY DEF MoverDesalojado, En, Tipos, Control, Elegidos, Ejecuta, Ciclo, Ejecutando, Corre,
           ConTabla, Esta, Actual
  <1>2. /\ cola' = move_pcb_from_to(p, "EXEC", a)
        /\ UNCHANGED <<bloqueados, tareas, enMemoria, next_queue>>
        /\ \/ a = "EXIT" /\ saliendo' = [saliendo EXCEPT ![p] = "avisar"] /\ Ir(core, "exit_exec")
           \/ a # "EXIT" /\ UNCHANGED saliendo /\ Ir(core, "lock_nr")
        /\ \A h \in Hilos : h # core => elegido'[h] = elegido[h]
    BY DEF MoverDesalojado, recVars, fsVars, memVars, pcbVars, Actual, Tipos, TypeOK, TypeHilos
  <1>3. a \in {"READY", "BLOCK", "EXIT"} /\ a \in Colas /\ a # "EXEC"
    BY <1>1, ColasDistintas DEF Tipos, TypeOK, TypePcb
  <1> HIDE DEF a
  <1>4. Unico' /\ Movido(cola, cola', Colas, a, p)
    BY <1>1, <1>2, <1>3, MoverCiclo, ColasDistintas DEF Tipos, TypeOK, Ciclo
  <1>5. \A q, c : q \in Pid /\ c \in Colas =>
            (Contains(cola'[c], q) <=> IF q = p THEN c = a ELSE Contains(cola[c], q))
    BY <1>4 DEF Movido
  <1>6. \A c \in Colas : Contains(cola[c], p) => c = "EXEC"
    BY <1>1, UnaCola, ColasDistintas DEF Ciclo
  <1>7. /\ pc'[core] \in {"exit_exec", "lock_nr"}
        /\ \A g \in Hilos : g # core => pc'[g] = pc[g]
        /\ core \in Hilos /\ Pid \subseteq Hilos /\ core \notin Pid
        /\ \A q \in Pid : q # p => saliendo'[q] = saliendo[q]
        /\ saliendo'[p] = IF a = "EXIT" THEN "avisar" ELSE saliendo[p]
    BY <1>1, <1>2, KernelAssumption DEF Ir, Tipos, TypeOK, TypeHilos, Hilos
  <1>8. Alta'
    BY <1>1, <1>3, <1>5, <1>7, ColasDistintas DEF Ciclo, Alta, Esta
  <1>9. Admitiendo'
    <2>1. \A h \in Hilos : pc'[h] \in {"espera_ts", "falla_ts"} =>
             /\ pc[h] = pc'[h] /\ elegido[h] \in Pid /\ elegido'[h] = elegido[h]
             /\ elegido[h] # p
      BY <1>2, <1>6, <1>7, ColasDistintas DEF Tipos, Control, Elegidos, Ciclo, Admitiendo, Esta
    <2> QED
      BY <1>2, <1>5, <1>7, <2>1, ColasDistintas DEF Ciclo, Admitiendo, Esta
  <1>10. Ejecutando'
    BY <1>7 DEF Ejecutando, Corre, Ejecuta
  <1>11. Despertadores'
    <2>1. ASSUME NEW q \in Pid, EnEspera(q) \/ Trabaja(q) PROVE Despertable(q)'
      <3>1. Contains(cola["BLOCK"], q) \/ (q = p /\ a = "BLOCK")
        BY <2>1 DEF Ciclo, Despertadores, Despertable, EnTransito, Actual, Esta, a
      <3> QED
        BY <1>3, <1>5, <1>6, <3>1, ColasDistintas DEF Despertable, Esta
    <2>2. \A q \in Pid : (EnEspera(q)' <=> EnEspera(q)) /\ (Trabaja(q)' <=> Trabaja(q))
      BY <1>2 DEF EnEspera, Trabaja
    <2> QED
      BY <1>2, <2>1, <2>2 DEF Ciclo, Despertadores
  <1>12. EnSalida'
    <2>1. saliendo[p] = "no"
      BY <1>1, <1>6, ColasDistintas DEF Ciclo, EnSalida, Esta
    <2>2. ASSUME NEW q \in Pid, saliendo'[q] # "no" PROVE Contains(cola'["EXIT"], q)
      BY <1>5, <1>7, <2>1, <2>2, ColasDistintas DEF Ciclo, EnSalida, Esta
    <2> QED
      BY <2>2 DEF EnSalida, Esta
  <1>13. ConTabla'
    <2>1. \A q \in Pid : saliendo'[q] = "avisar" => q = p \/ saliendo[q] = "avisar"
      BY <1>7
    <2> QED
      BY <1>1, <1>2, <1>5, <2>1, ColasDistintas DEF Ciclo, ConTabla, Esta
  <1> QED
    BY <1>4, <1>8, <1>9, <1>10, <1>11, <1>12, <1>13 DEF Ciclo

\* What closing a file does to the queues: nothing, or it wakes the first who waits.
LEMMA LiberarEfecto ==
    ASSUME Tipos, Cuentas, NEW f \in Archivos, LiberarArchivo(f)
    PROVE  UNCHANGED <<cola, bloqueados>> \/ Despierta(f)
  <1>1. f \in TRecurso /\ instancias[f] \in Int /\ bloqueados[f] \in Seq(Pid)
    BY DEF Tipos, TypeOK, TypeRec, TRecurso
  <1>2. CASE instancias[f] + 1 > 0
    <2>1. Len(bloqueados[f]) = 0
      BY <1>1, <1>2 DEF Cuentas, ColaCuadra
    <2>2. bloqueados[f] = <<>>
      BY <1>1, <2>1
    <2>3. bloqueados' = [bloqueados EXCEPT ![f] = <<>>] /\ UNCHANGED cola
      BY <1>2 DEF LiberarArchivo
    <2> QED
      BY <1>1, <2>2, <2>3 DEF Tipos, TypeOK, TypeRec
  <1>3. CASE ~(instancias[f] + 1 > 0)
    <2>1. DespertarPrimero(f) /\ instancias[f] + 1 <= 0
      BY <1>1, <1>3 DEF LiberarArchivo
    <2>2. bloqueados[f] # <<>>
      BY <1>1, <2>1, HayQuienDespertar DEF Tipos, TypeOK, Cuentas
    <2> QED
      BY <2>1, <2>2 DEF DespertarPrimero, Despierta
  <1> QED
    BY <1>2, <1>3

\* A step of the core or of EXIT that at most wakes the first of list r.
LEMMA TalVezDespierta ==
    ASSUME Tipos, Ciclo, NEW r \in TRecurso,
           UNCHANGED <<cola, bloqueados>> \/ Despierta(r),
           bloqueados[r] # <<>> => ~EnTransito(Head(bloqueados[r])), CoreQuieto,
           UNCHANGED <<tareas, saliendo, enMemoria, elegido, next_queue>>
    PROVE  Ciclo'
  <1>1. CASE Despierta(r)
    BY <1>1, DespiertaCiclo DEF Despierta
  <1>2. CASE UNCHANGED <<cola, bloqueados>>
    <2>1. CASE pc[core] \in Corre \ {"mueve"} /\ Ir(core, "cpu")
      <3>1. "cpu" \in Corre
        BY DEF Corre, Ejecuta
      <3> QED
        BY <1>2, <2>1, <3>1, CoreCiclo
    <2>2. CASE pc' = pc
      BY <1>2, <2>2 DEF Ciclo, Unico, Alta, Admitiendo, Ejecutando, Despertadores, EnSalida, ConTabla,
            Esta, EnEspera, Trabaja, Despertable, EnTransito, Actual
    <2> QED
      BY <2>1, <2>2 DEF CoreQuieto
  <1> QED
    BY <1>1, <1>2

\* SIGNAL and F_CLOSE wake at most the first of one list.
LEMMA DevolverEfecto ==
    ASSUME Tipos, Cuentas,
           \/ \E r \in Recursos : execute_signal(r)
           \/ \E f \in Archivos : execute_fclose(f)
    PROVE  \E r \in TRecurso : UNCHANGED <<cola, bloqueados>> \/ Despierta(r)
  <1>1. CASE \E r \in Recursos : execute_signal(r)
    <2>1. PICK r \in Recursos : execute_signal(r)
      BY <1>1
    <2>2. r \in TRecurso
      BY DEF TRecurso
    <2>3. CASE instancias[r] + 1 <= 0
      <3>1. DespertarPrimero(r)
        BY <2>1, <2>3 DEF execute_signal
      <3>2. bloqueados[r] # <<>>
        BY <2>2, <2>3, <3>1, HayQuienDespertar DEF Tipos, TypeOK, Cuentas
      <3> QED
        BY <2>2, <3>1, <3>2 DEF DespertarPrimero, Despierta
    <2>4. CASE ~(instancias[r] + 1 <= 0)
      BY <2>1, <2>2, <2>4 DEF execute_signal
    <2> QED
      BY <2>3, <2>4
  <1>2. CASE \E f \in Archivos : execute_fclose(f)
    BY <1>2, LiberarEfecto DEF execute_fclose, TRecurso
  <1> QED
    BY <1>1, <1>2

\* SIGNAL and F_CLOSE.
LEMMA DevolverCiclo ==
    ASSUME Tipos, Cuentas, Ciclo,
           \/ \E r \in Recursos : execute_signal(r)
           \/ \E f \in Archivos : execute_fclose(f)
    PROVE  Ciclo'
  <1>1. /\ pc[core] = "cpu" /\ Ir(core, "cpu")
        /\ UNCHANGED <<tareas, saliendo, enMemoria, elegido, next_queue>>
    BY DEF execute_signal, execute_fclose, Desalojo, En, Reanuda, fsVars, memVars, quietos
  <1>2. CoreQuieto
    BY <1>1 DEF CoreQuieto, Corre, Ejecuta
  <1>3. PICK r \in TRecurso : UNCHANGED <<cola, bloqueados>> \/ Despierta(r)
    BY DevolverEfecto
  <1>4. \A p : ~EnTransito(p)
    BY <1>1 DEF EnTransito
  <1> QED
    BY <1>1, <1>2, <1>3, <1>4, TalVezDespierta

\* WAIT, F_OPEN and the handlers that start a thread.
LEMMA EsperarCiclo ==
    ASSUME Tipos, Ciclo,
           \/ \E r \in Recursos : execute_wait(r)
           \/ \E f \in Archivos : FopenEnUso(f) \/ \E i \in {"F_TRUNCATE", "F_RW"} : ProcesarArchivo(i, f)
           \/ execute_io
    PROVE  Ciclo'
  <1>1. /\ pc[core] \in Corre \ {"mueve"} /\ Actual \in Pid /\ "cpu" \in Corre /\ "mueve" \in Corre
        /\ UNCHANGED <<cola, saliendo, enMemoria, elegido>>
    BY DesalojoTipo DEF execute_wait, FopenEnUso, ProcesarArchivo, execute_io, Desalojo, En, Corre,
           Ejecuta, memVars, quietos
  <1>2. CASE \E r \in Recursos : execute_wait(r) /\ instancias[r] - 1 >= 0
    <2>1. Ir(core, "cpu") /\ UNCHANGED <<bloqueados, tareas>>
      BY <1>2 DEF execute_wait, Reanuda, fsVars
    <2> QED
      BY <1>1, <2>1, CoreCiclo
  <1>3. CASE \/ \E r \in Recursos : execute_wait(r) /\ ~(instancias[r] - 1 >= 0)
             \/ \E f \in Archivos : FopenEnUso(f)
    <2>1. /\ Ir(core, "mueve") /\ Siguiente("BLOCK") /\ UNCHANGED tareas
          /\ \E r \in TRecurso : bloqueados' = [bloqueados EXCEPT ![r] = Append(@, Actual)]
      BY <1>3 DEF execute_wait, FopenEnUso, Sale, fsVars, TRecurso
    <2>2. next_queue'[Actual] = "BLOCK"
      BY <1>1, <2>1 DEF Siguiente, Tipos, TypeOK, TypePcb
    <2> QED
      BY <1>1, <2>1, <2>2, BloquearCiclo
  <1>4. CASE \/ \E f \in Archivos : \E i \in {"F_TRUNCATE", "F_RW"} : ProcesarArchivo(i, f)
             \/ execute_io
    <2>1. /\ Ir(core, "mueve") /\ Siguiente("BLOCK") /\ UNCHANGED bloqueados
          /\ \E t : t.pid = Actual /\ t.paso = "corre" /\ tareas' = tareas \cup {t}
      BY <1>4 DEF ProcesarArchivo, execute_io, Sale, recVars, DeIO, Archivo
    <2>2. next_queue'[Actual] = "BLOCK"
      BY <1>1, <2>1 DEF Siguiente, Tipos, TypeOK, TypePcb
    <2> QED
      BY <1>1, <2>1, <2>2, BloquearCiclo
  <1> QED
    BY <1>2, <1>3, <1>4

\* F_OPEN of a file that nobody has finds nobody in its list.
LEMMA AbrirEfecto ==
    ASSUME Tipos, Cuentas, NEW f \in Archivos, execute_fopen(f)
    PROVE  UNCHANGED bloqueados
  <1>1. bloqueados' = [bloqueados EXCEPT ![f] = <<>>] /\ f \notin abiertos
    BY DEF execute_fopen, buscar_archivo
  <1>2. f \in TRecurso /\ bloqueados[f] \in Seq(Pid)
    BY DEF TRecurso, Tipos, TypeOK, TypeRec
  <1>3. Len(bloqueados[f]) = 0
    BY <1>1, <1>2 DEF Cuentas, ColaCuadra, AbiertoTomado
  <1>4. bloqueados[f] = <<>>
    BY <1>2, <1>3
  <1> QED
    BY <1>1, <1>2, <1>4 DEF Tipos, TypeOK, TypeRec

\* The handlers that neither wake nor block, the answers of memoria and the compaction.
LEMMA SeguirCiclo ==
    ASSUME Tipos, Cuentas, Ciclo,
           \/ RecursoInvalido \/ execute_yield \/ execute_exit
           \/ \E f \in Archivos : execute_fopen(f) \/ FopenFallido(f) \/ execute_fseek(f)
           \/ execute_create_segment \/ execute_delete_segment
           \/ ReintentarSegmento \/ RecibirSegmento \/ compactar \/ FinCompactar \/ RecibirTabla
    PROVE  Ciclo'
  <1>1. pc[core] \in Corre \ {"mueve"}
    BY DEF RecursoInvalido, execute_yield, execute_exit, execute_fopen, FopenFallido, execute_fseek,
           execute_create_segment, execute_delete_segment, ReintentarSegmento, RecibirSegmento,
           compactar, FinCompactar, RecibirTabla, Desalojo, En, Corre, Ejecuta
  <1>2. PICK e \in Corre : Ir(core, e)
    BY DEF RecursoInvalido, execute_yield, execute_exit, execute_fopen, FopenFallido, execute_fseek,
           execute_create_segment, execute_delete_segment, ReintentarSegmento, RecibirSegmento,
           compactar, FinCompactar, RecibirTabla, Termina, Sale, Reanuda, Corre, Ejecuta
  <1>3. UNCHANGED <<cola, tareas, saliendo, enMemoria, elegido>>
    BY DEF RecursoInvalido, execute_yield, execute_exit, execute_fopen, FopenFallido, execute_fseek,
           execute_create_segment, execute_delete_segment, ReintentarSegmento, RecibirSegmento,
           compactar, FinCompactar, RecibirTabla, fsVars, memVars, quietos
  <1>4. UNCHANGED bloqueados
    BY AbrirEfecto DEF RecursoInvalido, execute_yield, execute_exit, FopenFallido, execute_fseek,
           execute_create_segment, execute_delete_segment, ReintentarSegmento, RecibirSegmento,
           compactar, FinCompactar, RecibirTabla, recVars
  <1> QED
    BY <1>1, <1>2, <1>3, <1>4, CoreCiclo

-----------------------------------------------------------------------------
(* EXIT                                                                    *)

\* PROCESS_END, and the end of each loop of EXIT.
LEMMA SalirCiclo ==
    ASSUME Tipos, Ciclo, NEW p \in Pid, ExitAvisar(p) \/ ExitArchivosFin(p) \/ ExitFin(p)
    PROVE  Ciclo'
  <1>1. /\ saliendo[p] # "no" /\ Contains(cola["EXIT"], p)
        /\ UNCHANGED <<cola, pc, elegido, bloqueados, tareas, next_queue>>
    BY DEF ExitAvisar, ExitArchivosFin, ExitFin, EnExit, Ciclo, EnSalida, Esta,
           recVars, hilosVars, fsVars, pcbVars
  <1>2. PICK s \in {"archivos", "recursos", "no"} : saliendo' = [saliendo EXCEPT ![p] = s]
    BY DEF ExitAvisar, ExitArchivosFin, ExitFin
  <1>3. enMemoria' = enMemoria \/ enMemoria' = enMemoria \ {p}
    BY DEF ExitAvisar, ExitArchivosFin, ExitFin, memVars
  <1>4. \A c \in Colas : Contains(cola[c], p) => c = "EXIT"
    BY <1>1, UnaCola, ColasDistintas DEF Ciclo
  <1>5. \A q \in Pid : q # p => saliendo'[q] = saliendo[q]
    BY <1>2 DEF Tipos, TypeOK
  <1>6. saliendo'[p] # "avisar"
    BY <1>2 DEF Tipos, TypeOK
  <1>7. Unico' /\ Alta' /\ Ejecutando' /\ Despertadores'
    BY <1>1 DEF Ciclo, Unico, Alta, Ejecutando, Despertadores, Esta, EnEspera, Trabaja,
           Despertable, EnTransito, Actual
  <1>8. Admitiendo'
    <2>1. \A h \in Hilos : pc[h] \in {"espera_ts", "falla_ts"} => elegido[h] # p /\ elegido[h] \in Pid
      BY <1>1, <1>4, ColasDistintas DEF Ciclo, Admitiendo, Esta, Tipos, Control, Elegidos
    <2> QED
      BY <1>1, <1>3, <1>5, <2>1 DEF Ciclo, Admitiendo, Esta
  <1>9. EnSalida'
    BY <1>1, <1>5 DEF Ciclo, EnSalida, Esta
  <1>10. ConTabla'
    BY <1>1, <1>3, <1>4, <1>5, <1>6, ColasDistintas DEF Ciclo, ConTabla, Esta
  <1> QED
    BY <1>7, <1>8, <1>9, <1>10 DEF Ciclo

\* One step of a loop of EXIT wakes at most the first of one list; its own process is in none.
LEMMA SoltarEfecto ==
    ASSUME Tipos, Cuentas, Ciclo, NEW p \in Pid, ExitArchivo(p) \/ ExitRecurso(p)
    PROVE  \E r \in TRecurso : UNCHANGED <<cola, bloqueados>> \/ Despierta(r)
  <1>1. CASE ExitArchivo(p)
    <2>1. Head(open_files[p]) \in Archivos
      BY <1>1, PrimeroYResto DEF ExitArchivo, Tipos, TypeOK, TypePcb
    <2> QED
      BY <1>1, <2>1, LiberarEfecto DEF ExitArchivo, TRecurso
  <1>2. CASE ExitRecurso(p)
    <2> DEFINE r == Head(shared[p])
    <2>1. r \in Recursos /\ r \in TRecurso
      BY <1>2, PrimeroYResto DEF ExitRecurso, Tipos, TypeOK, TypePcb, TRecurso
    <2>3. ~Contains(bloqueados[r], p)
      <3>1. Contains(cola["EXIT"], p)
        BY <1>2 DEF ExitRecurso, EnExit, Ciclo, EnSalida, Esta
      <3>2. ~Contains(cola["BLOCK"], p) /\ ~Contains(cola["EXEC"], p)
        BY <3>1, UnaCola, ColasDistintas DEF Ciclo
      <3>3. ~Despertable(p)
        BY <3>2 DEF Despertable, EnTransito, Ciclo, Ejecutando, Esta, Corre, Ejecuta
      <3>4. ~EnEspera(p)
        BY <3>3 DEF Ciclo, Despertadores
      <3> HIDE DEF r
      <3> QED
        BY <2>1, <3>4 DEF EnEspera
    <2>4. CASE instancias[r] + 1 <= 0
      <3>1. DespertarPrimero(r)
        BY <1>2, <2>3, <2>4 DEF ExitRecurso
      <3> HIDE DEF r
      <3>2. bloqueados[r] # <<>>
        BY <2>1, <2>4, <3>1, HayQuienDespertar DEF Tipos, TypeOK, Cuentas
      <3> QED
        BY <2>1, <3>1, <3>2 DEF DespertarPrimero, Despierta
    <2>5. CASE ~(instancias[r] + 1 <= 0)
      BY <1>2, <2>1, <2>3, <2>5 DEF ExitRecurso
    <2> QED
      BY <2>4, <2>5
  <1> QED
    BY <1>1, <1>2

\* While EXIT gives something back, the core is nowhere else.
LEMMA SoltarEnCore ==
    ASSUME Ajenos, NEW p \in Pid, ExitArchivo(p) \/ ExitRecurso(p)
    PROVE  pc[core] = "exit_exec" /\ \A q : ~EnTransito(q)
  BY DEF Ajenos, SinNada, ExitArchivo, ExitRecurso, EnExit, EnTransito

\* One file or one resource of a process that is in EXIT.
LEMMA SoltarCiclo ==
    ASSUME Tipos, Cuentas, Ciclo, Ajenos, NEW p \in Pid, ExitArchivo(p) \/ ExitRecurso(p)
    PROVE  Ciclo'
  <1>1. UNCHANGED <<pc, elegido, tareas, saliendo, enMemoria, next_queue>>
    BY DEF ExitArchivo, ExitRecurso, hilosVars, fsVars, memVars
  <1>2. PICK r \in TRecurso : UNCHANGED <<cola, bloqueados>> \/ Despierta(r)
    BY SoltarEfecto
  <1>3. bloqueados[r] # <<>> => ~EnTransito(Head(bloqueados[r]))
    BY SoltarEnCore
  <1> QED
    BY <1>1, <1>2, <1>3, TalVezDespierta DEF CoreQuieto

-----------------------------------------------------------------------------
(* The threads io and file_processing                                      *)

\* A thread that works for p, with p where the thread can move it.
LEMMA QuienTrabaja ==
    ASSUME SinCarreras, Tipos, Ciclo, NEW t \in tareas
    PROVE  /\ t.pid \in Pid /\ ~EnEspera(t.pid)
           /\ Alcanzable(t.pid) => Contains(cola["BLOCK"], t.pid)
           /\ \A u \in tareas : u.pid = t.pid => u = t
  <1>1. t.pid \in Pid
    BY DEF Tipos, TypeOK, TypeFs, Tareas
  <1>2. Trabaja(t.pid)
    BY DEF Trabaja
  <1>3. Despertable(t.pid) /\ ~EnEspera(t.pid)
    BY <1>1, <1>2 DEF Ciclo, Despertadores
  <1>4. Alcanzable(t.pid) => Contains(cola["BLOCK"], t.pid)
    BY <1>3 DEF Alcanzable, SinCarreras, Despertable, Esta
  <1>5. \A u \in tareas : u.pid = t.pid => u = t
    BY DEF Ciclo, Despertadores
  <1> QED
    BY <1>1, <1>3, <1>4, <1>5

\* The thread ends its work: its process leaves BLOCK, and the thread is gone.
LEMMA FinTareaCiclo ==
    ASSUME SinCarreras, Tipos, Ciclo, NEW p \in Pid, io(p) \/ ArchivoListo(p)
    PROVE  Ciclo'
  <1>1. PICK t \in tareas : t.pid = p /\ Alcanzable(p) /\ tareas' = tareas \ {t}
    BY DEF io, ArchivoListo, EnTarea, DeIO, Archivo
  <1>2. cola' = move_pcb_from_to(p, "BLOCK", "READY")
    BY DEF io, ArchivoListo
  <1>3. UNCHANGED <<pc, bloqueados, saliendo, enMemoria, elegido, next_queue>>
    BY DEF io, ArchivoListo, recVars, hilosVars, memVars, pcbVars
  <1>4. /\ ~EnEspera(p) /\ Contains(cola["BLOCK"], p)
        /\ \A u \in tareas : u.pid = p => u = t
    BY <1>1, QuienTrabaja
  <1>5. Repartida(bloqueados', TRecurso)
    BY <1>3 DEF Ciclo, Despertadores
  <1>6. \A q \in Pid : EnEspera(q)' <=> EnEspera(q)
    BY <1>3 DEF EnEspera
  <1>7. ~Trabaja(p)' /\ \A q \in Pid : q # p => (Trabaja(q)' <=> Trabaja(q))
    BY <1>1, <1>4 DEF Trabaja
  <1>8. \A x, y \in tareas' : x.pid = y.pid => x = y
    BY <1>1 DEF Ciclo, Despertadores
  <1> QED
    BY <1>2, <1>3, <1>4, <1>5, <1>6, <1>7, <1>8, DesbloquearCiclo DEF CoreQuieto

\* The other steps of a thread move no process.
LEMMA TareaCiclo ==
    ASSUME SinCarreras, Tipos, Ciclo, NEW p \in Pid,
           MirarCompactacion(p) \/ AbandonarArchivo(p) \/ EnviarFS(p) \/ RecibirFS(p)
    PROVE  Ciclo'
  <1>1. UNCHANGED <<cola, pc, elegido, bloqueados, saliendo, enMemoria, next_queue>>
    BY DEF MirarCompactacion, AbandonarArchivo, EnviarFS, RecibirFS, recVars, hilosVars, memVars, pcbVars
  <1>2. Unico' /\ Alta' /\ Admitiendo' /\ Ejecutando' /\ ConTabla' /\ EnSalida'
    BY <1>1 DEF Ciclo, Unico, Alta, Admitiendo, Ejecutando, ConTabla, EnSalida, Esta, Actual
  <1>3. /\ \A x, y \in tareas' : x.pid = y.pid => x = y
        /\ \A q \in Pid : Trabaja(q)' => Trabaja(q)
    <2>1. CASE MirarCompactacion(p) \/ EnviarFS(p) \/ RecibirFS(p)
      <3>1. PICK t, u : /\ t \in tareas /\ t.pid = p /\ u.pid = p
                        /\ tareas' = (tareas \ {t}) \cup {u}
        BY <2>1 DEF MirarCompactacion, EnviarFS, RecibirFS, EnTarea, Pasa, Archivo
      <3>2. \A x \in tareas : x.pid = p => x = t
        BY <3>1, QuienTrabaja
      <3>3. \A x, y \in tareas : x.pid = y.pid => x = y
        BY DEF Ciclo, Despertadores
      <3> QED
        BY <3>1, <3>2, <3>3 DEF Trabaja
    <2>2. CASE AbandonarArchivo(p)
      <3>1. tareas' \subseteq tareas
        BY <2>2 DEF AbandonarArchivo
      <3> QED
        BY <3>1 DEF Trabaja, Ciclo, Despertadores
    <2> QED
      BY <2>1, <2>2
  <1>4. Despertadores'
    <2>1. \A q \in Pid : (EnEspera(q)' <=> EnEspera(q)) /\ (Despertable(q)' <=> Despertable(q))
      BY <1>1 DEF EnEspera, Despertable, EnTransito, Actual, Esta
    <2> QED
      BY <1>1, <1>3, <2>1 DEF Ciclo, Despertadores
  <1> QED
    BY <1>2, <1>4 DEF Ciclo

-----------------------------------------------------------------------------
(* Every step                                                              *)

\* Steps that touch nothing of a process.
LEMMA OtrosCiclo ==
    ASSUME Tipos, Ciclo, Apagar \/ UNCHANGED vars
    PROVE  Ciclo'
  <1>1. UNCHANGED <<cola, pc, elegido, bloqueados, tareas, saliendo, enMemoria, next_queue>>
    BY DEF Apagar, vars, recVars, hilosVars, fsVars, memVars, pcbVars
  <1> QED
    BY <1>1 DEF Ciclo, Unico, Alta, Admitiendo, Ejecutando, Despertadores, EnSalida, ConTabla,
         Esta, EnEspera, Trabaja, Despertable, EnTransito, Actual

\* The core looks for work again: nothing to dispatch, or EXIT has returned.
LEMMA NucleoQuietoCiclo ==
    ASSUME Tipos, Ciclo, NadaQueDespachar \/ FinExec
    PROVE  Ciclo'
  <1>1. /\ Ir(core, "lock_nr") /\ pc[core] # "mueve" /\ core \in Hilos /\ pc[core] \notin SinAlta
        /\ UNCHANGED <<cola, bloqueados, tareas, saliendo, enMemoria, next_queue>>
    BY DEF NadaQueDespachar, FinExec, En, Ciclo, Ejecutando, Hilos, SinAlta,
           recVars, fsVars, memVars, pcbVars
  <1>2. \A g \in Hilos : g # core => elegido'[g] = elegido[g]
    BY DEF NadaQueDespachar, FinExec, Tipos, TypeOK, TypeHilos
  <1>3. "lock_nr" \in Etiquetas /\ "lock_nr" \notin Ejecuta /\ "lock_nr" \notin SinAlta
    BY DEF Etiquetas, Ejecuta, SinAlta
  <1> QED
    BY <1>1, <1>2, <1>3, HiloCiclo

\* Every step keeps the life cycle.
LEMMA NextCiclo ==
    ASSUME SinCarreras, Tipos, Cuentas, Ciclo, Ajenos, [Next]_vars
    PROVE  Ciclo'
  <1>1. ASSUME NEW p \in Pid, process_instrucciones(p) \/ Cliente(p) PROVE Ciclo'
    BY <1>1, ClienteCiclo, AgregarCiclo DEF Cliente
  <1>2. ASSUME NEW h \in Hilos, Admision(h) PROVE Ciclo'
    BY <1>2, ClienteCiclo, PedirTablaCiclo, AdmitirCiclo, FallidaCiclo DEF Admision
  <1>3. CASE Manejador
    <2>1. ~RespuestaNula
      BY DEF RespuestaNula, SinCarreras
    <2> QED
      BY <1>3, <2>1, DevolverCiclo, EsperarCiclo, SeguirCiclo DEF Manejador
  <1>4. CASE NucleoInterno
    BY <1>4, DespacharCiclo, MoverDesalojadoCiclo, NucleoQuietoCiclo, SeguirCiclo DEF NucleoInterno
  <1>5. ASSUME NEW p \in Pid, Exit(p) PROVE Ciclo'
    BY <1>5, SalirCiclo, SoltarCiclo DEF Exit
  <1>6. ASSUME NEW p \in Pid, Tarea(p) PROVE Ciclo'
    BY <1>6, FinTareaCiclo, TareaCiclo DEF Tarea
  <1>7. CASE Apagar \/ UNCHANGED vars
    BY <1>7, OtrosCiclo
  <1> QED
    BY <1>1, <1>2, <1>3, <1>4, <1>5, <1>6, <1>7 DEF Next

\* At the start no process is anywhere.
LEMMA InitCiclo == Init => Ciclo
  <1> SUFFICES ASSUME Init PROVE Ciclo
    OBVIOUS
  <1>1. /\ \A c \in Colas : \A p : ~Contains(cola[c], p)
        /\ \A c \in Colas : Len(cola[c]) = 0
    BY DEF Init, InitColas, Contains
  <1>2. /\ \A r \in TRecurso : \A p : ~Contains(bloqueados[r], p)
        /\ \A r \in TRecurso : Len(bloqueados[r]) = 0
    BY DEF Init, InitRecursos, Contains
  <1>3. /\ \A p \in Pid : pc[p] = "inactivo" /\ saliendo[p] = "no"
        /\ pc[core] = "lock_nr" /\ tareas = {} /\ Hilos = Pid \cup {core}
    BY KernelAssumption DEF Init, InitHilos, InitPcbs, Hilos
  <1>4. Unico /\ Alta
    BY <1>1, <1>3 DEF Unico, Repartida, Alta, Esta, SinAlta
  <1>5. Admitiendo /\ Ejecutando
    BY <1>3 DEF Admitiendo, Ejecutando, Corre, Ejecuta
  <1>6. Despertadores
    BY <1>2, <1>3 DEF Despertadores, Repartida, EnEspera, Trabaja
  <1>7. EnSalida /\ ConTabla
    BY <1>1, <1>3, ColasDistintas DEF EnSalida, ConTabla, Esta
  <1> QED
    BY <1>4, <1>5, <1>6, <1>7 DEF Ciclo

-----------------------------------------------------------------------------
(* Who has something to give back in EXIT                                  *)

\* A step in which only the process that runs gets anything, nobody new is about to be
\* admitted, and EXIT starts only for a process that could not be admitted or that ran.
Discreto ==
    /\ \A p \in Pid : pc'[p] \in SinAlta \/ Contains(cola'["NEW"], p) => pc[p] \in SinAlta \/ Esta(p, "NEW")
    /\ \A p \in Pid : SinNada(p) => SinNada(p)' \/ (pc[core] \in Corre /\ Actual = p)
    /\ \A h \in Hilos : pc'[h] = "falla_ts" => pc[h] \in {"espera_ts", "falla_ts"} /\ elegido'[h] = elegido[h]
    /\ \A p \in Pid : saliendo'[p] # "no" =>
          \/ saliendo[p] # "no"
          \/ \E h \in Hilos : pc[h] = "falla_ts" /\ elegido[h] = p
          \/ pc'[core] = "exit_exec" /\ elegido'[core] = p
    /\ pc[core] = "exit_exec" /\ saliendo'[Actual] # "no" =>
          pc'[core] = "exit_exec" /\ elegido'[core] = elegido[core]

\* The process that runs is not in NEW, nor on its way there, nor in EXIT.
LEMMA ActualAparte ==
    ASSUME Tipos, Ciclo, pc[core] \in Corre
    PROVE  /\ Actual \in Pid /\ pc[Actual] \notin SinAlta /\ ~Esta(Actual, "NEW")
           /\ saliendo[Actual] = "no"
           /\ \A h \in Hilos : pc[h] \in {"espera_ts", "falla_ts"} => elegido[h] # Actual
  <1>1. Actual \in Pid /\ Esta(Actual, "EXEC")
    BY DEF Tipos, Control, Elegidos, Actual, Ciclo, Ejecutando, Corre
  <1>2. ~Esta(Actual, "NEW") /\ ~Esta(Actual, "EXIT")
    BY <1>1, UnaCola, ColasDistintas DEF Ciclo, Esta
  <1> QED
    BY <1>1, <1>2, ColasDistintas DEF Ciclo, Alta, EnSalida, Admitiendo

\* Such a step keeps the invariant.
LEMMA AjenosConserva ==
    ASSUME Tipos, Ciclo, Ajenos, Discreto
    PROVE  Ajenos'
  <1>1. ASSUME NEW p \in Pid, pc'[p] \in SinAlta \/ Contains(cola'["NEW"], p) PROVE SinNada(p)'
    BY <1>1, ActualAparte DEF Discreto, Ajenos
  <1>2. ASSUME NEW h \in Hilos, pc[h] \in {"espera_ts", "falla_ts"}
        PROVE  /\ elegido[h] \in Pid /\ SinNada(elegido[h])
               /\ ~(pc[core] \in Corre /\ Actual = elegido[h])
    BY <1>2, ActualAparte DEF Ajenos, Ciclo, Admitiendo, Tipos, Control, Elegidos
  <1>3. ASSUME NEW h \in Hilos, pc'[h] = "falla_ts"
        PROVE  open_files'[elegido'[h]] = <<>> /\ shared'[elegido'[h]] = <<>>
    BY <1>2, <1>3 DEF Discreto, SinNada
  <1>4. ASSUME NEW p \in Pid, saliendo'[p] # "no"
        PROVE  SinNada(p)' \/ (pc'[core] = "exit_exec" /\ elegido'[core] = p)
    <2>1. CASE saliendo[p] # "no"
      <3>1. SinNada(p) \/ (pc[core] = "exit_exec" /\ Actual = p)
        BY <2>1 DEF Ajenos
      <3>2. ~(pc[core] \in Corre /\ Actual = p)
        BY <2>1, ActualAparte
      <3> QED
        BY <1>4, <3>1, <3>2 DEF Discreto, Actual
    <2>2. CASE \E h \in Hilos : pc[h] = "falla_ts" /\ elegido[h] = p
      BY <1>2, <2>2 DEF Discreto
    <2> QED
      BY <1>4, <2>1, <2>2 DEF Discreto
  <1> QED
    BY <1>1, <1>3, <1>4 DEF Ajenos, SinNada, Actual, Esta

\* The clients and the threads that admit.
LEMMA ClienteDiscreto ==
    ASSUME Tipos, Ciclo,
           \/ \E p \in Pid : process_instrucciones(p) \/ Cliente(p)
           \/ \E h \in Hilos : Admision(h)
    PROVE  Discreto
  <1>1. UNCHANGED <<open_files, shared>>
    BY DEF process_instrucciones, Cliente, accept_new_process_in_READY, add_pcb_to_queue,
           wait_to_end_process, InformarConsola, Admision, get_actual_multiprog, LockNewToReady,
           UnlockNewToReady, can_move_NEW_to_READY, PedirTabla, move_NEW_to_READY,
           AdmisionFallida, SigueAdmision, pcbVars
  <1>2. \A p \in Pid : saliendo'[p] # "no" =>
            saliendo[p] # "no" \/ \E h \in Hilos : pc[h] = "falla_ts" /\ elegido[h] = p
    <2>1. CASE \E h \in Hilos : AdmisionFallida(h)
      BY <2>1 DEF AdmisionFallida, En, Tipos, TypeOK
    <2>2. CASE ~\E h \in Hilos : AdmisionFallida(h)
      <3>1. UNCHANGED saliendo
        BY <2>2 DEF process_instrucciones, Cliente, accept_new_process_in_READY, add_pcb_to_queue,
           wait_to_end_process, InformarConsola, Admision, get_actual_multiprog, LockNewToReady,
           UnlockNewToReady, can_move_NEW_to_READY, PedirTabla, move_NEW_to_READY, SigueAdmision
      <3> QED
        BY <3>1
    <2> QED
      BY <2>1, <2>2
  <1>3. \A p \in Pid : Contains(cola'["NEW"], p) => pc[p] \in SinAlta \/ Esta(p, "NEW")
    <2>1. ASSUME NEW q \in Pid, add_pcb_to_queue(q) PROVE <1>3
      <3>1. cola'["NEW"] = Append(cola["NEW"], q) /\ pc[q] \in SinAlta /\ cola["NEW"] \in Seq(Pid)
        BY <2>1, ColasDistintas DEF add_pcb_to_queue, Tipos, TypeOK, TypeColas, SinAlta
      <3>2. \A p : Contains(cola'["NEW"], p) => Contains(cola["NEW"], p) \/ p = q
        BY <3>1 DEF Contains
      <3> QED
        BY <3>1, <3>2 DEF Esta
    <2>2. ASSUME NEW h \in Hilos, move_NEW_to_READY(h) PROVE <1>3
      <3>1. elegido[h] \in Pid /\ Contains(cola["NEW"], elegido[h])
        BY <2>2 DEF move_NEW_to_READY, En, Tipos, Control, Elegidos, Ciclo, Admitiendo, Esta
      <3>2. PICK a \in {"READY", "EXIT"} : cola' = move_pcb_from_to(elegido[h], "NEW", a)
        BY <2>2 DEF move_NEW_to_READY
      <3>3. Movido(cola, cola', Colas, a, elegido[h])
        BY <3>1, <3>2, MoverCiclo, ColasDistintas DEF Ciclo, Tipos, TypeOK
      <3> QED
        BY <3>3, ColasDistintas DEF Movido, Esta
    <2>3. CASE UNCHANGED cola
      BY <2>3 DEF Esta
    <2> QED
      BY <2>1, <2>2, <2>3 DEF process_instrucciones, Cliente, accept_new_process_in_READY,
           wait_to_end_process, InformarConsola, Admision, get_actual_multiprog, LockNewToReady,
           UnlockNewToReady, can_move_NEW_to_READY, PedirTabla, AdmisionFallida, SigueAdmision
  <1>4. PICK h, e : /\ h \in Hilos /\ Ir(h, e) /\ pc[h] # "exit_exec" /\ (e \in SinAlta => pc[h] \in SinAlta)
                    /\ e = "falla_ts" => pc[h] = "espera_ts" /\ UNCHANGED elegido
                    /\ \A g \in Hilos : g # h => elegido'[g] = elegido[g]
    <2>1. CASE \E p \in Pid : process_instrucciones(p) \/ Cliente(p)
      BY <2>1 DEF process_instrucciones, Cliente, accept_new_process_in_READY, add_pcb_to_queue,
           wait_to_end_process, InformarConsola, En, Hilos, SinAlta
    <2>2. CASE \E h \in Hilos : get_actual_multiprog(h)
      <3>1. PICK h \in Hilos : get_actual_multiprog(h)
        BY <2>2
      <3>2. /\ Ir(h, Lectura[pc[h]].sigue) /\ UNCHANGED elegido
            /\ pc[h] \in {"acepta_ready", "acepta_exec", "cuenta_ready", "cuenta_exec"}
            /\ Lectura[pc[h]].sigue \in SinAlta => pc[h] \in SinAlta
            /\ Lectura[pc[h]].sigue # "falla_ts"
        BY <3>1 DEF get_actual_multiprog, Lectura, SinAlta
      <3> QED
        BY <3>2
    <2>3. CASE \E h \in Hilos : LockNewToReady(h) \/ UnlockNewToReady(h) \/ can_move_NEW_to_READY(h)
      BY <2>3 DEF LockNewToReady, UnlockNewToReady, can_move_NEW_to_READY, En, SinAlta
    <2>4. CASE \E h \in Hilos : PedirTabla(h) \/ move_NEW_to_READY(h) \/ AdmisionFallida(h) \/ SigueAdmision(h)
      <3>1. PICK h \in Hilos : PedirTabla(h) \/ move_NEW_to_READY(h) \/ AdmisionFallida(h) \/ SigueAdmision(h)
        BY <2>4
      <3>2. \A g \in Hilos : g # h => elegido'[g] = elegido[g]
        BY <3>1 DEF PedirTabla, move_NEW_to_READY, AdmisionFallida, SigueAdmision, Tipos, TypeOK, TypeHilos
      <3>3. /\ pc[h] \in {"cuenta_block", "espera_ts", "falla_ts", "exit_new"}
            /\ \E e \in {"espera_ts", "mira_new", "falla_ts", "exit_new"} :
                  Ir(h, e) /\ (e = "falla_ts" => pc[h] = "espera_ts" /\ UNCHANGED elegido)
        BY <3>1 DEF PedirTabla, move_NEW_to_READY, AdmisionFallida, SigueAdmision, En
      <3> QED
        BY <3>2, <3>3 DEF SinAlta
    <2> QED
      BY <2>1, <2>2, <2>3, <2>4 DEF Admision
  <1>5. /\ \A g \in Hilos : pc'[g] = IF g = h THEN e ELSE pc[g]
        /\ core \in Hilos /\ Pid \subseteq Hilos
    BY <1>4 DEF Ir, Tipos, TypeOK, TypeHilos, Hilos
  <1>6. pc[core] = "exit_exec" => pc'[core] = "exit_exec" /\ elegido'[core] = elegido[core]
    BY <1>4, <1>5
  <1>7. \A g \in Hilos : pc'[g] = "falla_ts" => pc[g] \in {"espera_ts", "falla_ts"} /\ elegido'[g] = elegido[g]
    BY <1>4, <1>5
  <1>8. \A p \in Pid : pc'[p] \in SinAlta => pc[p] \in SinAlta
    BY <1>4, <1>5
  <1> QED
    BY <1>1, <1>2, <1>3, <1>6, <1>7, <1>8 DEF Discreto, SinNada

\* What a handler leaves alone.
LEMMA ManejadorEfecto ==
    ASSUME SinCarreras, Tipos, Cuentas, Manejador
    PROVE  /\ pc[core] = "cpu" /\ UNCHANGED <<saliendo, elegido, enMemoria>>
           /\ \E e : Ir(core, e) /\ e \in {"cpu", "mueve", "espera_seg", "espera_tabla"}
           /\ cola'["EXIT"] = cola["EXIT"] /\ cola'["NEW"] = cola["NEW"]
           /\ \A p \in Pid : p # Actual => open_files'[p] = open_files[p] /\ shared'[p] = shared[p]
  <1> USE DEF Reanuda, Sale, Termina
  <1>0. ~RespuestaNula
    BY DEF RespuestaNula, SinCarreras
  <1>1. pc[core] = "cpu" /\ UNCHANGED <<saliendo, elegido, enMemoria>>
    BY <1>0 DEF Manejador, execute_wait, execute_signal, RecursoInvalido, execute_io, execute_yield,
             execute_exit, ProcesarArchivo, FopenEnUso, execute_fopen, FopenFallido, execute_fclose,
             execute_fseek, execute_create_segment, execute_delete_segment, memVars, quietos, Desalojo, En
  <1>2. \E e : Ir(core, e) /\ e \in {"cpu", "mueve", "espera_seg", "espera_tabla"}
    BY <1>0 DEF Manejador, execute_wait, execute_signal, RecursoInvalido, execute_io, execute_yield,
             execute_exit, ProcesarArchivo, FopenEnUso, execute_fopen, FopenFallido, execute_fclose,
             execute_fseek, execute_create_segment, execute_delete_segment
  <1>3. cola'["EXIT"] = cola["EXIT"] /\ cola'["NEW"] = cola["NEW"]
    <2>1. CASE \E r \in Recursos : execute_signal(r)
      BY <2>1, DespiertaEnPaz DEF execute_signal, DespertarPrimero, Despierta, TRecurso
    <2>2. CASE \E f \in Archivos : execute_fclose(f)
      BY <2>2, LiberarEfecto, DespiertaEnPaz DEF execute_fclose, TRecurso
    <2>3. CASE ~(\E r \in Recursos : execute_signal(r)) /\ ~(\E f \in Archivos : execute_fclose(f))
      BY <1>0, <2>3 DEF Manejador, execute_wait, RecursoInvalido, execute_io, execute_yield,
             execute_exit, ProcesarArchivo, FopenEnUso, execute_fopen, FopenFallido,
             execute_fseek, execute_create_segment, execute_delete_segment
    <2> QED
      BY <2>1, <2>2, <2>3
  <1>4. \A p \in Pid : p # Actual => open_files'[p] = open_files[p]
    BY <1>0 DEF Manejador, execute_wait, execute_signal, RecursoInvalido, execute_io, execute_yield,
             execute_exit, ProcesarArchivo, FopenEnUso, execute_fopen, FopenFallido, execute_fclose,
             execute_fseek, execute_create_segment, execute_delete_segment, pcbVars,
             archivo_abierto_create, Tipos, TypeOK, TypePcb
  <1>5. \A p \in Pid : p # Actual => shared'[p] = shared[p]
    BY <1>0 DEF Manejador, execute_wait, execute_signal, RecursoInvalido, execute_io, execute_yield,
             execute_exit, ProcesarArchivo, FopenEnUso, execute_fopen, FopenFallido, execute_fclose,
             execute_fseek, execute_create_segment, execute_delete_segment, pcbVars,
             Tipos, TypeOK, TypePcb
  <1> QED
    BY <1>1, <1>2, <1>3, <1>4, <1>5

\* A handler gives something only to the process that runs.
LEMMA ManejadorDiscreto ==
    ASSUME SinCarreras, Tipos, Cuentas, Manejador
    PROVE  Discreto
  <1>1. /\ pc[core] = "cpu" /\ UNCHANGED <<saliendo, elegido>> /\ cola'["NEW"] = cola["NEW"]
        /\ \A p \in Pid : p # Actual => open_files'[p] = open_files[p] /\ shared'[p] = shared[p]
    BY ManejadorEfecto
  <1>2. PICK e : Ir(core, e) /\ e \in {"cpu", "mueve", "espera_seg", "espera_tabla"}
    BY ManejadorEfecto
  <1>3. /\ \A g \in Hilos : pc'[g] = IF g = core THEN e ELSE pc[g]
        /\ core \notin Pid /\ Pid \subseteq Hilos
    BY <1>2, KernelAssumption DEF Ir, Tipos, TypeOK, TypeHilos, Hilos
  <1>4. \A p \in Pid : SinNada(p) => SinNada(p)' \/ (pc[core] \in Corre /\ Actual = p)
    BY <1>1 DEF SinNada, Corre, Ejecuta
  <1> QED
    BY <1>1, <1>2, <1>3, <1>4 DEF Discreto, Esta

\* What the core does on its own: EXIT starts for the process it ran, and is waited for.
LEMMA NucleoDiscreto ==
    ASSUME Tipos, Ciclo, NucleoInterno
    PROVE  Discreto
  <1> USE DEF Reanuda, Sale, Termina
  <1>1. UNCHANGED <<open_files, shared>>
    BY DEF NucleoInterno, move_READY_to_EXEC, NadaQueDespachar, MoverDesalojado, FinExec,
           ReintentarSegmento, RecibirSegmento, compactar, FinCompactar, RecibirTabla, pcbVars
  <1>2. PICK e : Ir(core, e) /\ e # "falla_ts" /\ e \notin SinAlta
    BY DEF NucleoInterno, move_READY_to_EXEC, NadaQueDespachar, MoverDesalojado, FinExec,
           ReintentarSegmento, RecibirSegmento, compactar, FinCompactar, RecibirTabla, SinAlta
  <1>3. /\ \A g \in Hilos : pc'[g] = IF g = core THEN e ELSE pc[g]
        /\ core \notin Pid /\ Pid \subseteq Hilos
    BY <1>2, KernelAssumption DEF Ir, Tipos, TypeOK, TypeHilos, Hilos
  <1>4. \A h \in Hilos : h # core => elegido'[h] = elegido[h]
    BY DEF NucleoInterno, move_READY_to_EXEC, NadaQueDespachar, MoverDesalojado, FinExec, quietos,
           ReintentarSegmento, RecibirSegmento, compactar, FinCompactar, RecibirTabla,
           Tipos, TypeOK, TypeHilos
  <1>5. cola'["NEW"] = cola["NEW"]
    <2>1. CASE MoverDesalojado
      <3>1. Actual \in Pid /\ cola' = move_pcb_from_to(Actual, "EXEC", next_queue[Actual])
        BY <2>1 DEF MoverDesalojado, En, Tipos, Control, Elegidos, Ejecuta, Actual
      <3>2. next_queue[Actual] \in {"READY", "BLOCK", "EXIT"}
        BY <3>1 DEF Tipos, TypeOK, TypePcb
      <3> QED
        BY <3>1, <3>2, MoverAparte, ColasDistintas DEF Tipos, TypeOK
    <2>2. CASE ~MoverDesalojado
      <3>1. UNCHANGED cola \/ \E p : cola' = move_pcb_from_to(p, "READY", "EXEC")
        BY <2>2 DEF NucleoInterno, move_READY_to_EXEC, NadaQueDespachar, FinExec,
           ReintentarSegmento, RecibirSegmento, compactar, FinCompactar, RecibirTabla
      <3> QED
        BY <3>1, MoverAparte, ColasDistintas DEF Tipos, TypeOK
    <2> QED
      BY <2>1, <2>2
  <1>6. \A p \in Pid : saliendo'[p] # "no" =>
            saliendo[p] # "no" \/ (pc'[core] = "exit_exec" /\ elegido'[core] = p)
    <2>1. CASE MoverDesalojado
      BY <1>3, <2>1 DEF MoverDesalojado, Actual, Ir, Tipos, TypeOK, TypeHilos, Hilos
    <2>2. CASE ~MoverDesalojado
      BY <2>2 DEF NucleoInterno, move_READY_to_EXEC, NadaQueDespachar, FinExec, quietos,
           ReintentarSegmento, RecibirSegmento, compactar, FinCompactar, RecibirTabla
    <2> QED
      BY <2>1, <2>2
  <1>7. ~(pc[core] = "exit_exec" /\ saliendo'[Actual] # "no")
    BY DEF NucleoInterno, move_READY_to_EXEC, NadaQueDespachar, MoverDesalojado, FinExec, En, Actual,
           ReintentarSegmento, RecibirSegmento, compactar, FinCompactar, RecibirTabla
  <1> QED
    BY <1>1, <1>2, <1>3, <1>4, <1>5, <1>6, <1>7 DEF Discreto, SinNada, Esta

\* EXIT gives back, the threads that work for a process move it.
LEMMA RestoDiscreto ==
    ASSUME Tipos, Cuentas, Ciclo, Ajenos,
           \/ \E p \in Pid : Exit(p) \/ Tarea(p)
           \/ Apagar \/ UNCHANGED vars
    PROVE  Discreto
  <1>1. UNCHANGED <<pc, elegido>>
    BY DEF Exit, ExitAvisar, ExitArchivo, ExitArchivosFin, ExitRecurso, ExitFin, Tarea, io, MirarCompactacion,
         AbandonarArchivo, EnviarFS, RecibirFS, ArchivoListo, Apagar, vars, hilosVars
  <1>2. \A p \in Pid : saliendo'[p] # "no" => saliendo[p] # "no"
    BY DEF Exit, ExitAvisar, ExitArchivo, ExitArchivosFin, ExitRecurso, ExitFin, EnExit, Tarea, io,
         MirarCompactacion, AbandonarArchivo, EnviarFS, RecibirFS, ArchivoListo, Apagar, vars, Tipos, TypeOK
  <1>3. \A p \in Pid : SinNada(p) => SinNada(p)'
    BY DEF SinNada, Exit, ExitAvisar, ExitArchivo, ExitArchivosFin, ExitRecurso, ExitFin, Tarea, io,
         MirarCompactacion, AbandonarArchivo, EnviarFS, RecibirFS, ArchivoListo, Apagar, vars, pcbVars,
         Tipos, TypeOK, TypePcb
  <1>4. cola'["NEW"] = cola["NEW"]
    <2>1. CASE \E p \in Pid : ExitArchivo(p) \/ ExitRecurso(p)
      BY <2>1, SoltarEfecto, DespiertaEnPaz
    <2>2. CASE \E p \in Pid : io(p) \/ ArchivoListo(p)
      <3>1. \E p \in Pid : cola' = move_pcb_from_to(p, "BLOCK", "READY")
        BY <2>2 DEF io, ArchivoListo
      <3> QED
        BY <3>1, MoverAparte, ColasDistintas DEF Tipos, TypeOK
    <2>3. CASE ~(\E p \in Pid : ExitArchivo(p) \/ ExitRecurso(p)) /\ ~(\E p \in Pid : io(p) \/ ArchivoListo(p))
      BY <2>3 DEF Exit, ExitAvisar, ExitArchivosFin, ExitFin, Tarea, MirarCompactacion,
         AbandonarArchivo, EnviarFS, RecibirFS, Apagar, vars
    <2> QED
      BY <2>1, <2>2, <2>3
  <1> QED
    BY <1>1, <1>2, <1>3, <1>4 DEF Discreto, Esta, Actual

\* Every step.
LEMMA NextAjenos ==
    ASSUME SinCarreras, Tipos, Cuentas, Ciclo, Ajenos, [Next]_vars
    PROVE  Ajenos'
  <1>1. Discreto
    BY ClienteDiscreto, ManejadorDiscreto, NucleoDiscreto, RestoDiscreto DEF Next
  <1> QED
    BY <1>1, AjenosConserva

\* At the start nobody has anything.
LEMMA InitAjenos == Init => Ajenos
  <1> SUFFICES ASSUME Init PROVE Ajenos
    OBVIOUS
  <1>1. \A p \in Pid : SinNada(p) /\ saliendo[p] = "no"
    BY DEF Init, InitPcbs, SinNada
  <1>2. \A h \in Hilos : pc[h] # "falla_ts"
    BY DEF Init, InitHilos
  <1> QED
    BY <1>1, <1>2 DEF Ajenos

Invariante == Tipos /\ Cuentas /\ Ciclo /\ Ajenos

\* The invariant holds at the start.
LEMMA InitInvariante == Init => Invariante
  BY InitTipos, InitCuentas, InitCiclo, InitAjenos DEF Invariante

\* Every step keeps the invariant.
LEMMA NextInvariante ==
    ASSUME SinCarreras, Invariante, [Next]_vars
    PROVE  Invariante'
  BY NextTipos, NextCuentas, NextCiclo, NextAjenos DEF Invariante

\* EXIT of a process that has files or resources is run by the core, after the process ran: a
\* client thread runs EXIT only for a process that holds nothing, and nobody else runs it.  So
\* the core alone touches a t_recurso, and the steps that do can be atomic.
SoloElCore ==
    \A p \in Pid : saliendo[p] # "no" /\ ~SinNada(p) => pc[core] = "exit_exec" /\ Actual = p

\* SoloElCore holds whatever the programs do and whatever memoria answers.
THEOREM KernelSoloElCore ==
    ASSUME SinCarreras
    PROVE  Spec => []SoloElCore
  <1>1. Invariante /\ [Next]_vars => Invariante'
    BY NextInvariante
  <1>2. Invariante => SoloElCore
    BY DEF Invariante, Ajenos, SoloElCore
  <1> QED
    BY <1>1, <1>2, InitInvariante, PTL DEF Spec

\* Two threads that admit, the core that moves what it evicts and the threads that wake what
\* they blocked all move pcbs by pid: while no thread moves a process the core is still
\* blocking, a process is always in exactly one place of one queue.
THEOREM KernelEstadoUnico ==
    ASSUME SinCarreras
    PROVE  Spec => []EstadoUnico
  <1>1. Invariante /\ [Next]_vars => Invariante'
    BY NextInvariante
  <1>2. Invariante => EstadoUnico
    BY DEF Invariante, Ciclo, Unico, Repartida, Alta, Esta, EstadoUnico
  <1> QED
    BY <1>1, <1>2, InitInvariante, PTL DEF Spec

\* While only the core runs EXIT of processes that hold something (KernelSoloElCore), neither
\* the kernel nor memoria dereferences NULL: who owes an instance has somebody waiting, and
\* the PROCESS_END of a process is sent once, while memoria has its table.
THEOREM KernelSinCaida ==
    ASSUME SinCarreras, SoloAbiertos
    PROVE  Spec => []SinCaida
  <1>1. Init => Invariante /\ SinCaida
    BY InitInvariante DEF Init, SinCaida
  <1>2. ASSUME Invariante, SinCaida, [Next]_vars PROVE SinCaida'
    <2>1. UNCHANGED caida \/ Manejador \/ \E p \in Pid : Exit(p)
      BY <1>2, AdmisionCuentas, NucleoCuentas, RestoCuentas DEF Next, Invariante
    <2>2. CASE Manejador
      <3>1. caida' # "kernel"
        BY <1>2, <2>2, ManejadorCuentas DEF Invariante, KernelEnPie, SinCaida, nadie
      <3>2. caida' \in {caida, "kernel"}
        BY <2>2 DEF Manejador, execute_wait, execute_signal, RecursoInvalido, execute_io, execute_yield,
             execute_exit, ProcesarArchivo, FopenEnUso, execute_fopen, FopenFallido, execute_fclose,
             LiberarArchivo, DespertarPrimero, execute_fseek, execute_create_segment,
             execute_delete_segment, RespuestaNula
      <3> QED
        BY <1>2, <3>1, <3>2 DEF SinCaida
    <2>3. ASSUME NEW p \in Pid, Exit(p) PROVE SinCaida'
      <3>1. CASE ExitAvisar(p)
        BY <1>2, <3>1 DEF ExitAvisar, EnExit, Invariante, Ciclo, ConTabla, SinCaida
      <3>2. CASE ExitArchivo(p) \/ ExitRecurso(p)
        BY <1>2, <3>2, CerrarCuentas, ExitRecursoCuentas DEF Invariante, SinCaida
      <3>3. CASE ExitArchivosFin(p) \/ ExitFin(p)
        BY <1>2, <3>3 DEF ExitArchivosFin, ExitFin, SinCaida
      <3> QED
        BY <2>3, <3>1, <3>2, <3>3 DEF Exit
    <2> QED
      BY <1>2, <2>1, <2>2, <2>3 DEF SinCaida
  <1>3. Invariante /\ SinCaida /\ [Next]_vars => (Invariante /\ SinCaida)'
    BY <1>2, NextInvariante
  <1> QED
    BY <1>1, <1>3, PTL DEF Spec


-----------------------------------------------------------------------------
(* What EXIT leaves                                                        *)

\* How far EXIT(pcb) is tells what it has already given back.
Limpio == \A p \in Pid :
    /\ saliendo[p] \in {"archivos", "recursos"} \/ SalidaCompleta(p) => p \notin enMemoria
    /\ saliendo[p] = "recursos" \/ SalidaCompleta(p) => open_files[p] = <<>>
    /\ SalidaCompleta(p) => shared[p] = <<>>

\* What a process in EXIT has does not grow.
NoCrece ==
    \A p \in Pid : Esta(p, "EXIT") =>
        /\ p \in enMemoria' => p \in enMemoria
        /\ open_files[p] = <<>> => open_files'[p] = <<>>
        /\ shared[p] = <<>> => shared'[p] = <<>>

\* No EXIT(pcb) starts its next loop, and none ends.
NoAvanza ==
    \A p \in Pid : /\ SalidaCompleta(p)' => SalidaCompleta(p)
                   /\ saliendo'[p] \in {"archivos", "recursos"} => saliendo'[p] = saliendo[p]

\* What was clean stays clean in a step that does not take EXIT(pcb) further.
LEMMA LimpioConserva ==
    ASSUME Ciclo, Limpio, NoCrece, NoAvanza
    PROVE  Limpio'
  <1> SUFFICES ASSUME NEW p \in Pid
               PROVE  /\ saliendo'[p] \in {"archivos", "recursos"} \/ SalidaCompleta(p)' => p \notin enMemoria'
                      /\ saliendo'[p] = "recursos" \/ SalidaCompleta(p)' => open_files'[p] = <<>>
                      /\ SalidaCompleta(p)' => shared'[p] = <<>>
    BY DEF Limpio
  <1>1. SalidaCompleta(p) \/ saliendo[p] \in {"archivos", "recursos"} => Esta(p, "EXIT")
    BY DEF SalidaCompleta, Esta, Ciclo, EnSalida
  <1> QED
    BY <1>1 DEF Limpio, NoCrece, NoAvanza

\* The queue EXIT, and the threads whose admission failed, are left alone.
EnPaz ==
    /\ UNCHANGED saliendo
    /\ \A p \in Pid : Contains(cola'["EXIT"], p) => Contains(cola["EXIT"], p)
    /\ \A h \in Hilos : pc[h] = "falla_ts" => pc'[h] = "falla_ts" /\ elegido'[h] = elegido[h]

\* Where EXIT is left alone no EXIT(pcb) advances.
LEMMA EnPazNoAvanza == ASSUME EnPaz PROVE NoAvanza
  BY DEF EnPaz, NoAvanza, SalidaCompleta

\* A process that is being admitted, or that runs, is not in EXIT.
LEMMA FueraDeExit ==
    ASSUME Tipos, Ciclo
    PROVE  /\ \A h \in Hilos : pc[h] = "espera_ts" => ~Esta(elegido[h], "EXIT")
           /\ pc[core] \in Corre => ~Esta(Actual, "EXIT")
  <1>1. \A p : \A c, d \in Colas : Esta(p, c) /\ Esta(p, d) => c = d
    BY UnaCola DEF Ciclo, Esta
  <1> QED
    BY <1>1, ColasDistintas DEF Ciclo, Admitiendo, Ejecutando

\* The clients, and the threads that admit until they ask for a table.
LEMMA ClienteLimpio ==
    ASSUME Tipos, Ciclo, Limpio,
           \/ \E p \in Pid : process_instrucciones(p) \/ Cliente(p)
           \/ \E h \in Hilos : \/ get_actual_multiprog(h) \/ LockNewToReady(h) \/ UnlockNewToReady(h)
                               \/ can_move_NEW_to_READY(h) \/ SigueAdmision(h)
    PROVE  Limpio'
  <1>1. UNCHANGED <<saliendo, enMemoria, open_files, shared>>
    BY DEF process_instrucciones, Cliente, accept_new_process_in_READY, add_pcb_to_queue,
           wait_to_end_process, InformarConsola, get_actual_multiprog, LockNewToReady,
           UnlockNewToReady, can_move_NEW_to_READY, SigueAdmision, memVars, pcbVars
  <1>2. cola'["EXIT"] = cola["EXIT"]
    BY ColasDistintas DEF process_instrucciones, Cliente, accept_new_process_in_READY, add_pcb_to_queue,
           wait_to_end_process, InformarConsola, get_actual_multiprog, LockNewToReady,
           UnlockNewToReady, can_move_NEW_to_READY, SigueAdmision, Tipos, TypeOK, TypeColas
  <1>3. PICK h, e : h \in Hilos /\ Ir(h, e) /\ pc[h] # "falla_ts" /\ \A g \in Hilos : g # h => elegido'[g] = elegido[g]
    <2>1. CASE \E p \in Pid : process_instrucciones(p) \/ Cliente(p)
      BY <2>1 DEF process_instrucciones, Cliente, accept_new_process_in_READY, add_pcb_to_queue,
           wait_to_end_process, InformarConsola, En, Hilos
    <2>2. CASE \E h \in Hilos : get_actual_multiprog(h)
      BY <2>2 DEF get_actual_multiprog, Lectura
    <2>3. CASE \E h \in Hilos : \/ LockNewToReady(h) \/ UnlockNewToReady(h)
                                \/ can_move_NEW_to_READY(h) \/ SigueAdmision(h)
      <3>1. PICK h \in Hilos : \/ LockNewToReady(h) \/ UnlockNewToReady(h)
                               \/ can_move_NEW_to_READY(h) \/ SigueAdmision(h)
        BY <2>3
      <3>2. \A g \in Hilos : g # h => elegido'[g] = elegido[g]
        BY <3>1 DEF LockNewToReady, UnlockNewToReady, can_move_NEW_to_READY, SigueAdmision,
               Tipos, TypeOK, TypeHilos
      <3>3. pc[h] # "falla_ts" /\ \E e : Ir(h, e)
        BY <3>1 DEF LockNewToReady, UnlockNewToReady, can_move_NEW_to_READY, SigueAdmision, En
      <3> QED
        BY <3>2, <3>3
    <2> QED
      BY <2>1, <2>2, <2>3
  <1>4. EnPaz
    BY <1>1, <1>2, <1>3 DEF EnPaz, Ir, Tipos, TypeOK, TypeHilos
  <1>5. NoCrece
    BY <1>1 DEF NoCrece
  <1> QED
    BY <1>4, <1>5, EnPazNoAvanza, LimpioConserva

\* Memoria makes a table for a process that is in NEW.
LEMMA PedirTablaLimpio ==
    ASSUME Tipos, Ciclo, Limpio, NEW h \in Hilos, PedirTabla(h)
    PROVE  Limpio'
  <1> DEFINE q == Head(cola["NEW"])
  <1>1. /\ pc[h] = "cuenta_block" /\ Ir(h, "espera_ts") /\ elegido' = [elegido EXCEPT ![h] = q]
        /\ enMemoria' = enMemoria \cup {q} /\ UNCHANGED <<cola, saliendo, open_files, shared>>
    BY DEF PedirTabla, En, pcbVars
  <1>2. cola["NEW"] # <<>> /\ cola["NEW"] \in Seq(Pid)
    BY <1>1, ColasDistintas DEF Tipos, TypeOK, TypeColas, Control, NuevoEspera
  <1>3. Contains(cola["NEW"], q)
    BY <1>2 DEF Contains
  <1>4. ~Contains(cola["EXIT"], q)
    BY <1>3, UnaCola, ColasDistintas DEF Ciclo
  <1> HIDE DEF q
  <1>5. EnPaz
    BY <1>1 DEF EnPaz, Ir, Tipos, TypeOK, TypeHilos
  <1>6. NoCrece
    BY <1>1, <1>4 DEF NoCrece, Esta
  <1> QED
    BY <1>5, <1>6, EnPazNoAvanza, LimpioConserva

\* A process whose table did not come goes to EXIT with EXIT(pcb) still to run.
LEMMA AdmitirLimpio ==
    ASSUME Tipos, Ciclo, Limpio, NEW h \in Hilos, move_NEW_to_READY(h) \/ AdmisionFallida(h)
    PROVE  Limpio'
  <1>1. NoCrece
    BY DEF NoCrece, move_NEW_to_READY, AdmisionFallida, memVars
  <1>2. CASE move_NEW_to_READY(h)
    <2>1. pc[h] = "espera_ts" /\ elegido[h] \in Pid /\ UNCHANGED saliendo
      BY <1>2 DEF move_NEW_to_READY, En, Tipos, Control, Elegidos
    <2>2. CASE Head(sockMem).op = "TSEGMENTOS"
      <3>1. cola' = move_pcb_from_to(elegido[h], "NEW", "READY") /\ Ir(h, "mira_new")
        BY <1>2, <2>2 DEF move_NEW_to_READY
      <3>2. cola'["EXIT"] = cola["EXIT"]
        BY <3>1, MoverAparte, ColasDistintas DEF Tipos, TypeOK
      <3>3. \A g \in Hilos : g # h => elegido'[g] = elegido[g]
        BY <1>2, <2>2 DEF move_NEW_to_READY, Tipos, TypeOK, TypeHilos
      <3>4. EnPaz
        BY <2>1, <3>1, <3>2, <3>3 DEF EnPaz, Ir, Tipos, TypeOK, TypeHilos
      <3> QED
        BY <1>1, <3>4, EnPazNoAvanza, LimpioConserva
    <2>3. CASE Head(sockMem).op # "TSEGMENTOS"
      <3>1. cola' = move_pcb_from_to(elegido[h], "NEW", "EXIT") /\ Ir(h, "falla_ts") /\ UNCHANGED elegido
        BY <1>2, <2>3 DEF move_NEW_to_READY
      <3>2. Contains(cola["NEW"], elegido[h])
        BY <2>1 DEF Ciclo, Admitiendo, Esta
      <3>3. Movido(cola, cola', Colas, "EXIT", elegido[h])
        BY <2>1, <3>1, <3>2, MoverCiclo, ColasDistintas DEF Ciclo, Tipos, TypeOK
      <3>4. \A p \in Pid : Contains(cola'["EXIT"], p) => Contains(cola["EXIT"], p) \/ p = elegido[h]
        BY <3>3, ColasDistintas DEF Movido
      <3>5. pc'[h] = "falla_ts" /\ \A g \in Hilos : pc[g] = "falla_ts" => pc'[g] = "falla_ts"
        BY <3>1 DEF Ir, Tipos, TypeOK, TypeHilos
      <3>6. NoAvanza
        BY <2>1, <3>1, <3>4, <3>5 DEF NoAvanza, SalidaCompleta
      <3> QED
        BY <1>1, <3>6, LimpioConserva
    <2> QED
      BY <2>2, <2>3
  <1>3. CASE AdmisionFallida(h)
    <2>1. /\ pc[h] = "falla_ts" /\ elegido[h] \in Pid /\ Ir(h, "exit_new")
          /\ saliendo' = [saliendo EXCEPT ![elegido[h]] = "avisar"] /\ UNCHANGED <<cola, elegido>>
      BY <1>3 DEF AdmisionFallida, En, Tipos, Control, Elegidos
    <2>2. /\ saliendo'[elegido[h]] = "avisar" /\ \A p \in Pid : p # elegido[h] => saliendo'[p] = saliendo[p]
          /\ \A g \in Hilos : g # h => pc'[g] = pc[g]
      BY <2>1 DEF Ir, Tipos, TypeOK, TypeHilos
    <2>3. NoAvanza
      BY <2>1, <2>2 DEF NoAvanza, SalidaCompleta
    <2> QED
      BY <1>1, <2>3, LimpioConserva
  <1> QED
    BY <1>2, <1>3

\* A handler changes the pcb of the process that runs.
LEMMA ManejadorLimpio ==
    ASSUME SinCarreras, Tipos, Cuentas, Ciclo, Limpio, Manejador
    PROVE  Limpio'
  <1>1. /\ pc[core] = "cpu" /\ UNCHANGED <<saliendo, elegido, enMemoria>> /\ cola'["EXIT"] = cola["EXIT"]
        /\ \A p \in Pid : p # Actual => open_files'[p] = open_files[p] /\ shared'[p] = shared[p]
    BY ManejadorEfecto
  <1>2. \E e : Ir(core, e)
    BY ManejadorEfecto
  <1>6. \A p \in Pid : Esta(p, "EXIT") => p # Actual
    BY <1>1, FueraDeExit DEF Corre, Ejecuta
  <1>7. NoCrece
    BY <1>1, <1>6 DEF NoCrece
  <1>8. EnPaz
    BY <1>1, <1>2 DEF EnPaz, Ir, Tipos, TypeOK, TypeHilos
  <1> QED
    BY <1>7, <1>8, EnPazNoAvanza, LimpioConserva

\* What the core does on its own: EXIT(pcb) starts at the beginning.
LEMMA NucleoLimpio ==
    ASSUME SinCarreras, Tipos, Ciclo, Limpio, NucleoInterno
    PROVE  Limpio'
  <1> USE DEF Reanuda, Sale, Termina
  <1>1. UNCHANGED <<enMemoria, open_files, shared>>
    BY DEF NucleoInterno, move_READY_to_EXEC, NadaQueDespachar, MoverDesalojado, FinExec,
           ReintentarSegmento, RecibirSegmento, compactar, FinCompactar, RecibirTabla, memVars, pcbVars
  <1>2. NoCrece
    BY <1>1 DEF NoCrece
  <1>3. /\ pc[core] # "falla_ts" /\ \A h \in Hilos : h # core => elegido'[h] = elegido[h]
    BY DEF NucleoInterno, move_READY_to_EXEC, NadaQueDespachar, MoverDesalojado, FinExec, En, quietos,
           ReintentarSegmento, RecibirSegmento, compactar, FinCompactar, RecibirTabla,
           Tipos, TypeOK, TypeHilos
  <1>4. \E e : Ir(core, e)
    BY DEF NucleoInterno, move_READY_to_EXEC, NadaQueDespachar, MoverDesalojado, FinExec,
           ReintentarSegmento, RecibirSegmento, compactar, FinCompactar, RecibirTabla
  <1>5. \A h \in Hilos : pc[h] = "falla_ts" => pc'[h] = "falla_ts" /\ elegido'[h] = elegido[h]
    BY <1>3, <1>4 DEF Ir, Tipos, TypeOK, TypeHilos
  <1>6. CASE move_READY_to_EXEC
    <2>1. UNCHANGED saliendo /\ \E p : cola' = move_pcb_from_to(p, "READY", "EXEC")
      BY <1>6 DEF move_READY_to_EXEC
    <2>2. cola'["EXIT"] = cola["EXIT"]
      BY <2>1, MoverAparte, ColasDistintas DEF Tipos, TypeOK
    <2>3. EnPaz
      BY <1>5, <2>1, <2>2 DEF EnPaz
    <2> QED
      BY <1>2, <2>3, EnPazNoAvanza, LimpioConserva
  <1>7. CASE MoverDesalojado
    <2>1. pc[core] = "mueve" /\ Actual \in Pid /\ cola' = move_pcb_from_to(Actual, "EXEC", next_queue[Actual])
      BY <1>7 DEF MoverDesalojado, En, Tipos, Control, Elegidos, Ejecuta, Actual
    <2>2. Contains(cola["EXEC"], Actual) /\ next_queue[Actual] \in {"READY", "BLOCK", "EXIT"}
      BY <2>1 DEF Ciclo, Ejecutando, Corre, Ejecuta, Esta, Tipos, TypeOK, TypePcb
    <2>3. Movido(cola, cola', Colas, next_queue[Actual], Actual)
      BY <2>1, <2>2, MoverCiclo, ColasDistintas DEF Ciclo, Tipos, TypeOK
    <2>4. \A p \in Pid : Contains(cola'["EXIT"], p) =>
              Contains(cola["EXIT"], p) \/ (p = Actual /\ next_queue[Actual] = "EXIT")
      BY <2>3, ColasDistintas DEF Movido
    <2>5. CASE next_queue[Actual] = "EXIT"
      <3>1. saliendo' = [saliendo EXCEPT ![Actual] = "avisar"]
        BY <1>7, <2>5 DEF MoverDesalojado
      <3>2. saliendo'[Actual] = "avisar" /\ \A p \in Pid : p # Actual => saliendo'[p] = saliendo[p]
        BY <2>1, <3>1 DEF Tipos, TypeOK
      <3>3. NoAvanza
        BY <1>5, <2>4, <3>2 DEF NoAvanza, SalidaCompleta
      <3> QED
        BY <1>2, <3>3, LimpioConserva
    <2>6. CASE next_queue[Actual] # "EXIT"
      <3>1. EnPaz
        BY <1>5, <1>7, <2>4, <2>6 DEF EnPaz, MoverDesalojado
      <3> QED
        BY <1>2, <3>1, EnPazNoAvanza, LimpioConserva
    <2> QED
      BY <2>5, <2>6
  <1>8. CASE ~move_READY_to_EXEC /\ ~MoverDesalojado
    <2>1. UNCHANGED <<saliendo, cola>>
      BY <1>8 DEF NucleoInterno, NadaQueDespachar, FinExec,
           ReintentarSegmento, RecibirSegmento, compactar, FinCompactar, RecibirTabla, quietos
    <2>2. EnPaz
      BY <1>5, <2>1 DEF EnPaz
    <2> QED
      BY <1>2, <2>2, EnPazNoAvanza, LimpioConserva
  <1> QED
    BY <1>6, <1>7, <1>8

\* EXIT(pcb): each loop starts when the one before has nothing left.
LEMMA ExitLimpio ==
    ASSUME Tipos, Cuentas, Ciclo, Limpio, NEW p \in Pid, Exit(p)
    PROVE  Limpio'
  <1>1. UNCHANGED <<pc, elegido>>
    BY DEF Exit, ExitAvisar, ExitArchivo, ExitArchivosFin, ExitRecurso, ExitFin, hilosVars
  <1>2. CASE ExitArchivo(p) \/ ExitRecurso(p)
    <2>1. UNCHANGED <<saliendo, enMemoria>>
      BY <1>2 DEF ExitArchivo, ExitRecurso, memVars
    <2>2. cola'["EXIT"] = cola["EXIT"]
      <3>1. CASE ExitArchivo(p)
        <4>1. Head(open_files[p]) \in Archivos /\ LiberarArchivo(Head(open_files[p]))
          BY <3>1, PrimeroYResto DEF ExitArchivo, Tipos, TypeOK, TypePcb
        <4> QED
          BY <4>1, LiberarEfecto, DespiertaEnPaz DEF TRecurso
      <3>2. CASE ExitRecurso(p)
        <4>1. Head(shared[p]) \in TRecurso
          BY <3>2, PrimeroYResto DEF ExitRecurso, Tipos, TypeOK, TypePcb, TRecurso
        <4> QED
          BY <3>2, <4>1, DespiertaEnPaz DEF ExitRecurso, DespertarPrimero, Despierta
      <3> QED
        BY <1>2, <3>1, <3>2
    <2>3. \A q \in Pid : open_files[q] = <<>> => open_files'[q] = <<>>
      BY <1>2 DEF ExitArchivo, ExitRecurso, Tipos, TypeOK, TypePcb
    <2>4. \A q \in Pid : shared[q] = <<>> => shared'[q] = <<>>
      BY <1>2 DEF ExitArchivo, ExitRecurso, Tipos, TypeOK, TypePcb
    <2>5. EnPaz /\ NoCrece
      BY <1>1, <2>1, <2>2, <2>3, <2>4 DEF EnPaz, NoCrece
    <2> QED
      BY <2>5, EnPazNoAvanza, LimpioConserva
  <1>3. CASE ExitAvisar(p) \/ ExitArchivosFin(p) \/ ExitFin(p)
    <2>1. UNCHANGED <<cola, open_files, shared>> /\ enMemoria' \subseteq enMemoria
      BY <1>3 DEF ExitAvisar, ExitArchivosFin, ExitFin, pcbVars, memVars
    <2>2. \A q \in Pid : q # p => saliendo'[q] = saliendo[q]
      BY <1>3 DEF ExitAvisar, ExitArchivosFin, ExitFin, Tipos, TypeOK
    <2>3. \/ saliendo'[p] = "archivos" /\ p \notin enMemoria'
          \/ saliendo[p] = "archivos" /\ saliendo'[p] = "recursos" /\ open_files[p] = <<>>
          \/ saliendo[p] = "recursos" /\ saliendo'[p] = "no" /\ shared[p] = <<>>
      BY <1>3 DEF ExitAvisar, ExitArchivosFin, ExitFin, EnExit, Tipos, TypeOK
    <2>4. \A q \in Pid : q # p => (SalidaCompleta(q)' <=> SalidaCompleta(q))
      BY <1>1, <2>1, <2>2 DEF SalidaCompleta
    <2> QED
      BY <2>1, <2>2, <2>3, <2>4 DEF Limpio, SalidaCompleta
  <1> QED
    BY <1>2, <1>3 DEF Exit

\* The threads of I/O and files, and the operator.
LEMMA RestoLimpioPaso ==
    ASSUME Tipos, Ciclo, Limpio,
           (\E p \in Pid : Tarea(p)) \/ Apagar \/ UNCHANGED vars
    PROVE  Limpio'
  <1>1. UNCHANGED <<pc, elegido, enMemoria, open_files, shared, saliendo>>
    BY DEF Tarea, io, MirarCompactacion, AbandonarArchivo, EnviarFS, RecibirFS, ArchivoListo,
         Apagar, vars, hilosVars, memVars, pcbVars
  <1>2. NoCrece
    BY <1>1 DEF NoCrece
  <1>3. UNCHANGED cola \/ \E p \in Pid : cola' = move_pcb_from_to(p, "BLOCK", "READY")
    BY DEF Tarea, io, MirarCompactacion, AbandonarArchivo, EnviarFS, RecibirFS, ArchivoListo, Apagar, vars
  <1>4. cola'["EXIT"] = cola["EXIT"]
    BY <1>3, MoverAparte, ColasDistintas DEF Tipos, TypeOK
  <1>5. EnPaz
    BY <1>1, <1>4 DEF EnPaz
  <1> QED
    BY <1>2, <1>5, EnPazNoAvanza, LimpioConserva

\* Every step keeps what EXIT has given back.
LEMMA NextLimpio ==
    ASSUME SinCarreras, Tipos, Cuentas, Ciclo, Limpio, [Next]_vars
    PROVE  Limpio'
  <1>1. ASSUME NEW h \in Hilos, Admision(h) PROVE Limpio'
    BY <1>1, ClienteLimpio, PedirTablaLimpio, AdmitirLimpio DEF Admision
  <1>2. ASSUME NEW p \in Pid, process_instrucciones(p) \/ Cliente(p) PROVE Limpio'
    BY <1>2, ClienteLimpio
  <1> QED
    BY <1>1, <1>2, ManejadorLimpio, NucleoLimpio, ExitLimpio, RestoLimpioPaso DEF Next

\* At the start nobody is in EXIT.
LEMMA InitLimpio == Init => Limpio
  BY ColasDistintas DEF Init, InitColas, InitPcbs, Limpio, SalidaCompleta, Contains

\* Once EXIT is done for a process, run by the core or by the thread that could not admit it,
\* the process holds no file and no resource, waits in nobody's list and has no table in memoria.
THEOREM KernelRestoLimpio ==
    ASSUME SinCarreras
    PROVE  Spec => []RestoLimpio
  <1>1. Init => Invariante /\ Limpio
    BY InitInvariante, InitLimpio
  <1>2. Invariante /\ Limpio /\ [Next]_vars => (Invariante /\ Limpio)'
    BY NextInvariante, NextLimpio DEF Invariante
  <1>3. ASSUME Invariante, Limpio PROVE RestoLimpio
    <2>1. ASSUME NEW p \in Pid, SalidaCompleta(p) PROVE Espera(p) = {}
      <3>1. ~Despertable(p)
        BY <1>3, <2>1, FueraDeExit, UnaCola, ColasDistintas
           DEF Invariante, Ciclo, Despertable, EnTransito, Esta, SalidaCompleta, Corre, Ejecuta
      <3>2. ~EnEspera(p)
        BY <1>3, <3>1 DEF Invariante, Ciclo, Despertadores
      <3> QED
        BY <3>2 DEF Espera, EnEspera
    <2> QED
      BY <1>3, <2>1 DEF Limpio, RestoLimpio
  <1> QED
    BY <1>1, <1>2, <1>3, PTL DEF Spec


-----------------------------------------------------------------------------
(* Who will wake a process                                                 *)

\* The converse of Despertadores: whoever is in BLOCK, or about to be, has somebody to wake it.
\* The kernel is not ending, and no CREATE_SEGMENT has left a next_queue of an older instruction.
ConDespertador ==
    /\ pc[core] \notin Segmentos \ {"espera_tabla"}
    /\ ~end_program_flag
    /\ \A p \in Pid : Despertable(p) => EnEspera(p) \/ Trabaja(p)

\* A step that blocks nobody for whom there is no waker, and takes no waker away.
Vela(p) ==
    /\ Contains(cola'["BLOCK"], p) => Despertable(p)
    /\ pc'[core] = "mueve" /\ elegido'[core] = p /\ next_queue'[p] = "BLOCK" =>
         Despertable(p) \/ EnEspera(p)' \/ Trabaja(p)'
    /\ (EnEspera(p) => EnEspera(p)') /\ (Trabaja(p) => Trabaja(p)')

\* The core, when a step leaves it out of the handlers of segments.
CoreFuera == UNCHANGED end_program_flag /\ pc'[core] \notin Segmentos \ {"espera_tabla"}

\* Such a step keeps the invariant.
LEMMA VelaConserva ==
    ASSUME ConDespertador, CoreFuera,
           \A p \in Pid : Vela(p) \/ (~Despertable(p))'
    PROVE  ConDespertador'
  <1>1. ASSUME NEW p \in Pid, Despertable(p)' PROVE EnEspera(p)' \/ Trabaja(p)'
    <2>1. Vela(p)
      BY <1>1
    <2>2. Despertable(p) => EnEspera(p) \/ Trabaja(p)
      BY DEF ConDespertador
    <2>3. Contains(cola'["BLOCK"], p) \/ (pc'[core] = "mueve" /\ elegido'[core] = p /\ next_queue'[p] = "BLOCK")
      BY <1>1 DEF Despertable, EnTransito, Actual, Esta
    <2> QED
      BY <2>1, <2>2, <2>3 DEF Vela
  <1> QED
    BY <1>1 DEF ConDespertador, CoreFuera

\* Where BLOCK, the lists, the threads and the move of the core are left alone.
LEMMA VelaQuieta ==
    ASSUME ConDespertador, CoreFuera, cola'["BLOCK"] = cola["BLOCK"], UNCHANGED <<bloqueados, tareas>>,
           pc'[core] = "mueve" => pc[core] = "mueve" /\ elegido'[core] = elegido[core],
           \A p \in Pid : next_queue'[p] = "BLOCK" => next_queue[p] = "BLOCK"
    PROVE  ConDespertador'
  <1>1. ASSUME NEW p \in Pid PROVE Vela(p)
    BY DEF Vela, Despertable, EnTransito, Actual, Esta, EnEspera, Trabaja
  <1> QED
    BY <1>1, VelaConserva

\* The clients and the threads that admit.
LEMMA ClienteVela ==
    ASSUME Tipos, ConDespertador,
           \/ \E p \in Pid : process_instrucciones(p) \/ Cliente(p)
           \/ \E h \in Hilos : Admision(h)
    PROVE  ConDespertador'
  <1>1. UNCHANGED <<bloqueados, tareas, next_queue, end_program_flag>>
    BY DEF process_instrucciones, Cliente, accept_new_process_in_READY, add_pcb_to_queue,
           wait_to_end_process, InformarConsola, Admision, get_actual_multiprog, LockNewToReady,
           UnlockNewToReady, can_move_NEW_to_READY, PedirTabla, move_NEW_to_READY,
           AdmisionFallida, SigueAdmision, recVars, fsVars, pcbVars
  <1>2. cola'["BLOCK"] = cola["BLOCK"]
    <2>1. \/ UNCHANGED cola
          \/ \E p \in Pid : cola' = [cola EXCEPT !["NEW"] = Append(@, p)]
          \/ \E p : cola' = move_pcb_from_to(p, "NEW", "READY") \/ cola' = move_pcb_from_to(p, "NEW", "EXIT")
      BY DEF process_instrucciones, Cliente, accept_new_process_in_READY, add_pcb_to_queue,
           wait_to_end_process, InformarConsola, Admision, get_actual_multiprog, LockNewToReady,
           UnlockNewToReady, can_move_NEW_to_READY, PedirTabla, move_NEW_to_READY,
           AdmisionFallida, SigueAdmision
    <2> QED
      BY <2>1, MoverAparte, ColasDistintas DEF Tipos, TypeOK, TypeColas
  <1>3. PICK h, e : h \in Hilos /\ Ir(h, e) /\ e \notin Segmentos \cup {"mueve"}
                    /\ \A g \in Hilos : g # h => elegido'[g] = elegido[g]
    <2>1. CASE \E p \in Pid : process_instrucciones(p) \/ Cliente(p)
      BY <2>1 DEF process_instrucciones, Cliente, accept_new_process_in_READY, add_pcb_to_queue,
           wait_to_end_process, InformarConsola, Hilos, Segmentos
    <2>2. CASE \E h \in Hilos : get_actual_multiprog(h)
      <3>1. PICK h \in Hilos : get_actual_multiprog(h)
        BY <2>2
      <3>2. /\ Lectura[pc[h]].sigue \in {"acepta_exec", "acepta_block", "cuenta_exec", "cuenta_block"}
            /\ Ir(h, Lectura[pc[h]].sigue) /\ UNCHANGED elegido
        BY <3>1 DEF get_actual_multiprog, Lectura
      <3> QED
        BY <3>2 DEF Segmentos
    <2>3. CASE \E h \in Hilos : \/ LockNewToReady(h) \/ UnlockNewToReady(h) \/ can_move_NEW_to_READY(h)
                                \/ AdmisionFallida(h)
      BY <2>3 DEF LockNewToReady, UnlockNewToReady, can_move_NEW_to_READY, AdmisionFallida, Segmentos
    <2>4. CASE \E h \in Hilos : PedirTabla(h) \/ move_NEW_to_READY(h) \/ SigueAdmision(h)
      <3>1. PICK h \in Hilos : PedirTabla(h) \/ move_NEW_to_READY(h) \/ SigueAdmision(h)
        BY <2>4
      <3>2. \A g \in Hilos : g # h => elegido'[g] = elegido[g]
        BY <3>1 DEF PedirTabla, move_NEW_to_READY, SigueAdmision, Tipos, TypeOK, TypeHilos
      <3>3. \E e \in {"espera_ts", "mira_new", "falla_ts"} : Ir(h, e)
        BY <3>1 DEF PedirTabla, move_NEW_to_READY, SigueAdmision
      <3> QED
        BY <3>2, <3>3 DEF Segmentos
    <2> QED
      BY <2>1, <2>2, <2>3, <2>4 DEF Admision
  <1>4. \A g \in Hilos : pc'[g] = IF g = h THEN e ELSE pc[g]
    BY <1>3 DEF Ir, Tipos, TypeOK, TypeHilos
  <1>5. core \in Hilos
    BY DEF Hilos
  <1>6. CoreFuera
    BY <1>1, <1>3, <1>4, <1>5 DEF CoreFuera, ConDespertador
  <1>7. pc'[core] = "mueve" => pc[core] = "mueve" /\ elegido'[core] = elegido[core]
    BY <1>3, <1>4, <1>5
  <1> QED
    BY <1>1, <1>2, <1>6, <1>7, VelaQuieta

\* A step that at most wakes the first of a list.
LEMMA DespiertaVela ==
    ASSUME Tipos, Ciclo, ConDespertador, NEW r \in TRecurso,
           UNCHANGED <<cola, bloqueados>> \/ Despierta(r),
           bloqueados[r] # <<>> => ~EnTransito(Head(bloqueados[r])), CoreQuieto,
           UNCHANGED <<tareas, elegido, next_queue, end_program_flag>>
    PROVE  ConDespertador'
  <1>1. /\ CoreFuera
        /\ pc'[core] = "mueve" => pc[core] = "mueve"
        /\ pc'[core] = pc[core] \/ pc'[core] = "cpu"
    BY DEF CoreQuieto, CoreFuera, ConDespertador, Ir, Segmentos, Tipos, TypeOK, TypeHilos, Hilos
  <1>2. CASE UNCHANGED <<cola, bloqueados>>
    BY <1>1, <1>2, VelaQuieta
  <1>3. CASE Despierta(r)
    <2>1. ~EnTransito(Head(bloqueados[r]))
      BY <1>3 DEF Despierta
    <2>2. PICK p \in Pid :
            /\ Contains(cola["BLOCK"], p) /\ ~Trabaja(p)
            /\ cola' = move_pcb_from_to(p, "BLOCK", "READY")
            /\ \A q \in Pid : EnEspera(q)' <=> (EnEspera(q) /\ q # p)
      BY <1>3, <2>1, DespiertaEfecto
    <2>3. Movido(cola, cola', Colas, "READY", p)
      BY <2>2, MoverCiclo, ColasDistintas DEF Ciclo, Tipos, TypeOK
    <2>4. \A q \in Pid : Contains(cola'["BLOCK"], q) <=> (q # p /\ Contains(cola["BLOCK"], q))
      BY <2>3, ColasDistintas DEF Movido
    <2>5. ~EnTransito(p)
      <3>1. ~Contains(cola["EXEC"], p)
        BY <2>2, UnaCola, ColasDistintas DEF Ciclo
      <3> QED
        BY <3>1 DEF EnTransito, Ciclo, Ejecutando, Esta, Corre, Ejecuta
    <2>6. (~Despertable(p))'
      BY <1>1, <2>2, <2>4, <2>5 DEF Despertable, EnTransito, Actual, Esta
    <2>7. ASSUME NEW q \in Pid, q # p PROVE Vela(q)
      BY <1>1, <2>2, <2>4, <2>7 DEF Vela, Despertable, EnTransito, Actual, Esta, Trabaja
    <2> QED
      BY <1>1, <2>6, <2>7, VelaConserva
  <1> QED
    BY <1>2, <1>3

\* A handler that blocks its process leaves it a waker.
LEMMA EsperarVela ==
    ASSUME Tipos, ConDespertador,
           \/ \E r \in Recursos : execute_wait(r)
           \/ \E f \in Archivos : FopenEnUso(f) \/ \E i \in {"F_TRUNCATE", "F_RW"} : ProcesarArchivo(i, f)
           \/ execute_io
    PROVE  ConDespertador'
  <1>1. /\ pc[core] = "cpu" /\ Actual \in Pid
        /\ UNCHANGED <<cola, elegido, end_program_flag>>
    BY DesalojoTipo DEF execute_wait, FopenEnUso, ProcesarArchivo, execute_io, Desalojo, En, quietos
  <1>2. Ir(core, "cpu") \/ Ir(core, "mueve")
    BY DEF execute_wait, FopenEnUso, ProcesarArchivo, execute_io, Reanuda, Sale
  <1>3. CoreFuera /\ (Ir(core, "cpu") => pc'[core] = "cpu")
    BY <1>1, <1>2 DEF CoreFuera, Ir, Segmentos, Tipos, TypeOK, TypeHilos, Hilos
  <1>4. CASE \E r \in Recursos : execute_wait(r) /\ instancias[r] - 1 >= 0
    <2>1. Ir(core, "cpu") /\ UNCHANGED <<bloqueados, tareas, next_queue>>
      BY <1>4 DEF execute_wait, Reanuda, fsVars
    <2> QED
      BY <1>1, <1>3, <2>1, VelaQuieta
  <1>5. CASE \/ \E r \in Recursos : execute_wait(r) /\ ~(instancias[r] - 1 >= 0)
             \/ \E f \in Archivos : FopenEnUso(f)
    <2>1. UNCHANGED tareas /\ \E r \in TRecurso : bloqueados' = [bloqueados EXCEPT ![r] = Append(@, Actual)]
      BY <1>5 DEF execute_wait, FopenEnUso, fsVars, TRecurso
    <2>2. PICK r \in TRecurso : bloqueados' = [bloqueados EXCEPT ![r] = Append(@, Actual)]
      BY <2>1
    <2>3. bloqueados \in [TRecurso -> Seq(Pid)] /\ bloqueados[r] \in Seq(Pid)
      BY DEF Tipos, TypeOK, TypeRec
    <2>4. \A s \in TRecurso : \A q \in Pid : Contains(bloqueados[s], q) => Contains(bloqueados'[s], q)
      BY <1>1, <2>2, <2>3 DEF Contains
    <2>5. Contains(bloqueados'[r], Actual)
      <3>1. bloqueados'[r] = Append(bloqueados[r], Actual)
        BY <2>2, <2>3
      <3> QED
        BY <1>1, <2>3, <3>1 DEF Contains
    <2>6. EnEspera(Actual)' /\ \A q \in Pid : (EnEspera(q) => EnEspera(q)') /\ (Trabaja(q) => Trabaja(q)')
      BY <1>1, <2>1, <2>4, <2>5 DEF EnEspera, Trabaja, Actual
    <2>7. ASSUME NEW q \in Pid PROVE Vela(q)
      BY <1>1, <2>6 DEF Vela, Despertable, Esta, Actual
    <2> QED
      BY <1>3, <2>7, VelaConserva
  <1>6. CASE \/ \E f \in Archivos : \E i \in {"F_TRUNCATE", "F_RW"} : ProcesarArchivo(i, f)
             \/ execute_io
    <2>1. UNCHANGED bloqueados /\ \E t : t.pid = Actual /\ t.paso = "corre" /\ tareas' = tareas \cup {t}
      BY <1>6 DEF ProcesarArchivo, execute_io, recVars, DeIO, Archivo
    <2>2. Trabaja(Actual)' /\ \A q \in Pid : (EnEspera(q) => EnEspera(q)') /\ (Trabaja(q) => Trabaja(q)')
      BY <1>1, <2>1 DEF EnEspera, Trabaja, Actual
    <2>3. ASSUME NEW q \in Pid PROVE Vela(q)
      BY <1>1, <2>2 DEF Vela, Despertable, Esta, Actual
    <2> QED
      BY <1>3, <2>3, VelaConserva
  <1> QED
    BY <1>4, <1>5, <1>6

\* The other handlers, and what the core does on its own.
LEMMA CoreVela ==
    ASSUME Tipos, Cuentas, Ciclo, ConDespertador, "CREATE_SEGMENT" \notin Instrucciones,
           \/ RecursoInvalido \/ execute_yield \/ execute_exit
           \/ \E f \in Archivos : execute_fopen(f) \/ FopenFallido(f) \/ execute_fseek(f)
           \/ execute_create_segment \/ execute_delete_segment \/ NucleoInterno
    PROVE  ConDespertador'
  <1> USE DEF Reanuda, Sale, Termina
  <1>0. ~execute_create_segment /\ ~ReintentarSegmento /\ ~RecibirSegmento /\ ~compactar /\ ~FinCompactar
    BY DEF execute_create_segment, Desalojo, ReintentarSegmento, RecibirSegmento, compactar, FinCompactar,
           En, ConDespertador, Segmentos
  <1>1. UNCHANGED <<tareas, end_program_flag>>
    BY <1>0 DEF RecursoInvalido, execute_yield, execute_exit, execute_fopen, FopenFallido, execute_fseek,
           execute_delete_segment, NucleoInterno, move_READY_to_EXEC, NadaQueDespachar, MoverDesalojado,
           FinExec, RecibirTabla, fsVars, quietos
  <1>2. UNCHANGED bloqueados
    BY <1>0, AbrirEfecto DEF RecursoInvalido, execute_yield, execute_exit, FopenFallido, execute_fseek,
           execute_delete_segment, NucleoInterno, move_READY_to_EXEC, NadaQueDespachar, MoverDesalojado,
           FinExec, RecibirTabla, recVars
  <1>3. PICK e \in {"cpu", "mueve", "espera_tabla", "lock_nr", "exit_exec"} : Ir(core, e)
    BY <1>0 DEF RecursoInvalido, execute_yield, execute_exit, execute_fopen, FopenFallido, execute_fseek,
           execute_delete_segment, NucleoInterno, move_READY_to_EXEC, NadaQueDespachar, MoverDesalojado,
           FinExec, RecibirTabla, Ciclo, Ejecutando
  <1>4. pc'[core] = e
    BY <1>3 DEF Ir, Tipos, TypeOK, TypeHilos, Hilos
  <1>5. CoreFuera
    BY <1>1, <1>3, <1>4 DEF CoreFuera, Segmentos
  <1>6. CASE MoverDesalojado
    <2>1. pc[core] = "mueve" /\ Actual \in Pid /\ cola' = move_pcb_from_to(Actual, "EXEC", next_queue[Actual])
      BY <1>6 DEF MoverDesalojado, En, Tipos, Control, Elegidos, Ejecuta, Actual
    <2>2. Contains(cola["EXEC"], Actual) /\ next_queue[Actual] \in {"READY", "BLOCK", "EXIT"}
      BY <2>1 DEF Ciclo, Ejecutando, Corre, Ejecuta, Esta, Tipos, TypeOK, TypePcb
    <2>3. Movido(cola, cola', Colas, next_queue[Actual], Actual)
      BY <2>1, <2>2, MoverCiclo, ColasDistintas DEF Ciclo, Tipos, TypeOK
    <2>4. \A p \in Pid : Contains(cola'["BLOCK"], p) =>
              Contains(cola["BLOCK"], p) \/ (p = Actual /\ next_queue[Actual] = "BLOCK")
      BY <2>3, ColasDistintas DEF Movido
    <2>5. e # "mueve"
      BY <1>4, <1>6 DEF MoverDesalojado, Ir, Tipos, TypeOK, TypeHilos, Hilos
    <2>6. ASSUME NEW p \in Pid PROVE Vela(p)
      BY <1>1, <1>2, <1>4, <2>1, <2>4, <2>5 DEF Vela, Despertable, EnTransito, Esta, EnEspera, Trabaja
    <2> QED
      BY <1>5, <2>6, VelaConserva
  <1>7. CASE ~MoverDesalojado
    <2>1. cola'["BLOCK"] = cola["BLOCK"]
      <3>1. UNCHANGED cola \/ \E p : cola' = move_pcb_from_to(p, "READY", "EXEC")
        BY <1>0, <1>7 DEF RecursoInvalido, execute_yield, execute_exit, execute_fopen, FopenFallido, execute_fseek,
           execute_delete_segment, NucleoInterno, move_READY_to_EXEC, NadaQueDespachar,
           FinExec, RecibirTabla
      <3> QED
        BY <3>1, MoverAparte, ColasDistintas DEF Tipos, TypeOK
    <2>2. Ir(core, "mueve") => next_queue'[elegido'[core]] # "BLOCK"
      <3>1. ASSUME Ir(core, "mueve") PROVE e = "mueve"
        BY <1>4, <3>1 DEF Ir, Tipos, TypeOK, TypeHilos, Hilos
      <3>2. ASSUME Ir(core, "mueve") PROVE (Siguiente("READY") \/ Siguiente("EXIT")) /\ UNCHANGED elegido /\ Actual \in Pid
        <4>1. ~Ir(core, "cpu") /\ ~Ir(core, "lock_nr") /\ ~Ir(core, "espera_tabla")
          BY <1>4, <3>1, <3>2 DEF Ir, Tipos, TypeOK, TypeHilos, Hilos
        <4>2. pc[core] \in Ejecuta
          BY <1>0, <1>7, <4>1 DEF RecursoInvalido, execute_yield, execute_exit, execute_fopen, FopenFallido, execute_fseek,
             execute_delete_segment, NucleoInterno, move_READY_to_EXEC, NadaQueDespachar,
             FinExec, RecibirTabla, Desalojo, En, Ejecuta
        <4>3. pc[core] # "exit_otra_vez"
          BY DEF Ciclo, Ejecutando
        <4>4. (Siguiente("READY") \/ Siguiente("EXIT")) /\ UNCHANGED elegido
          BY <1>0, <1>7, <4>1, <4>3 DEF RecursoInvalido, execute_yield, execute_exit, execute_fopen, FopenFallido, execute_fseek,
             execute_delete_segment, NucleoInterno, move_READY_to_EXEC, NadaQueDespachar,
             FinExec, RecibirTabla, quietos
        <4> QED
          BY <4>2, <4>4 DEF Actual, Tipos, Control, Elegidos
      <3> QED
        BY <3>2 DEF Siguiente, Actual, Tipos, TypeOK, TypePcb
    <2>3. ASSUME NEW p \in Pid PROVE Vela(p)
      BY <1>1, <1>2, <1>3, <1>4, <2>1, <2>2 DEF Vela, Despertable, Esta, EnEspera, Trabaja
    <2> QED
      BY <1>5, <2>3, VelaConserva
  <1> QED
    BY <1>6, <1>7

\* The threads of I/O and files: they end when they have moved their process.
LEMMA TareaVela ==
    ASSUME SinCarreras, Tipos, Ciclo, ConDespertador, NEW p \in Pid, Tarea(p)
    PROVE  ConDespertador'
  <1>1. UNCHANGED <<pc, elegido, bloqueados, next_queue, end_program_flag>>
    BY DEF Tarea, io, MirarCompactacion, AbandonarArchivo, EnviarFS, RecibirFS, ArchivoListo, hilosVars, recVars, pcbVars
  <1>2. CoreFuera
    BY <1>1 DEF CoreFuera, ConDespertador
  <1>3. CASE io(p) \/ ArchivoListo(p)
    <2>1. PICK t \in tareas : t.pid = p /\ Alcanzable(p) /\ tareas' = tareas \ {t}
      BY <1>3 DEF io, ArchivoListo, EnTarea, DeIO, Archivo
    <2>2. cola' = move_pcb_from_to(p, "BLOCK", "READY")
      BY <1>3 DEF io, ArchivoListo
    <2>3. Contains(cola["BLOCK"], p)
      BY <2>1, QuienTrabaja
    <2>4. Movido(cola, cola', Colas, "READY", p) /\ ~Contains(cola["EXEC"], p)
      BY <2>2, <2>3, MoverCiclo, UnaCola, ColasDistintas DEF Ciclo, Tipos, TypeOK
    <2>5. \A q \in Pid : Contains(cola'["BLOCK"], q) <=> (q # p /\ Contains(cola["BLOCK"], q))
      BY <2>2, <2>4, ColasDistintas DEF Movido
    <2>6. ~EnTransito(p)
      BY <2>4 DEF EnTransito, Ciclo, Ejecutando, Esta, Corre, Ejecuta
    <2>7. (~Despertable(p))'
      BY <1>1, <2>5, <2>6 DEF Despertable, EnTransito, Actual, Esta
    <2>8. ASSUME NEW q \in Pid, q # p PROVE Vela(q)
      <3>1. (EnEspera(q) => EnEspera(q)') /\ (Trabaja(q) => Trabaja(q)')
        BY <1>1, <2>1, <2>8 DEF EnEspera, Trabaja
      <3> QED
        BY <1>1, <2>5, <2>8, <3>1 DEF Vela, Despertable, EnTransito, Actual, Esta
    <2> QED
      BY <1>2, <2>7, <2>8, VelaConserva
  <1>4. CASE MirarCompactacion(p) \/ AbandonarArchivo(p) \/ EnviarFS(p) \/ RecibirFS(p)
    <2>1. UNCHANGED cola
      BY <1>4 DEF MirarCompactacion, AbandonarArchivo, EnviarFS, RecibirFS
    <2>2. ~AbandonarArchivo(p)
      BY DEF AbandonarArchivo, ConDespertador
    <2>3. ASSUME NEW q \in Pid PROVE Trabaja(q) => Trabaja(q)'
      <3>1. PICK t, u : t.pid = p /\ u.pid = p /\ tareas' = (tareas \ {t}) \cup {u}
        BY <1>4, <2>2 DEF MirarCompactacion, EnviarFS, RecibirFS, Pasa, Archivo
      <3> QED
        BY <3>1 DEF Trabaja
    <2>4. ASSUME NEW q \in Pid PROVE Vela(q)
      BY <1>1, <2>1, <2>3 DEF Vela, Despertable, EnTransito, Actual, Esta, EnEspera
    <2> QED
      BY <1>2, <2>4, VelaConserva
  <1> QED
    BY <1>3, <1>4 DEF Tarea

\* EXIT.
LEMMA SalidaVela ==
    ASSUME Tipos, Cuentas, Ciclo, Ajenos, ConDespertador,
           (\E p \in Pid : Exit(p)) \/ UNCHANGED vars
    PROVE  ConDespertador'
  <1>1. UNCHANGED <<pc, elegido, tareas, end_program_flag>>
    BY DEF Exit, ExitAvisar, ExitArchivo, ExitArchivosFin, ExitRecurso, ExitFin,
         vars, hilosVars, fsVars
  <1>2. CoreFuera
    BY <1>1 DEF CoreFuera, ConDespertador
  <1>3. ASSUME NEW p \in Pid, ExitArchivo(p) \/ ExitRecurso(p) PROVE ConDespertador'
    <2>1. PICK r \in TRecurso : UNCHANGED <<cola, bloqueados>> \/ Despierta(r)
      BY <1>3, SoltarEfecto
    <2>2. bloqueados[r] # <<>> => ~EnTransito(Head(bloqueados[r]))
      BY <1>3, SoltarEnCore
    <2>3. UNCHANGED next_queue
      BY <1>3 DEF ExitArchivo, ExitRecurso
    <2> QED
      BY <1>1, <2>1, <2>2, <2>3, DespiertaVela DEF CoreQuieto
  <1>4. CASE \/ \E p \in Pid : ExitAvisar(p) \/ ExitArchivosFin(p) \/ ExitFin(p)
             \/ UNCHANGED vars
    <2>1. UNCHANGED <<cola, bloqueados, next_queue>>
      BY <1>4 DEF ExitAvisar, ExitArchivosFin, ExitFin, vars, recVars, pcbVars
    <2> QED
      BY <1>1, <1>2, <2>1, VelaQuieta
  <1> QED
    BY <1>3, <1>4 DEF Exit

\* Every step, while the operator does not end the kernel.
LEMMA NextVela ==
    ASSUME SinCarreras, ~Apagado, "CREATE_SEGMENT" \notin Instrucciones,
           Tipos, Cuentas, Ciclo, Ajenos, ConDespertador, [Next]_vars
    PROVE  ConDespertador'
  <1>1. ~Apagar /\ ~RespuestaNula
    BY DEF Apagar, RespuestaNula, SinCarreras
  <1>2. CASE \/ \E r \in Recursos : execute_signal(r)
             \/ \E f \in Archivos : execute_fclose(f)
    <2>1. PICK r \in TRecurso : UNCHANGED <<cola, bloqueados>> \/ Despierta(r)
      BY <1>2, DevolverEfecto
    <2>2. /\ pc[core] = "cpu" /\ Ir(core, "cpu")
          /\ UNCHANGED <<tareas, elegido, next_queue, end_program_flag>>
      BY <1>2 DEF execute_signal, execute_fclose, Desalojo, En, Reanuda, fsVars, quietos
    <2>3. CoreQuieto /\ \A p : ~EnTransito(p)
      BY <2>2 DEF CoreQuieto, EnTransito, Corre, Ejecuta
    <2> QED
      BY <2>1, <2>2, <2>3, DespiertaVela
  <1>3. CASE Manejador
    BY <1>1, <1>2, <1>3, EsperarVela, CoreVela DEF Manejador
  <1> QED
    BY <1>1, <1>3, ClienteVela, CoreVela, TareaVela, SalidaVela DEF Next

\* At the start nobody is in BLOCK.
LEMMA InitVela == Init => ConDespertador
  BY ColasDistintas DEF Init, InitColas, InitHilos, ConDespertador, Despertable, EnTransito, Esta,
     Contains, Segmentos, Hilos

\* A process in BLOCK waits for exactly one thing that will move it: a list it is in, or a
\* thread that works for it; while only the core runs EXIT of processes that hold something
\* (KernelSoloElCore) and the operator lets the kernel run.  CREATE_SEGMENT is left out
\* because its handler, told that there are too many segments, sends the process to the queue of
\* some earlier instruction.
THEOREM KernelBloqueadoTieneDespertador ==
    ASSUME SinCarreras, ~Apagado, "CREATE_SEGMENT" \notin Instrucciones
    PROVE  Spec => []BloqueadoTieneDespertador
  <1>1. Init => Invariante /\ ConDespertador
    BY InitInvariante, InitVela
  <1>2. Invariante /\ ConDespertador /\ [Next]_vars => (Invariante /\ ConDespertador)'
    BY NextInvariante, NextVela DEF Invariante
  <1>3. ASSUME Invariante, ConDespertador PROVE BloqueadoTieneDespertador
    <2>1. ASSUME NEW p \in Pid, Contains(cola["BLOCK"], p)
          PROVE  Cardinality(Espera(p)) + Cardinality(TareasDe(p)) = 1
      <3>1. EnEspera(p) \/ Trabaja(p)
        BY <1>3, <2>1 DEF ConDespertador, Despertable, Esta
      <3>2. ~(EnEspera(p) /\ Trabaja(p))
        BY <1>3 DEF Invariante, Ciclo, Despertadores
      <3>3. CASE EnEspera(p)
        <4>1. PICK r \in TRecurso : Contains(bloqueados[r], p)
          BY <3>3 DEF EnEspera
        <4>2. Espera(p) = {r}
          BY <1>3, <4>1, UnaLista DEF Invariante, Ciclo, Despertadores, Espera
        <4>3. TareasDe(p) = {}
          BY <3>2, <3>3 DEF Trabaja, TareasDe
        <4>4. Cardinality({r}) = 1
          BY FS_Singleton
        <4>5. Cardinality({}) = 0
          BY FS_EmptySet
        <4> QED
          BY <4>2, <4>3, <4>4, <4>5
      <3>4. CASE Trabaja(p)
        <4>1. PICK t \in tareas : t.pid = p
          BY <3>4 DEF Trabaja
        <4>2. TareasDe(p) = {t}
          BY <1>3, <4>1 DEF Invariante, Ciclo, Despertadores, TareasDe
        <4>3. Espera(p) = {}
          BY <3>2, <3>4 DEF EnEspera, Espera
        <4>4. Cardinality({t}) = 1
          BY FS_Singleton
        <4>5. Cardinality({}) = 0
          BY FS_EmptySet
        <4> QED
          BY <4>2, <4>3, <4>4, <4>5
      <3> QED
        BY <3>1, <3>3, <3>4
    <2> QED
      BY <2>1 DEF BloqueadoTieneDespertador
  <1> QED
    BY <1>1, <1>2, <1>3, PTL DEF Spec


-----------------------------------------------------------------------------
(* The owner of a file                                                     *)

Tiene(p, f) == Contains(open_files[p], f)
Aguarda(p, f) == Contains(bloqueados[f], p)
Duenio(p, f) == Tiene(p, f) /\ ~Aguarda(p, f)

\* Who waits for a file has it in its table; of those that have it one does not wait.
Exclusivo(f) ==
    /\ \A p \in Pid : Aguarda(p, f) => Tiene(p, f)
    /\ f \in abiertos => \E p \in Pid : Duenio(p, f)
    /\ f \notin abiertos => \A p \in Pid : ~Tiene(p, f)
    /\ \A p, q \in Pid : Duenio(p, f) /\ Duenio(q, f) => p = q

UnDuenio ==
    /\ \A p \in Pid : SinRepetidos(open_files[p])
    /\ \A f \in Archivos : Exclusivo(f)

\* A step that leaves f alone.
DejaIgual(f) ==
    /\ f \in abiertos' <=> f \in abiertos
    /\ \A p \in Pid : (Tiene(p, f)' <=> Tiene(p, f)) /\ (Aguarda(p, f)' <=> Aguarda(p, f))

\* Such a step keeps its owner.
LEMMA IgualConserva ==
    ASSUME NEW f \in Archivos, Exclusivo(f), DejaIgual(f)
    PROVE  Exclusivo(f)'
  BY DEF Exclusivo, DejaIgual, Duenio

\* Steps that have nothing to do with files.
LEMMA SinArchivos ==
    ASSUME UnDuenio, UNCHANGED <<open_files, abiertos>>,
           \A f \in Archivos : bloqueados'[f] = bloqueados[f]
    PROVE  UnDuenio'
  <1>1. ASSUME NEW f \in Archivos PROVE DejaIgual(f)
    BY DEF DejaIgual, Tiene, Aguarda
  <1> QED
    BY <1>1, IgualConserva DEF UnDuenio

\* What one more file in the table of p changes.
LEMMA AgregarArchivo ==
    ASSUME Tipos, UnDuenio, NEW p \in Pid, NEW f \in Archivos, ~Tiene(p, f), archivo_abierto_create(p, f)
    PROVE  /\ \A q \in Pid : SinRepetidos(open_files'[q])
           /\ \A q \in Pid : \A g : Tiene(q, g)' <=> (Tiene(q, g) \/ (q = p /\ g = f))
  <1>1. open_files \in [Pid -> Seq(Archivos)] /\ open_files[p] \in Seq(Archivos) /\ SinRepetidos(open_files[p])
    BY DEF Tipos, TypeOK, TypePcb, UnDuenio
  <1>2. open_files'[p] = Append(open_files[p], f) /\ \A q \in Pid : q # p => open_files'[q] = open_files[q]
    BY <1>1 DEF archivo_abierto_create
  <1>3. /\ SinRepetidos(Append(open_files[p], f))
        /\ \A g : Contains(Append(open_files[p], f), g) <=> (Contains(open_files[p], g) \/ g = f)
    BY <1>1, DistintaAgrega DEF Tiene
  <1> QED
    BY <1>2, <1>3 DEF Tiene, UnDuenio

\* F_OPEN of a file that nobody has: the process is its owner.
LEMMA AbrirDuenio ==
    ASSUME Tipos, Cuentas, UnDuenio, NEW f \in Archivos, execute_fopen(f)
    PROVE  UnDuenio'
  <1>1. /\ Actual \in Pid /\ f \notin abiertos /\ abiertos' = abiertos \cup {f}
        /\ archivo_abierto_create(Actual, f) /\ UNCHANGED <<bloqueados, elegido>>
    BY DesalojoTipo, AbrirEfecto DEF execute_fopen, buscar_archivo, quietos
  <1>2. \A q \in Pid : ~Tiene(q, f) /\ ~Aguarda(q, f)
    BY <1>1 DEF UnDuenio, Exclusivo
  <1>3. /\ \A q \in Pid : SinRepetidos(open_files'[q])
        /\ \A q \in Pid : \A g : Tiene(q, g)' <=> (Tiene(q, g) \/ (q = Actual /\ g = f))
    BY <1>1, <1>2, AgregarArchivo
  <1>4. \A q \in Pid : \A g \in Archivos : Aguarda(q, g)' <=> Aguarda(q, g)
    BY <1>1 DEF Aguarda
  <1>5. ASSUME NEW g \in Archivos, g # f PROVE Exclusivo(g)'
    <2>1. DejaIgual(g)
      BY <1>1, <1>3, <1>4, <1>5 DEF DejaIgual
    <2> QED
      BY <2>1, IgualConserva DEF UnDuenio
  <1>6. Exclusivo(f)'
    BY <1>1, <1>2, <1>3, <1>4 DEF Exclusivo, Duenio
  <1> QED
    BY <1>3, <1>5, <1>6 DEF UnDuenio

\* F_OPEN of a file that somebody has: the process waits, the owner stays.
LEMMA EsperarDuenio ==
    ASSUME Disciplinado, Tipos, UnDuenio, NEW f \in Archivos, FopenEnUso(f)
    PROVE  UnDuenio'
  <1>1. /\ Actual \in Pid /\ f \in abiertos /\ UNCHANGED abiertos /\ ~Tiene(Actual, f)
        /\ archivo_abierto_create(Actual, f)
        /\ bloqueados' = [bloqueados EXCEPT ![f] = Append(@, Actual)]
    BY DesalojoTipo DEF FopenEnUso, buscar_archivo, buscar_archivo_abierto, Tiene
  <1>2. /\ \A q \in Pid : SinRepetidos(open_files'[q])
        /\ \A q \in Pid : \A g : Tiene(q, g)' <=> (Tiene(q, g) \/ (q = Actual /\ g = f))
    BY <1>1, AgregarArchivo
  <1>3. bloqueados \in [TRecurso -> Seq(Pid)] /\ f \in TRecurso /\ bloqueados[f] \in Seq(Pid)
    BY DEF Tipos, TypeOK, TypeRec, TRecurso
  <1>4. /\ bloqueados'[f] = Append(bloqueados[f], Actual)
        /\ \A g \in Archivos : g # f => bloqueados'[g] = bloqueados[g]
    BY <1>1, <1>3 DEF TRecurso
  <1>5. \A x : Contains(Append(bloqueados[f], Actual), x) <=> (Contains(bloqueados[f], x) \/ x = Actual)
    BY <1>1, <1>3, DistintaAgrega
  <1>6. \A q \in Pid : \A g \in Archivos : Aguarda(q, g)' <=> (Aguarda(q, g) \/ (q = Actual /\ g = f))
    BY <1>4, <1>5 DEF Aguarda
  <1>7. ASSUME NEW g \in Archivos, g # f PROVE Exclusivo(g)'
    <2>1. DejaIgual(g)
      BY <1>1, <1>2, <1>6, <1>7 DEF DejaIgual
    <2> QED
      BY <2>1, IgualConserva DEF UnDuenio
  <1>8. Exclusivo(f)'
    <2>1. Exclusivo(f)
      BY DEF UnDuenio
    <2>2. \A q \in Pid : Duenio(q, f)' <=> (Duenio(q, f) /\ q # Actual)
      BY <1>2, <1>6 DEF Duenio
    <2>3. ~Duenio(Actual, f)
      BY <1>1 DEF Duenio
    <2> QED
      BY <1>1, <1>2, <1>6, <2>1, <2>2, <2>3 DEF Exclusivo
  <1> QED
    BY <1>2, <1>7, <1>8 DEF UnDuenio

\* The owner lets a file go: the first that waited for it is the owner, or there is none.
LEMMA CerrarDuenio ==
    ASSUME Tipos, Cuentas, Ciclo, UnDuenio, NEW p \in Pid, NEW f \in Archivos, LiberarArchivo(f),
           NEW n, NEW t, SinIndice(open_files[p], n, t), open_files[p][n] = f, ~EnEspera(p),
           open_files' = [open_files EXCEPT ![p] = t]
    PROVE  UnDuenio'
  <1>1. open_files \in [Pid -> Seq(Archivos)] /\ open_files[p] \in Seq(Archivos) /\ SinRepetidos(open_files[p])
    BY DEF Tipos, TypeOK, TypePcb, UnDuenio
  <1>2. open_files'[p] = t /\ \A q \in Pid : q # p => open_files'[q] = open_files[q]
    BY <1>1
  <1>3. SinRepetidos(t) /\ \A x : Contains(t, x) <=> (Contains(open_files[p], x) /\ x # f)
    BY <1>1, DistintaQuita
  <1>4. /\ \A q \in Pid : SinRepetidos(open_files'[q])
        /\ \A q \in Pid : \A g : Tiene(q, g)' <=> (Tiene(q, g) /\ ~(q = p /\ g = f))
    BY <1>2, <1>3 DEF Tiene, UnDuenio
  <1>5. Tiene(p, f)
    BY DEF Tiene, Contains, SinIndice
  <1>6. f \in TRecurso /\ bloqueados \in [TRecurso -> Seq(Pid)] /\ bloqueados[f] \in Seq(Pid) /\ Archivos \subseteq TRecurso
    BY DEF Tipos, TypeOK, TypeRec, TRecurso
  <1>7. ~Aguarda(p, f) /\ Exclusivo(f)
    BY <1>6 DEF EnEspera, Aguarda, UnDuenio
  <1>8. f \in abiertos /\ \A q \in Pid : Duenio(q, f) => q = p
    BY <1>5, <1>7 DEF Exclusivo, Duenio
  <1>9. CASE instancias[f] + 1 > 0
    <2>1. instancias[f] \in Int
      BY <1>6 DEF Tipos, TypeOK, TypeRec
    <2>2. Len(bloqueados[f]) = 0
      BY <1>6, <1>9, <2>1 DEF Cuentas, ColaCuadra
    <2>3. bloqueados[f] = <<>>
      BY <1>6, <2>2
    <2>4. abiertos' = abiertos \ {f} /\ bloqueados' = [bloqueados EXCEPT ![f] = <<>>]
      BY <1>9 DEF LiberarArchivo
    <2>5. UNCHANGED bloqueados
      BY <1>6, <2>3, <2>4
    <2>6. \A q \in Pid : ~Aguarda(q, f)
      BY <2>2 DEF Aguarda, Contains
    <2>7. \A q \in Pid : ~Tiene(q, f)'
      BY <1>4, <1>8, <2>6 DEF Duenio
    <2>8. \A q \in Pid : \A g \in Archivos : Aguarda(q, g)' <=> Aguarda(q, g)
      BY <2>5 DEF Aguarda
    <2>9. Exclusivo(f)'
      BY <2>4, <2>6, <2>7, <2>8 DEF Exclusivo, Duenio
    <2>10. ASSUME NEW g \in Archivos, g # f PROVE Exclusivo(g)'
      <3>1. DejaIgual(g)
        BY <1>4, <2>4, <2>8, <2>10 DEF DejaIgual
      <3> QED
        BY <3>1, IgualConserva DEF UnDuenio
    <2> QED
      BY <1>4, <2>9, <2>10 DEF UnDuenio
  <1>10. CASE ~(instancias[f] + 1 > 0)
    <2>1. DespertarPrimero(f) /\ UNCHANGED abiertos /\ instancias[f] + 1 <= 0
      BY <1>6, <1>10 DEF LiberarArchivo, Tipos, TypeOK, TypeRec
    <2>2. bloqueados[f] # <<>>
      BY <1>6, <2>1, HayQuienDespertar DEF Tipos, TypeOK, Cuentas
    <2>3. PICK d \in Pid : SinIndice(bloqueados[f], 1, Tail(bloqueados[f])) /\ bloqueados[f][1] = d
      BY <1>6, <2>2, PrimeroYResto, SacarIndice
    <2>4. SinRepetidos(bloqueados[f])
      BY <1>6 DEF Ciclo, Despertadores, Repartida, SinRepetidos
    <2>5. \A x : Contains(Tail(bloqueados[f]), x) <=> (Contains(bloqueados[f], x) /\ x # d)
      <3>1. \A x : Contains(Tail(bloqueados[f]), x) <=> (Contains(bloqueados[f], x) /\ x # bloqueados[f][1])
        BY <1>6, <2>3, <2>4, DistintaQuita
      <3> QED
        BY <2>3, <3>1
    <2>6. bloqueados'[f] = Tail(bloqueados[f]) /\ \A g \in Archivos : g # f => bloqueados'[g] = bloqueados[g]
      BY <1>6, <2>1, <2>2 DEF DespertarPrimero
    <2>7. \A q \in Pid : \A g \in Archivos : Aguarda(q, g)' <=> (Aguarda(q, g) /\ ~(q = d /\ g = f))
      BY <2>5, <2>6 DEF Aguarda
    <2>8. Aguarda(d, f)
      <3>1. 1 \in 1..Len(bloqueados[f])
        BY <1>6, <2>2
      <3> QED
        BY <2>3, <3>1 DEF Aguarda, Contains
    <2>9. d # p /\ Tiene(d, f)
      BY <1>7, <2>3, <2>8 DEF Exclusivo
    <2>10. \A q \in Pid : Duenio(q, f)' <=> q = d
      <3>1. ASSUME NEW q \in Pid, Duenio(q, f)' PROVE q = d
        BY <1>4, <1>8, <2>7, <3>1 DEF Duenio
      <3>2. Duenio(d, f)'
        BY <1>4, <2>3, <2>7, <2>9 DEF Duenio
      <3> QED
        BY <3>1, <3>2
    <2>11. Exclusivo(f)'
      <3>1. \A q \in Pid : Aguarda(q, f)' => Tiene(q, f)'
        BY <1>4, <1>7, <2>7 DEF Exclusivo
      <3> QED
        BY <1>8, <2>1, <2>3, <2>10, <3>1 DEF Exclusivo
    <2>12. ASSUME NEW g \in Archivos, g # f PROVE Exclusivo(g)'
      <3>1. DejaIgual(g)
        BY <1>4, <2>1, <2>7, <2>12 DEF DejaIgual
      <3> QED
        BY <3>1, IgualConserva DEF UnDuenio
    <2> QED
      BY <1>4, <2>11, <2>12 DEF UnDuenio
  <1> QED
    BY <1>9, <1>10

\* Who runs, or is in EXIT, waits for nothing.
LEMMA NoEspera ==
    ASSUME Ciclo, NEW p \in Pid, Esta(p, "EXIT") \/ (pc[core] \in Corre \ {"mueve"} /\ Actual = p)
    PROVE  ~EnEspera(p)
  <1>1. ~Despertable(p)
    BY UnaCola, ColasDistintas DEF Ciclo, Ejecutando, Despertable, EnTransito, Esta, Corre, Ejecuta
  <1> QED
    BY <1>1 DEF Ciclo, Despertadores

\* F_CLOSE, and one file of EXIT.
LEMMA SoltarDuenio ==
    ASSUME Tipos, Cuentas, Ciclo, UnDuenio,
           \/ \E f \in Archivos : execute_fclose(f)
           \/ \E p \in Pid : ExitArchivo(p)
    PROVE  UnDuenio'
  <1>1. ASSUME NEW f \in Archivos, execute_fclose(f) PROVE UnDuenio'
    <2>1. /\ pc[core] \in Corre \ {"mueve"} /\ Actual \in Pid /\ LiberarArchivo(f)
          /\ open_files' = [open_files EXCEPT ![Actual] = RemoveFirst(@, f)]
          /\ Contains(open_files[Actual], f)
      BY <1>1, DesalojoTipo DEF execute_fclose, Desalojo, En, Corre, Ejecuta, buscar_archivo_abierto
    <2>2. open_files[Actual] \in Seq(Archivos)
      BY <2>1 DEF Tipos, TypeOK, TypePcb
    <2>3. PICK n \in 1..Len(open_files[Actual]) :
            open_files[Actual][n] = f /\ SinIndice(open_files[Actual], n, RemoveFirst(open_files[Actual], f))
      BY <2>1, <2>2, QuitarIndice
    <2>4. ~EnEspera(Actual)
      BY <2>1, NoEspera
    <2>5. open_files' = [open_files EXCEPT ![Actual] = RemoveFirst(open_files[Actual], f)]
      BY <2>1
    <2> QED
      BY <2>1, <2>3, <2>4, <2>5, CerrarDuenio
  <1>2. ASSUME NEW p \in Pid, ExitArchivo(p) PROVE UnDuenio'
    <2> DEFINE f == Head(open_files[p])
    <2>1. /\ open_files[p] # <<>> /\ LiberarArchivo(f) /\ saliendo[p] # "no"
          /\ open_files' = [open_files EXCEPT ![p] = Tail(open_files[p])]
      BY <1>2 DEF ExitArchivo, EnExit
    <2>2. open_files[p] \in Seq(Archivos)
      BY DEF Tipos, TypeOK, TypePcb
    <2>3. f \in Archivos /\ open_files[p][1] = f /\ SinIndice(open_files[p], 1, Tail(open_files[p]))
      BY <2>1, <2>2, PrimeroYResto, SacarIndice
    <2>4. ~EnEspera(p)
      BY <2>1, NoEspera DEF Ciclo, EnSalida
    <2> HIDE DEF f
    <2> QED
      BY <2>1, <2>3, <2>4, CerrarDuenio
  <1> QED
    BY <1>1, <1>2

\* The handlers of resources change lists that are not of files.
LEMMA RecursoDuenio ==
    ASSUME Tipos, UnDuenio,
           \/ \E r \in Recursos : execute_wait(r) \/ execute_signal(r)
           \/ \E p \in Pid : ExitRecurso(p)
    PROVE  UnDuenio'
  <1>1. UNCHANGED <<open_files, abiertos>>
    BY DEF execute_wait, execute_signal, ExitRecurso
  <1>2. \E r \in Recursos : \E s : bloqueados' = bloqueados \/ bloqueados' = [bloqueados EXCEPT ![r] = s]
    <2>1. ASSUME NEW r \in Recursos, execute_wait(r) \/ execute_signal(r) PROVE <1>2
      BY <2>1 DEF execute_wait, execute_signal, DespertarPrimero
    <2>2. ASSUME NEW p \in Pid, ExitRecurso(p) PROVE <1>2
      <3>1. Head(shared[p]) \in Recursos
        BY <2>2, PrimeroYResto DEF ExitRecurso, Tipos, TypeOK, TypePcb
      <3> QED
        BY <2>2, <3>1 DEF ExitRecurso, DespertarPrimero
    <2> QED
      BY <2>1, <2>2
  <1>3. \A f \in Archivos : bloqueados'[f] = bloqueados[f]
    BY <1>2, KernelAssumption DEF Tipos, TypeOK, TypeRec, TRecurso
  <1> QED
    BY <1>1, <1>3, SinArchivos

\* Everything else.
LEMMA RestoDuenio ==
    ASSUME UnDuenio,
           \/ \E p \in Pid : process_instrucciones(p) \/ Cliente(p) \/ Tarea(p)
           \/ \E p \in Pid : ExitAvisar(p) \/ ExitArchivosFin(p) \/ ExitFin(p)
           \/ \E h \in Hilos : Admision(h)
           \/ RecursoInvalido \/ execute_io \/ execute_yield \/ execute_exit
           \/ \E f \in Archivos : \/ \E i \in {"F_TRUNCATE", "F_RW"} : ProcesarArchivo(i, f)
                                  \/ FopenFallido(f) \/ execute_fseek(f)
           \/ execute_create_segment \/ execute_delete_segment \/ RespuestaNula
           \/ NucleoInterno \/ Apagar \/ UNCHANGED vars
    PROVE  UnDuenio'
  <1>1. UNCHANGED <<open_files, recVars>>
    <2>1. CASE \/ \E p \in Pid : process_instrucciones(p) \/ Cliente(p)
               \/ \E h \in Hilos : Admision(h)
      BY <2>1 DEF process_instrucciones, Cliente, accept_new_process_in_READY, add_pcb_to_queue,
           wait_to_end_process, InformarConsola, Admision, get_actual_multiprog, LockNewToReady,
           UnlockNewToReady, can_move_NEW_to_READY, PedirTabla, move_NEW_to_READY,
           AdmisionFallida, SigueAdmision, pcbVars
    <2>2. CASE \/ RecursoInvalido \/ execute_io \/ execute_yield \/ execute_exit
               \/ \E f \in Archivos : \/ \E i \in {"F_TRUNCATE", "F_RW"} : ProcesarArchivo(i, f)
                                      \/ FopenFallido(f) \/ execute_fseek(f)
               \/ execute_create_segment \/ execute_delete_segment \/ RespuestaNula
      BY <2>2 DEF RecursoInvalido, execute_io, execute_yield, execute_exit, ProcesarArchivo, FopenFallido,
           execute_fseek, execute_create_segment, execute_delete_segment, RespuestaNula, pcbVars
    <2>3. CASE NucleoInterno
      BY <2>3 DEF NucleoInterno, move_READY_to_EXEC, NadaQueDespachar, MoverDesalojado, FinExec,
           ReintentarSegmento, RecibirSegmento, compactar, FinCompactar, RecibirTabla, pcbVars
    <2>4. CASE \/ \E p \in Pid : Tarea(p) \/ ExitAvisar(p) \/ ExitArchivosFin(p) \/ ExitFin(p)
               \/ Apagar \/ UNCHANGED vars
      BY <2>4 DEF Tarea, io, MirarCompactacion, AbandonarArchivo, EnviarFS, RecibirFS, ArchivoListo, ExitAvisar, ExitArchivosFin, ExitFin,
           Apagar, vars, pcbVars
    <2> QED
      BY <2>1, <2>2, <2>3, <2>4
  <1> QED
    BY <1>1, SinArchivos DEF recVars

\* Every step keeps one owner for each open file.
LEMMA NextDuenio ==
    ASSUME Disciplinado, Tipos, Cuentas, Ciclo, UnDuenio, [Next]_vars
    PROVE  UnDuenio'
  <1>1. CASE Manejador
    BY <1>1, AbrirDuenio, EsperarDuenio, SoltarDuenio, RecursoDuenio, RestoDuenio DEF Manejador
  <1>2. ASSUME NEW p \in Pid, Exit(p) PROVE UnDuenio'
    BY <1>2, SoltarDuenio, RecursoDuenio, RestoDuenio DEF Exit
  <1> QED
    BY <1>1, <1>2, RestoDuenio DEF Next

\* At the start no file is open.
LEMMA InitDuenio == Init => UnDuenio
  BY DEF Init, InitRecursos, InitPcbs, UnDuenio, Exclusivo, Tiene, Aguarda, Duenio, SinRepetidos,
     Contains, TRecurso

\* While only the core runs EXIT of processes that hold something (KernelSoloElCore), an open
\* file has exactly one owner, who does not wait for it; whoever else has it in its table
\* waits; and no table names a file that was destroyed.  Programs do not open again what
\* they have open: the second F_OPEN would wait for the first.
THEOREM KernelArchivoExclusivo ==
    ASSUME SinCarreras, Disciplinado
    PROVE  Spec => []ArchivoExclusivo
  <1>1. Init => Invariante /\ UnDuenio
    BY InitInvariante, InitDuenio
  <1>2. Invariante /\ UnDuenio /\ [Next]_vars => (Invariante /\ UnDuenio)'
    BY NextInvariante, NextDuenio DEF Invariante
  <1>3. ASSUME UnDuenio PROVE ArchivoExclusivo
    <2> SUFFICES ASSUME NEW f \in Archivos
                 PROVE  LET lo_tienen == {p \in Pid : Contains(open_files[p], f)} IN
                        IF f \in abiertos
                        THEN Cardinality({p \in lo_tienen : ~Contains(bloqueados[f], p)}) = 1
                        ELSE lo_tienen = {}
      BY DEF ArchivoExclusivo
    <2> DEFINE lo_tienen == {p \in Pid : Contains(open_files[p], f)}
               duenios == {p \in lo_tienen : ~Contains(bloqueados[f], p)}
    <2>1. Exclusivo(f)
      BY <1>3 DEF UnDuenio
    <2>2. ASSUME f \in abiertos PROVE Cardinality(duenios) = 1
      <3>1. PICK p \in Pid : Duenio(p, f)
        BY <2>1, <2>2 DEF Exclusivo
      <3>2. duenios = {p}
        BY <2>1, <3>1 DEF Exclusivo, Duenio, Tiene, Aguarda
      <3>3. Cardinality({p}) = 1
        BY FS_Singleton
      <3> QED
        BY <3>2, <3>3
    <2>3. ASSUME f \notin abiertos PROVE lo_tienen = {}
      BY <2>1, <2>3 DEF Exclusivo, Tiene
    <2> QED
      BY <2>2, <2>3
  <1> QED
    BY <1>1, <1>2, <1>3, PTL DEF Spec


-----------------------------------------------------------------------------
(* What the console is told                                                *)

\* A console is told the end of a process that is in EXIT, and nothing changes afterwards.
Dicho ==
    /\ ~end_program_flag
    /\ \A p \in Pid : /\ pc[p] \in {"informa", "fin"} => Esta(p, "EXIT")
                      /\ informado[p] # nadie => pc[p] = "fin" /\ informado[p] = exit_status[p]

\* Nobody leaves EXIT, and the status of who is there stays.
Firme ==
    /\ UNCHANGED end_program_flag
    /\ \A p \in Pid : Esta(p, "EXIT") => Esta(p, "EXIT")' /\ exit_status'[p] = exit_status[p]

\* No client thread is told, or tells.
Callado ==
    /\ UNCHANGED informado
    /\ \A p \in Pid : /\ pc'[p] \in {"informa", "fin"} => pc'[p] = pc[p]
                      /\ pc[p] = "fin" => pc'[p] = "fin"

\* Steps without news for a console.
LEMMA CalladoConserva == ASSUME Dicho, Firme, Callado PROVE Dicho'
  BY DEF Dicho, Firme, Callado

\* The client threads.
LEMMA ClienteDicho ==
    ASSUME Tipos, Dicho, NEW p \in Pid, process_instrucciones(p) \/ Cliente(p)
    PROVE  Dicho'
  <1>1. UNCHANGED <<exit_status, end_program_flag>>
    BY DEF process_instrucciones, Cliente, accept_new_process_in_READY, add_pcb_to_queue,
           wait_to_end_process, InformarConsola, pcbVars, Dicho
  <1>2. cola'["EXIT"] = cola["EXIT"]
    BY ColasDistintas DEF process_instrucciones, Cliente, accept_new_process_in_READY, add_pcb_to_queue,
           wait_to_end_process, InformarConsola, Tipos, TypeOK, TypeColas
  <1>3. Firme
    BY <1>1, <1>2 DEF Firme, Esta
  <1>4. p \in Hilos
    BY DEF Hilos
  <1>5. CASE wait_to_end_process(p)
    <2>1. /\ pc[p] = "espera" /\ Ir(p, "informa") /\ Esta(p, "EXIT") /\ UNCHANGED informado
      BY <1>5 DEF wait_to_end_process, En, Dicho, Esta
    <2>2. \A q \in Pid : pc'[q] = IF q = p THEN "informa" ELSE pc[q]
      BY <1>4, <2>1 DEF Ir, Tipos, TypeOK, TypeHilos, Hilos
    <2> QED
      BY <1>3, <2>1, <2>2 DEF Dicho, Firme
  <1>6. CASE InformarConsola(p)
    <2>1. /\ pc[p] = "informa" /\ Ir(p, "fin")
          /\ informado' = [informado EXCEPT ![p] = exit_status[p]]
      BY <1>6 DEF InformarConsola, En
    <2>2. \A q \in Pid : pc'[q] = IF q = p THEN "fin" ELSE pc[q]
      BY <1>4, <2>1 DEF Ir, Tipos, TypeOK, TypeHilos, Hilos
    <2>3. \A q \in Pid : informado'[q] = IF q = p THEN exit_status[p] ELSE informado[q]
      BY <2>1 DEF Tipos, TypeOK
    <2> QED
      BY <1>1, <1>3, <2>1, <2>2, <2>3 DEF Dicho, Firme
  <1>7. CASE process_instrucciones(p) \/ accept_new_process_in_READY(p) \/ add_pcb_to_queue(p)
    <2>1. PICK e : Ir(p, e) /\ e \notin {"informa", "fin"} /\ pc[p] # "fin" /\ UNCHANGED informado
      BY <1>7 DEF process_instrucciones, accept_new_process_in_READY, add_pcb_to_queue, En
    <2>2. \A q \in Pid : pc'[q] = IF q = p THEN e ELSE pc[q]
      BY <1>4, <2>1 DEF Ir, Tipos, TypeOK, TypeHilos, Hilos
    <2>3. Callado
      BY <2>1, <2>2 DEF Callado
    <2> QED
      BY <1>3, <2>3, CalladoConserva
  <1> QED
    BY <1>5, <1>6, <1>7 DEF Cliente

\* The threads that admit.
LEMMA AdmisionDicho ==
    ASSUME Tipos, Ciclo, SocketPropio, Dicho, NEW h \in Hilos, Admision(h)
    PROVE  Dicho'
  <1>0. ~AdmisionFallida(h) /\ ~SigueAdmision(h)
    BY DEF AdmisionFallida, SigueAdmision, En, SocketPropio
  <1>1. UNCHANGED <<exit_status, end_program_flag, informado>>
    BY <1>0 DEF Admision, get_actual_multiprog, LockNewToReady, UnlockNewToReady, can_move_NEW_to_READY,
           PedirTabla, move_NEW_to_READY, pcbVars
  <1>2. \A p \in Pid : Esta(p, "EXIT") => Esta(p, "EXIT")'
    <2>1. CASE move_NEW_to_READY(h)
      <3>1. pc[h] = "espera_ts" /\ elegido[h] \in Pid /\ Contains(cola["NEW"], elegido[h])
        BY <2>1 DEF move_NEW_to_READY, En, Tipos, Control, Elegidos, Ciclo, Admitiendo, Esta
      <3>2. PICK a \in {"READY", "EXIT"} : cola' = move_pcb_from_to(elegido[h], "NEW", a)
        BY <2>1 DEF move_NEW_to_READY
      <3>3. Movido(cola, cola', Colas, a, elegido[h])
        BY <3>1, <3>2, MoverCiclo, ColasDistintas DEF Ciclo, Tipos, TypeOK
      <3>4. ~Contains(cola["EXIT"], elegido[h])
        BY <3>1, UnaCola, ColasDistintas DEF Ciclo
      <3> QED
        BY <3>3, <3>4, ColasDistintas DEF Movido, Esta
    <2>2. CASE ~move_NEW_to_READY(h)
      BY <1>0, <2>2 DEF Admision, get_actual_multiprog, LockNewToReady, UnlockNewToReady, can_move_NEW_to_READY,
           PedirTabla, Esta
    <2> QED
      BY <2>1, <2>2
  <1>3. PICK e : Ir(h, e) /\ e \notin {"informa", "fin"} /\ pc[h] # "fin"
    <2>1. CASE get_actual_multiprog(h)
      <3>1. /\ Lectura[pc[h]].sigue \in {"acepta_exec", "acepta_block", "cuenta_exec", "cuenta_block"}
            /\ Ir(h, Lectura[pc[h]].sigue) /\ pc[h] # "fin"
        BY <2>1 DEF get_actual_multiprog, Lectura
      <3> QED
        BY <3>1
    <2>2. CASE ~get_actual_multiprog(h)
      BY <1>0, <2>2 DEF Admision, LockNewToReady, UnlockNewToReady, can_move_NEW_to_READY,
           PedirTabla, move_NEW_to_READY, En
    <2> QED
      BY <2>1, <2>2
  <1>4. \A g \in Hilos : pc'[g] = IF g = h THEN e ELSE pc[g]
    BY <1>3 DEF Ir, Tipos, TypeOK, TypeHilos
  <1>5. Firme /\ Callado
    BY <1>1, <1>2, <1>3, <1>4 DEF Firme, Callado, Hilos
  <1> QED
    BY <1>5, CalladoConserva

\* The core and its handlers: they change the status of the process that runs.
LEMMA CoreDicho ==
    ASSUME SinCarreras, SinSegmentos, Tipos, Cuentas, Ciclo, SocketPropio, Dicho, Manejador \/ NucleoInterno
    PROVE  Dicho'
  <1> USE DEF Reanuda, Sale, Termina
  <1>0. /\ ~execute_create_segment /\ ~execute_delete_segment /\ ~RespuestaNula
        /\ ~ReintentarSegmento /\ ~RecibirSegmento /\ ~compactar /\ ~FinCompactar /\ ~RecibirTabla
    BY DEF execute_create_segment, execute_delete_segment, Desalojo, SinSegmentos, RespuestaNula, SinCarreras,
           ReintentarSegmento, RecibirSegmento, compactar, FinCompactar, RecibirTabla, En, SocketPropio, Segmentos
  <1>1. \E e : Ir(core, e)
    BY <1>0 DEF Manejador, execute_wait, execute_signal, RecursoInvalido, execute_io, execute_yield,
           execute_exit, ProcesarArchivo, FopenEnUso, execute_fopen, FopenFallido, execute_fclose,
           execute_fseek, NucleoInterno, move_READY_to_EXEC, NadaQueDespachar, MoverDesalojado, FinExec
  <1>2. UNCHANGED <<end_program_flag, informado>>
    BY <1>0 DEF Manejador, execute_wait, execute_signal, RecursoInvalido, execute_io, execute_yield,
           execute_exit, ProcesarArchivo, FopenEnUso, execute_fopen, FopenFallido, execute_fclose,
           execute_fseek, NucleoInterno, move_READY_to_EXEC, NadaQueDespachar, MoverDesalojado, FinExec,
           quietos
  <1>3. core \notin Pid /\ core \in Hilos /\ Pid \subseteq Hilos
    BY KernelAssumption DEF Hilos
  <1>4. Callado
    BY <1>1, <1>2, <1>3 DEF Callado, Ir, Tipos, TypeOK, TypeHilos
  <1>5. \A p \in Pid : Esta(p, "EXIT") => exit_status'[p] = exit_status[p]
    <2>1. UNCHANGED exit_status \/ \E c : pc[core] = "cpu" /\ exit_status' = [exit_status EXCEPT ![Actual] = c]
      BY <1>0 DEF Manejador, execute_wait, execute_signal, RecursoInvalido, execute_io, execute_yield,
           execute_exit, ProcesarArchivo, FopenEnUso, execute_fopen, FopenFallido, execute_fclose,
           execute_fseek, NucleoInterno, move_READY_to_EXEC, NadaQueDespachar, MoverDesalojado, FinExec,
           Desalojo, En, pcbVars
    <2>2. pc[core] = "cpu" => ~Esta(Actual, "EXIT")
      BY FueraDeExit DEF Corre, Ejecuta
    <2> QED
      BY <2>1, <2>2 DEF Tipos, TypeOK, TypePcb
  <1>6. \A p \in Pid : Contains(cola["EXIT"], p) => Contains(cola'["EXIT"], p)
    <2>1. CASE \E r \in Recursos : execute_signal(r)
      BY <2>1, DespiertaEnPaz DEF execute_signal, DespertarPrimero, Despierta, TRecurso
    <2>2. CASE \E f \in Archivos : execute_fclose(f)
      BY <2>2, LiberarEfecto, DespiertaEnPaz DEF execute_fclose, TRecurso
    <2>3. CASE move_READY_to_EXEC
      <3>1. \E p : cola' = move_pcb_from_to(p, "READY", "EXEC")
        BY <2>3 DEF move_READY_to_EXEC
      <3> QED
        BY <3>1, MoverAparte, ColasDistintas DEF Tipos, TypeOK
    <2>4. CASE MoverDesalojado
      <3>1. pc[core] = "mueve" /\ Actual \in Pid /\ cola' = move_pcb_from_to(Actual, "EXEC", next_queue[Actual])
        BY <2>4 DEF MoverDesalojado, En, Tipos, Control, Elegidos, Ejecuta, Actual
      <3>2. Contains(cola["EXEC"], Actual) /\ next_queue[Actual] \in {"READY", "BLOCK", "EXIT"}
        BY <3>1 DEF Ciclo, Ejecutando, Corre, Ejecuta, Esta, Tipos, TypeOK, TypePcb
      <3>3. Movido(cola, cola', Colas, next_queue[Actual], Actual)
        BY <3>1, <3>2, MoverCiclo, ColasDistintas DEF Ciclo, Tipos, TypeOK
      <3>4. ~Contains(cola["EXIT"], Actual)
        BY <3>2, UnaCola, ColasDistintas DEF Ciclo
      <3> QED
        BY <3>3, <3>4, ColasDistintas DEF Movido
    <2>5. CASE ~(\E r \in Recursos : execute_signal(r)) /\ ~(\E f \in Archivos : execute_fclose(f))
               /\ ~move_READY_to_EXEC /\ ~MoverDesalojado
      BY <1>0, <2>5 DEF Manejador, execute_wait, RecursoInvalido, execute_io, execute_yield,
             execute_exit, ProcesarArchivo, FopenEnUso, execute_fopen, FopenFallido,
             execute_fseek, NucleoInterno, NadaQueDespachar, FinExec
    <2> QED
      BY <2>1, <2>2, <2>3, <2>4, <2>5
  <1>7. Firme
    BY <1>2, <1>5, <1>6 DEF Firme, Esta
  <1> QED
    BY <1>4, <1>7, CalladoConserva

\* EXIT, and the threads of I/O and files.
LEMMA RestoDicho ==
    ASSUME ~Apagado, Tipos, Cuentas, Ciclo, Dicho,
           \/ \E p \in Pid : Exit(p) \/ Tarea(p)
           \/ Apagar \/ UNCHANGED vars
    PROVE  Dicho'
  <1>0. ~Apagar
    BY DEF Apagar
  <1>1. UNCHANGED <<pc, informado, end_program_flag, exit_status>>
    BY <1>0 DEF Exit, ExitAvisar, ExitArchivo, ExitArchivosFin, ExitRecurso, ExitFin, Tarea, io, MirarCompactacion,
         AbandonarArchivo, EnviarFS, RecibirFS, ArchivoListo, vars, hilosVars, pcbVars
  <1>2. Callado
    BY <1>1 DEF Callado
  <1>3. cola'["EXIT"] = cola["EXIT"]
    <2>1. CASE \E p \in Pid : ExitArchivo(p) \/ ExitRecurso(p)
      BY <2>1, SoltarEfecto, DespiertaEnPaz
    <2>2. CASE \E p \in Pid : io(p) \/ ArchivoListo(p)
      <3>1. \E p \in Pid : cola' = move_pcb_from_to(p, "BLOCK", "READY")
        BY <2>2 DEF io, ArchivoListo
      <3> QED
        BY <3>1, MoverAparte, ColasDistintas DEF Tipos, TypeOK
    <2>3. CASE ~(\E p \in Pid : ExitArchivo(p) \/ ExitRecurso(p)) /\ ~(\E p \in Pid : io(p) \/ ArchivoListo(p))
      BY <1>0, <2>3 DEF Exit, ExitAvisar, ExitArchivosFin, ExitFin, Tarea, MirarCompactacion,
         AbandonarArchivo, EnviarFS, RecibirFS, vars
    <2> QED
      BY <2>1, <2>2, <2>3
  <1>4. Firme
    BY <1>1, <1>3 DEF Firme, Esta
  <1> QED
    BY <1>2, <1>4, CalladoConserva

\* At the start no console has been told anything.
LEMMA InitDicho == Init => Dicho
  BY KernelAssumption DEF Init, InitPcbs, InitHilos, Dicho, Hilos

\* The status a console is told is the one its process ended with: nothing writes the status
\* of a process that is in EXIT, where its client thread looks for it without the mutex.  The
\* operator does, if he ends the kernel, and so does an admission that read somebody else's
\* answer on the socket: those are the hypotheses.
THEOREM KernelConsolaInformada ==
    ASSUME SinCarreras, SinSegmentos, ~Apagado
    PROVE  Spec => []ConsolaInformada
  <1> DEFINE Todo == Invariante /\ SocketPropio /\ Dicho
  <1>1. Init => Todo
    BY InitInvariante, InitSocket, InitDicho
  <1>2. Todo /\ [Next]_vars => Todo'
    <2> SUFFICES ASSUME Todo, [Next]_vars PROVE Todo'
      OBVIOUS
    <2>1. Invariante' /\ SocketPropio'
      BY NextInvariante, NextSocket DEF Invariante
    <2>2. Dicho'
      BY ClienteDicho, AdmisionDicho, CoreDicho, RestoDicho DEF Invariante, Next
    <2> QED
      BY <2>1, <2>2
  <1>3. Todo => ConsolaInformada
    BY DEF Dicho, ConsolaInformada
  <1> QED
    BY <1>1, <1>2, <1>3, PTL DEF Spec
=============================================================================
