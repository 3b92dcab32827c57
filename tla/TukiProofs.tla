----------------------------- MODULE TukiProofs -----------------------------
(***************************************************************************)
(* Every copy of a segment table is current when it is used, and so is     *)
(* every physical address that a file operation waits with.  From that,    *)
(* every program runs as on a machine of its own: Tuki implements          *)
(* MaquinaAbs.                                                             *)
(***************************************************************************)
EXTENDS Tuki, Listas, FiniteSetTheorems, TLAPS

Vivos == {"READY", "EXEC", "BLOCK"}
Campos == {"estado", "pc", "registers", "tabla", "next_queue"}
CamposTarea == {"op", "fase", "orden", "fisica"}
CamposSegmento == {"pid", "id", "base", "size"}

\* Of the types no more than the updates need: what fields there are.
FormaPcb ==
    /\ DOMAIN pcb = Pid
    /\ \A p \in Pid : /\ DOMAIN pcb[p] = Campos
                      /\ pcb[p].next_queue \in {"READY", "BLOCK"}

FormaTarea ==
    /\ DOMAIN tarea = Pid
    /\ \A p \in Pid : tarea[p] # nada => DOMAIN tarea[p] = CamposTarea

FormaMemoria ==
    /\ \A s \in segs : DOMAIN s = CamposSegmento /\ s.pid \in Pid
    /\ tablas \in Seq(Pid) /\ SinRepetidos(tablas)

\* Memoria has a table for every live process, so a compaction sends it to its PCB,
\* and segments of live processes only, so a new process starts with none.
Conocidos ==
    \A p \in Pid : /\ pcb[p].estado \in Vivos => Contains(tablas, p)
                   /\ pcb[p].estado \notin Vivos => M!DeProceso(p) = {}

\* From COMPACTATION_REQUIRED to the retry the core is inside execute_create_segment:
\* a process is in EXEC and the CPU has nothing to run.
Turno ==
    mfase # "libre" =>
        /\ cfase = "desalojo"
        /\ desalojo.status = "SUCCESS" /\ desalojo.op = "CREATE_SEGMENT"
        /\ En("EXEC") # {}

\* The context of the CPU has its three fields while there is one.
FormaContexto == cfase \in {"fetch", "execute", "desalojo"} => DOMAIN contexto = {"pid", "pc", "tabla"}

Copias == FormaPcb /\ FormaContexto /\ FormaMemoria /\ Conocidos /\ Turno /\ TablaVigente

-----------------------------------------------------------------------------
(* Tables                                                                  *)

LEMMA TablaUnion ==
    ASSUME NEW A, NEW B
    PROVE  Tabla(A \cup B) = Tabla(A) \cup Tabla(B)
  BY DEF Tabla

\* The PCB with one field changed.
LEMMA CampoPcb ==
    ASSUME NEW b, DOMAIN b = Campos, NEW v
    PROVE  /\ DOMAIN [b EXCEPT !.estado = v] = Campos
           /\ [b EXCEPT !.estado = v].estado = v
           /\ [b EXCEPT !.estado = v].tabla = b.tabla
           /\ [b EXCEPT !.estado = v].next_queue = b.next_queue
           /\ DOMAIN [b EXCEPT !.tabla = v] = Campos
           /\ [b EXCEPT !.tabla = v].estado = b.estado
           /\ [b EXCEPT !.tabla = v].tabla = v
           /\ [b EXCEPT !.tabla = v].next_queue = b.next_queue
  BY DEF Campos

\* update_pcb changes neither the queue nor the table.
LEMMA ActualizaPcb ==
    ASSUME NEW p \in Pid, DOMAIN pcb[p] = Campos
    PROVE  /\ DOMAIN update_pcb(p) = Campos
           /\ update_pcb(p).estado = pcb[p].estado
           /\ update_pcb(p).tabla = pcb[p].tabla
           /\ update_pcb(p).next_queue = pcb[p].next_queue
  BY DEF Campos, update_pcb

\* The operators on sequences that Memoria brings along are the ones of this module.
LEMMA MismasListas ==
    ASSUME NEW s, NEW e
    PROVE  /\ M!Contains(s, e) = Contains(s, e)
           /\ M!RemoveFirst(s, e) = RemoveFirst(s, e)
  <1>1. M!Contains(s, e) = Contains(s, e)
    BY DEF M!Contains, Contains
  <1>2. M!RemoveFirst(s, e) = RemoveFirst(s, e)
    BY DEF M!RemoveFirst, RemoveFirst, M!RemoveAt, RemoveAt, M!SelectInSeq, SelectInSeq, M!Min, Min
  <1> QED
    BY <1>1, <1>2

LEMMA CrearEfecto ==
    ASSUME NEW q, M!create_segment(q)
    PROVE  /\ tablas' = tablas
           /\ segs \subseteq segs'
           /\ \A s \in segs' \ segs : s.pid = q.pid /\ DOMAIN s = CamposSegmento
           /\ respuesta' \in {"MAX_SEG_QUANTITY_REACHED", "COMPACTATION_REQUIRED"} => segs' = segs
           /\ respuesta' \in {"MAX_SEG_QUANTITY_REACHED", "SEGMENTO"} => mfase' = "libre"
           /\ respuesta' = "COMPACTATION_REQUIRED" =>
                mfase' = "compactar" /\ M!Huecos(ocupado, q.size) = {}
           /\ mfase # "compactando"
  <1>1. CASE M!Cardinality(M!DeProceso(q.pid)) + 1 >= CantSegmentos
    BY <1>1 DEF M!create_segment
  <1>2. CASE ~(M!Cardinality(M!DeProceso(q.pid)) + 1 >= CantSegmentos)
    <2>1. M!Asignar(q) /\ tablas' = tablas /\ mfase # "compactando"
      BY <1>2 DEF M!create_segment
    <2>2. CASE ~M!is_malloc_possible(q.size)
      BY <2>1, <2>2 DEF M!Asignar
    <2>3. CASE M!is_malloc_possible(q.size) /\ M!Huecos(ocupado, q.size) = {}
      BY <2>1, <2>3 DEF M!Asignar
    <2>4. CASE M!is_malloc_possible(q.size) /\ M!Huecos(ocupado, q.size) # {}
      <3>1. PICK b : /\ segs' = segs \cup {[pid |-> q.pid, id |-> q.id, base |-> b, size |-> q.size]}
                     /\ respuesta' = "SEGMENTO" /\ mfase' = "libre"
        BY <2>1, <2>4 DEF M!Asignar
      <3>2. PICK t : t = [pid |-> q.pid, id |-> q.id, base |-> b, size |-> q.size]
        OBVIOUS
      <3>3. DOMAIN t = CamposSegmento /\ t.pid = q.pid
        BY <3>2 DEF CamposSegmento
      <3> QED
        BY <2>1, <3>1, <3>2, <3>3
    <2> QED
      BY <2>2, <2>3, <2>4
  <1> QED
    BY <1>1, <1>2

-----------------------------------------------------------------------------
(* What the steps do to the state the invariants look at                   *)

\* The CPU runs on with the context it has, or stops with it.
CpuPaso ==
    /\ cfase \in {"fetch", "execute"}
    /\ UNCHANGED <<segs, tablas, mfase, pcb, tarea>>
    /\ cfase' \in {"fetch", "execute", "desalojo", "caida"}
    /\ contexto'.pid = contexto.pid /\ contexto'.tabla = contexto.tabla
    /\ DOMAIN contexto' = DOMAIN contexto

LEMMA CpuEfecto ==
    ASSUME FormaContexto, Fetch \/ Ciclo \/ Leer \/ Escribir
    PROVE  CpuPaso
  <1> USE DEF CpuPaso, FormaContexto, mvars, kvars
  <1>1. CASE Fetch
    BY <1>1 DEF Fetch, C!fetch
  <1>2. CASE Ciclo
    BY <1>2 DEF Ciclo, C!SET, C!Entregar, C!DesalojarPorFalla, C!Caer, C!stop_exec
  <1>3. CASE Leer
    BY <1>3 DEF Leer, C!MOV_IN, C!stop_exec
  <1>4. CASE Escribir
    BY <1>4 DEF Escribir, C!MOV_OUT, C!stop_exec, M!write_memory
  <1> QED
    BY <1>1, <1>2, <1>3, <1>4

LEMMA CpuCopias ==
    ASSUME Copias, CpuPaso
    PROVE  Copias'
  <1> USE DEF Copias, CpuPaso
  <1>1. FormaPcb'
    BY DEF FormaPcb
  <1>2. FormaContexto'
    BY DEF FormaContexto
  <1>3. FormaMemoria'
    BY DEF FormaMemoria
  <1>4. Conocidos'
    BY DEF Conocidos, M!DeProceso
  <1>5. Turno'
    BY DEF Turno
  <1>6. TablaVigente'
    BY DEF TablaVigente, M!DeProceso
  <1> QED
    BY <1>1, <1>2, <1>3, <1>4, <1>5, <1>6

\* The segments of p among those of S.
De(S, p) == {s \in S : s.pid = p}

LEMMA DeEs == \A p : M!DeProceso(p) = De(segs, p)
  BY DEF M!DeProceso, De

\* TablaVigente and Conocidos in the state after a step.
LEMMA Despues ==
    ASSUME \A p \in Pid : pcb'[p].estado \in Vivos => pcb'[p].tabla = Tabla(De(segs', p)),
           cfase' \in {"fetch", "execute"} => contexto'.tabla = Tabla(De(segs', contexto'.pid))
    PROVE  TablaVigente'
  BY DEF TablaVigente, M!DeProceso, De, Vivos, Tabla, segment_0

\* A step that gives p the PCB b and changes no segment of another process.
PasoDe(p, b) ==
    /\ pcb' = [pcb EXCEPT ![p] = b]
    /\ DOMAIN b = Campos /\ b.next_queue \in {"READY", "BLOCK"}
    /\ \A q \in Pid \ {p} : De(segs', q) = De(segs, q)
    /\ mfase # "compactando" /\ mfase' # "compactando"
    /\ \A q \in Pid \ {p} : Contains(tablas, q) => Contains(tablas', q)
    /\ b.estado \in Vivos => Contains(tablas', p) /\ b.tabla = Tabla(De(segs', p))
    /\ b.estado \notin Vivos => De(segs', p) = {}

\* The CPU keeps its context, gets the one of p, or has none.
ContextoDe(p, b) ==
    \/ UNCHANGED cvars /\ (cfase \in {"fetch", "execute"} => De(segs', contexto.pid) = De(segs, contexto.pid))
    \/ C!recibir_contexto(p, b.pc, b.registers, b.tabla) /\ b.estado \in Vivos
    \/ C!esperar_contexto

LEMMA PasoCopias ==
    ASSUME Copias, NEW p \in Pid, NEW b, PasoDe(p, b), ContextoDe(p, b), FormaMemoria', Turno'
    PROVE  Copias'
  <1> USE DEF Copias
  <1>a. \A q : M!DeProceso(q) = De(segs, q)
    BY DeEs
  <1>0. /\ DOMAIN pcb = Pid /\ \A q \in Pid : DOMAIN pcb[q] = Campos /\ pcb[q].next_queue \in {"READY", "BLOCK"}
        /\ DOMAIN pcb' = Pid /\ pcb'[p] = b /\ \A q \in Pid : q # p => pcb'[q] = pcb[q]
    BY DEF FormaPcb, PasoDe
  <1>1. FormaPcb'
    BY <1>0 DEF FormaPcb, PasoDe
  <1>2. FormaContexto'
    BY DEF FormaContexto, ContextoDe, cvars, C!recibir_contexto, C!esperar_contexto
  <1>4. Conocidos'
    <2> SUFFICES ASSUME NEW q \in Pid
                 PROVE  /\ pcb'[q].estado \in Vivos => Contains(tablas', q)
                        /\ pcb'[q].estado \notin Vivos => De(segs', q) = {}
      BY DEF Conocidos, M!DeProceso, De
    <2>1. CASE q = p
      BY <2>1, <1>0 DEF PasoDe
    <2>2. CASE q # p
      BY <2>2, <1>0, <1>a DEF PasoDe, Conocidos
    <2> QED
      BY <2>1, <2>2
  <1>6. TablaVigente'
    <2>1. ASSUME NEW q \in Pid, pcb'[q].estado \in Vivos PROVE pcb'[q].tabla = Tabla(De(segs', q))
      <3>1. CASE q = p
        BY <2>1, <3>1, <1>0 DEF PasoDe
      <3>2. CASE q # p
        BY <2>1, <3>2, <1>0, <1>a DEF PasoDe, TablaVigente, Vivos
      <3> QED
        BY <3>1, <3>2
    <2>2. ASSUME cfase' \in {"fetch", "execute"} PROVE contexto'.tabla = Tabla(De(segs', contexto'.pid))
      <3>1. CASE /\ UNCHANGED cvars
                 /\ cfase \in {"fetch", "execute"} => De(segs', contexto.pid) = De(segs, contexto.pid)
        BY <2>2, <3>1, <1>a DEF cvars, TablaVigente, PasoDe
      <3>2. CASE C!recibir_contexto(p, b.pc, b.registers, b.tabla) /\ b.estado \in Vivos
        BY <3>2 DEF C!recibir_contexto, PasoDe
      <3>3. CASE C!esperar_contexto
        BY <2>2, <3>3 DEF C!esperar_contexto
      <3> QED
        BY <3>1, <3>2, <3>3 DEF ContextoDe
    <2> QED
      BY <2>1, <2>2, Despues
  <1> QED
    BY <1>1, <1>2, <1>4, <1>6

LEMMA AdmitirCopias ==
    ASSUME Copias, NEW p \in Pid, Admitir(p)
    PROVE  Copias'
  <1> USE DEF Copias
  <1>0. /\ pcb[p].estado = "NEW"
        /\ mfase # "compactando" /\ ~Contains(tablas, p)
        /\ tablas' = Append(tablas, p)
        /\ UNCHANGED <<segs, mfase>> /\ UNCHANGED cvars
        /\ pcb' = [pcb EXCEPT ![p].estado = "READY", ![p].tabla = Tabla({})]
    BY MismasListas DEF Admitir, M!create_segments_table, M!EnServicio, En
  <1>1. PICK b : b = [pcb[p] EXCEPT !.estado = "READY", !.tabla = Tabla({})]
    OBVIOUS
  <1>2. DOMAIN pcb[p] = Campos /\ DOMAIN pcb = Pid /\ pcb[p].next_queue \in {"READY", "BLOCK"}
    BY DEF FormaPcb
  <1>3. /\ DOMAIN b = Campos /\ b.estado = "READY" /\ b.tabla = Tabla({})
        /\ b.next_queue = pcb[p].next_queue
    BY <1>1, <1>2 DEF Campos
  <1>4. pcb' = [pcb EXCEPT ![p] = b]
    BY <1>0, <1>1, <1>2
  <1>5. FormaMemoria' /\ \A x : Contains(tablas', x) <=> (Contains(tablas, x) \/ x = p)
    BY <1>0, DistintaAgrega DEF FormaMemoria
  <1>6. De(segs, p) = {}
    BY <1>0, DeEs DEF Conocidos, Vivos
  <1>7. PasoDe(p, b)
    BY <1>0, <1>2, <1>3, <1>4, <1>5, <1>6 DEF PasoDe, Vivos
  <1>8. Turno'
    BY <1>0, <1>2, <1>3, <1>4 DEF Turno, En, cvars
  <1> QED
    BY <1>0, <1>5, <1>7, <1>8, PasoCopias DEF ContextoDe

LEMMA DespacharCopias ==
    ASSUME Copias, NEW p \in Pid, Despachar(p)
    PROVE  Copias'
  <1> USE DEF Copias
  <1>0. /\ En("EXEC") = {} /\ pcb[p].estado = "READY"
        /\ pcb' = [pcb EXCEPT ![p].estado = "EXEC"]
        /\ send_pcb_to_cpu(p, pcb[p])
        /\ UNCHANGED <<segs, mfase, tablas>>
    BY DEF Despachar, En, mvars
  <1>1. mfase = "libre"
    BY <1>0 DEF Turno
  <1>2. PICK b : b = [pcb[p] EXCEPT !.estado = "EXEC"]
    OBVIOUS
  <1>3. DOMAIN pcb[p] = Campos /\ DOMAIN pcb = Pid /\ pcb[p].next_queue \in {"READY", "BLOCK"}
    BY DEF FormaPcb
  <1>4. /\ DOMAIN b = Campos /\ b.estado = "EXEC" /\ b.tabla = pcb[p].tabla
        /\ b.next_queue = pcb[p].next_queue /\ b.pc = pcb[p].pc /\ b.registers = pcb[p].registers
    BY <1>2, <1>3 DEF Campos
  <1>5. pcb' = [pcb EXCEPT ![p] = b]
    BY <1>0, <1>2, <1>3
  <1>6. FormaMemoria' /\ Turno'
    BY <1>0, <1>1 DEF FormaMemoria, Turno
  <1>7. b.tabla = Tabla(De(segs, p)) /\ Contains(tablas, p)
    BY <1>0, <1>1, <1>4, DeEs DEF TablaVigente, Conocidos, Vivos
  <1>8. PasoDe(p, b)
    BY <1>0, <1>1, <1>3, <1>4, <1>5, <1>7 DEF PasoDe, Vivos
  <1>9. ContextoDe(p, b)
    BY <1>0, <1>4 DEF ContextoDe, send_pcb_to_cpu, Vivos
  <1> QED
    BY <1>6, <1>8, <1>9, PasoCopias

\* EXIT takes its segments and its table away and leaves the rest.
LEMMA TerminarEfecto ==
    ASSUME Copias, NEW p \in Pid, Terminar(p)
    PROVE  /\ \E b : PasoDe(p, b)
           /\ FormaMemoria'
           /\ mfase' = mfase /\ segs' = segs \ De(segs, p)
  <1> USE DEF Copias
  <1>0. /\ mfase # "compactando" /\ Contains(tablas, p)
        /\ tablas' = RemoveFirst(tablas, p)
        /\ segs' = segs \ De(segs, p) /\ mfase' = mfase
        /\ pcb' = [pcb EXCEPT ![p] = [pcb_create EXCEPT !.estado = "EXIT"]]
    BY MismasListas, DeEs DEF Terminar, M!delete_segments_table, M!EnServicio
  <1>1. PICK b : b = [pcb_create EXCEPT !.estado = "EXIT"]
    OBVIOUS
  <1>2. DOMAIN b = Campos /\ b.estado = "EXIT" /\ b.next_queue = "READY"
    BY <1>1 DEF pcb_create, Campos
  <1>3. PICK n \in 1..Len(tablas) : tablas[n] = p /\ SinIndice(tablas, n, tablas')
    BY <1>0, QuitarIndice DEF FormaMemoria
  <1>4. SinRepetidos(tablas') /\ \A x : Contains(tablas', x) <=> (Contains(tablas, x) /\ x # p)
    BY <1>3, DistintaQuita DEF FormaMemoria
  <1>5. tablas' \in Seq(Pid)
    BY <1>0, QuitarTipo DEF FormaMemoria
  <1>6. FormaMemoria'
    BY <1>0, <1>4, <1>5 DEF FormaMemoria
  <1>7. /\ \A q \in Pid \ {p} : De(segs', q) = De(segs, q)
        /\ De(segs', p) = {}
    BY <1>0 DEF De
  <1>8. PasoDe(p, b)
    BY <1>0, <1>1, <1>2, <1>4, <1>7 DEF PasoDe, Vivos
  <1> QED
    BY <1>0, <1>6, <1>8

LEMMA FinCopias ==
    ASSUME Copias, NEW p \in Pid, execute_exit(p) \/ SinCpu(p) \/ SinMemoria(p)
    PROVE  Copias'
  <1>1. Terminar(p)
    BY DEF execute_exit, SinCpu, SinMemoria
  <1>2. PICK b : PasoDe(p, b)
    BY <1>1, TerminarEfecto
  <1>3. FormaMemoria' /\ mfase' = mfase
    BY <1>1, TerminarEfecto
  <1>4. mfase = "libre"
    BY DEF execute_exit, SinCpu, SinMemoria, Copias, Turno
  <1>5. ContextoDe(p, b)
    BY DEF execute_exit, SinCpu, SinMemoria, ContextoDe
  <1> QED
    BY <1>2, <1>3, <1>4, <1>5, PasoCopias DEF Turno

\* Another queue, with the table it had.
LEMMA SoltarCopias ==
    ASSUME Copias, NEW p \in Pid, pcb[p].estado = "EXEC", NEW cola \in {"READY", "BLOCK"},
           Soltar(p, update_pcb(p), cola), UNCHANGED <<segs, tablas>>, mfase # "compactando",
           mfase' = "libre"
    PROVE  Copias'
  <1> USE DEF Copias
  <1>1. PICK b : b = [update_pcb(p) EXCEPT !.estado = cola, !.next_queue = cola]
    OBVIOUS
  <1>2. DOMAIN update_pcb(p) = Campos /\ update_pcb(p).tabla = pcb[p].tabla
    BY ActualizaPcb DEF FormaPcb
  <1>3. DOMAIN b = Campos /\ b.estado = cola /\ b.next_queue = cola /\ b.tabla = pcb[p].tabla
    BY <1>1, <1>2 DEF Campos
  <1>4. b.tabla = Tabla(De(segs, p)) /\ Contains(tablas, p)
    BY <1>3, DeEs DEF TablaVigente, Conocidos, Vivos
  <1>5. PasoDe(p, b)
    BY <1>1, <1>3, <1>4 DEF PasoDe, Soltar, Vivos
  <1>6. FormaMemoria' /\ Turno'
    BY DEF FormaMemoria, Turno
  <1> QED
    BY <1>5, <1>6, PasoCopias DEF Soltar, ContextoDe

LEMMA SalirCopias ==
    ASSUME Copias, NEW p \in Pid, execute_yield(p) \/ execute_file(p)
    PROVE  Copias'
  <1>1. /\ pcb[p].estado = "EXEC" /\ mfase = "libre"
        /\ UNCHANGED <<segs, tablas, mfase>>
    BY DEF execute_yield, execute_file, Recibido, En, Copias, Turno, mvars
  <1>2. PICK cola \in {"READY", "BLOCK"} : Soltar(p, update_pcb(p), cola)
    BY DEF execute_yield, execute_file
  <1> QED
    BY <1>1, <1>2, SoltarCopias

\* EXEC goes on with a PCB that has the table memoria has now.
LEMMA SeguirCopias ==
    ASSUME Copias, NEW p \in Pid, NEW b, Seguir(p, b), cfase = "desalojo",
           DOMAIN b = Campos, b.estado = "EXEC", b.next_queue \in {"READY", "BLOCK"},
           \A q \in Pid \ {p} : De(segs', q) = De(segs, q),
           b.tabla = Tabla(De(segs', p)), Contains(tablas, p), tablas' = tablas,
           mfase # "compactando", mfase' = "libre", FormaMemoria'
    PROVE  Copias'
  <1>1. PasoDe(p, b)
    BY DEF PasoDe, Seguir, Vivos
  <1>2. ContextoDe(p, b)
    BY DEF ContextoDe, Seguir, send_pcb_to_cpu, Vivos
  <1> QED
    BY <1>1, <1>2, PasoCopias DEF Turno

LEMMA BorrarCopias ==
    ASSUME Copias, NEW p \in Pid, execute_delete_segment(p)
    PROVE  Copias'
  <1> USE DEF Copias
  <1>1. /\ pcb[p].estado = "EXEC" /\ cfase = "desalojo" /\ mfase = "libre"
        /\ tablas' = tablas /\ mfase' = mfase
    BY DEF execute_delete_segment, Recibido, En, M!delete_segment
  <1>2. PICK s : segs' = IF s.pid = p THEN segs \ {s} ELSE segs
    BY DEF execute_delete_segment, M!delete_segment
  <1>3. PICK b : b = [update_pcb(p) EXCEPT !.tabla = Tabla(De(segs', p))]
    OBVIOUS
  <1>4. Seguir(p, b)
    BY <1>3 DEF execute_delete_segment, De
  <1>5. /\ DOMAIN update_pcb(p) = Campos /\ update_pcb(p).estado = "EXEC"
        /\ update_pcb(p).next_queue \in {"READY", "BLOCK"}
    BY <1>1, ActualizaPcb DEF FormaPcb
  <1>6. /\ DOMAIN b = Campos /\ b.estado = "EXEC" /\ b.tabla = Tabla(De(segs', p))
        /\ b.next_queue \in {"READY", "BLOCK"}
    BY <1>3, <1>5, CampoPcb
  <1>7. \A q \in Pid \ {p} : De(segs', q) = De(segs, q)
    BY <1>2 DEF De
  <1>8. FormaMemoria'
    BY <1>1, <1>2 DEF FormaMemoria
  <1>9. Contains(tablas, p)
    BY <1>1 DEF Conocidos, Vivos
  <1> QED
    BY <1>1, <1>4, <1>6, <1>7, <1>8, <1>9, SeguirCopias

LEMMA CrearCopias ==
    ASSUME Copias, NEW p \in Pid, execute_create_segment(p)
    PROVE  Copias'
  <1> USE DEF Copias
  <1>1. PICK q : q.pid = p /\ M!create_segment(q)
    BY DEF execute_create_segment
  <1>2. /\ pcb[p].estado = "EXEC" /\ cfase = "desalojo"
        /\ desalojo.status = "SUCCESS" /\ desalojo.op = "CREATE_SEGMENT"
    BY DEF execute_create_segment, Recibido, En
  <1>3. /\ tablas' = tablas /\ segs \subseteq segs' /\ mfase # "compactando"
        /\ \A s \in segs' \ segs : s.pid = p /\ DOMAIN s = CamposSegmento
    BY <1>1, CrearEfecto
  <1>4. /\ \A r \in Pid \ {p} : De(segs', r) = De(segs, r)
        /\ De(segs', p) = De(segs, p) \cup De(segs' \ segs, p)
    BY <1>3 DEF De
  <1>5. FormaMemoria'
    BY <1>3 DEF FormaMemoria
  <1>6. Contains(tablas, p) /\ pcb[p].tabla = Tabla(De(segs, p))
    BY <1>2, <1>3, DeEs DEF Conocidos, Vivos, TablaVigente
  <1>7. /\ DOMAIN update_pcb(p) = Campos /\ update_pcb(p).estado = "EXEC"
        /\ update_pcb(p).tabla = pcb[p].tabla
        /\ update_pcb(p).next_queue \in {"READY", "BLOCK"}
    BY <1>2, ActualizaPcb DEF FormaPcb
  <1>8. CASE respuesta' = "SEGMENTO"
    <2>1. PICK b : b = ConSegmento(p, update_pcb(p))
      OBVIOUS
    <2>2. Seguir(p, b) /\ mfase' = "libre"
      BY <1>1, <1>8, <2>1, CrearEfecto DEF execute_create_segment
    <2>3. b = [update_pcb(p) EXCEPT !.tabla = update_pcb(p).tabla \cup Tabla(De(segs' \ segs, p))]
      BY <2>1, <1>7 DEF ConSegmento, De
    <2>4. /\ DOMAIN b = Campos /\ b.estado = "EXEC" /\ b.next_queue \in {"READY", "BLOCK"}
          /\ b.tabla = update_pcb(p).tabla \cup Tabla(De(segs' \ segs, p))
      BY <2>3, <1>7, CampoPcb
    <2>5. b.tabla = Tabla(De(segs', p))
      <3>1. Tabla(De(segs, p) \cup De(segs' \ segs, p)) = Tabla(De(segs, p)) \cup Tabla(De(segs' \ segs, p))
        BY TablaUnion
      <3>2. update_pcb(p).tabla = Tabla(De(segs, p))
        BY <1>6, <1>7
      <3> QED
        BY ONLY <2>4, <1>4, <3>1, <3>2
    <2> QED
      BY <1>2, <1>3, <1>4, <1>5, <1>6, <2>2, <2>4, <2>5, SeguirCopias
  <1>9. CASE respuesta' = "MAX_SEG_QUANTITY_REACHED"
    <2>1. segs' = segs /\ mfase' = "libre"
      BY <1>1, <1>9, CrearEfecto
    <2>2. Soltar(p, update_pcb(p), pcb[p].next_queue)
      BY <1>9 DEF execute_create_segment
    <2>3. pcb[p].next_queue \in {"READY", "BLOCK"}
      BY DEF FormaPcb
    <2> QED
      BY <1>2, <1>3, <2>1, <2>2, <2>3, SoltarCopias
  <1>10. CASE respuesta' = "COMPACTATION_REQUIRED"
    <2>1. segs' = segs /\ mfase' = "compactar"
      BY <1>1, <1>10, CrearEfecto
    <2>2. pcb' = [pcb EXCEPT ![p] = update_pcb(p)] /\ UNCHANGED cvars
      BY <1>10 DEF execute_create_segment
    <2>3. PasoDe(p, update_pcb(p))
      BY <1>3, <1>6, <1>7, <2>1, <2>2 DEF PasoDe, Vivos
    <2>4. p \in En("EXEC")'
      BY <2>2, <1>7 DEF En, FormaPcb
    <2>5. Turno'
      BY <1>2, <2>2, <2>4 DEF Turno, cvars
    <2> QED
      BY <1>5, <2>1, <2>2, <2>3, <2>5, PasoCopias DEF ContextoDe
  <1> QED
    BY <1>8, <1>9, <1>10 DEF execute_create_segment

\* The thread of a file operation moves its process from BLOCK to READY.
LEMMA ArchivoCopias ==
    ASSUME Copias, NEW p \in Pid, TomarFS(p) \/ (TerminarFS(p) /\ pcb[p].estado = "BLOCK")
    PROVE  Copias'
  <1> USE DEF Copias
  <1>1. CASE TomarFS(p)
    <2>1. UNCHANGED <<segs, tablas, mfase, pcb>> /\ UNCHANGED cvars
      BY <1>1 DEF TomarFS, mvars
    <2> QED
      BY <2>1 DEF FormaPcb, FormaContexto, FormaMemoria, Conocidos, Turno, TablaVigente, M!DeProceso, En, cvars
  <1>2. CASE TerminarFS(p) /\ pcb[p].estado = "BLOCK"
    <2>1. /\ UNCHANGED <<segs, tablas, mfase>> /\ UNCHANGED cvars
          /\ pcb' = [pcb EXCEPT ![p].estado = "READY"]
      BY <1>2 DEF TerminarFS, mvars, M!write_memory
    <2>2. /\ DOMAIN pcb' = Pid
          /\ \A q \in Pid : /\ DOMAIN pcb'[q] = Campos /\ pcb'[q].tabla = pcb[q].tabla
                            /\ pcb'[q].next_queue = pcb[q].next_queue
                            /\ pcb'[q].estado = IF q = p THEN "READY" ELSE pcb[q].estado
      BY <2>1 DEF FormaPcb, Campos
    <2>3. FormaPcb' /\ FormaContexto' /\ FormaMemoria'
      BY <2>1, <2>2 DEF FormaPcb, FormaContexto, FormaMemoria, cvars
    <2>4. Conocidos'
      BY <1>2, <2>1, <2>2 DEF Conocidos, Vivos, M!DeProceso
    <2>5. Turno'
      BY <1>2, <2>1, <2>2 DEF Turno, En, cvars
    <2>6. TablaVigente'
      BY <1>2, <2>1, <2>2 DEF TablaVigente, M!DeProceso, cvars
    <2> QED
      BY <2>3, <2>4, <2>5, <2>6
  <1> QED
    BY <1>1, <1>2

-----------------------------------------------------------------------------
(* A compaction                                                            *)

LEMMA CompactarCopias ==
    ASSUME Copias, Compactar
    PROVE  Copias'
  <1> USE DEF Copias
  <1>1. /\ mfase = "compactar" /\ mfase' = "compactando"
        /\ UNCHANGED <<segs, tablas, pcb>> /\ UNCHANGED cvars
    BY DEF Compactar, M!EmpezarCompactacion, kvars
  <1> QED
    BY <1>1 DEF FormaPcb, FormaContexto, FormaMemoria, Conocidos, Turno, TablaVigente, M!DeProceso, En, cvars

\* A turn of the loop moves a segment and leaves it to its process.
LEMMA MoverCopias ==
    ASSUME Copias, Mover
    PROVE  Copias'
  <1> USE DEF Copias
  <1>1. /\ mfase = "compactando" /\ UNCHANGED <<mfase, tablas, pcb>> /\ UNCHANGED cvars
    BY DEF Mover, M!compact_memory, kvars
  <1>2. PICK s \in segs : \E b : segs' = (segs \ {s}) \cup {[s EXCEPT !.base = b]}
    BY DEF Mover, M!compact_memory
  <1>3. PICK t : (\E b : t = [s EXCEPT !.base = b]) /\ segs' = (segs \ {s}) \cup {t}
    BY <1>2
  <1>4. DOMAIN s = CamposSegmento /\ s.pid \in Pid
    BY DEF FormaMemoria
  <1>5. DOMAIN t = CamposSegmento /\ t.pid = s.pid
    BY <1>3, <1>4 DEF CamposSegmento
  <1>6. FormaMemoria'
    BY <1>1, <1>3, <1>4, <1>5 DEF FormaMemoria
  <1>7. Conocidos'
    <2>1. \A p \in Pid : De(segs, p) = {} => De(segs', p) = {}
      BY <1>3, <1>5 DEF De
    <2> QED
      BY <1>1, <2>1 DEF Conocidos, M!DeProceso, De
  <1>8. FormaPcb' /\ FormaContexto' /\ Turno' /\ TablaVigente'
    BY <1>1 DEF FormaPcb, FormaContexto, Turno, TablaVigente, En, cvars
  <1> QED
    BY <1>6, <1>7, <1>8

\* actualizar_tablas reaches every live process.
LEMMA FinCompactarCopias ==
    ASSUME Copias, FinCompactar
    PROVE  Copias'
  <1> USE DEF Copias
  <1>1. /\ mfase = "compactando" /\ mfase' = "reintento"
        /\ UNCHANGED <<segs, tablas>> /\ UNCHANGED cvars
        /\ pcb' = actualizar_tablas
    BY DEF FinCompactar, M!FinCompactacion
  <1>2. \A p \in Pid : /\ DOMAIN pcb'[p] = Campos /\ pcb'[p].estado = pcb[p].estado
                       /\ pcb'[p].next_queue = pcb[p].next_queue
                       /\ Contains(tablas, p) => pcb'[p].tabla = Tabla(M!DeProceso(p))
    <2> TAKE p \in Pid
    <2>1. DOMAIN pcb[p] = Campos
      BY DEF FormaPcb
    <2>2. pcb'[p] = IF Contains(tablas, p) THEN [pcb[p] EXCEPT !.tabla = Tabla(M!DeProceso(p))] ELSE pcb[p]
      BY <1>1 DEF actualizar_tablas
    <2> QED
      BY <2>1, <2>2, CampoPcb
  <1>3. FormaPcb'
    BY <1>1, <1>2 DEF FormaPcb, actualizar_tablas
  <1>4. FormaContexto' /\ FormaMemoria'
    BY <1>1 DEF FormaContexto, FormaMemoria, cvars
  <1>5. Conocidos'
    BY <1>1, <1>2 DEF Conocidos, M!DeProceso
  <1>6. Turno'
    BY <1>1, <1>2 DEF Turno, En, cvars
  <1>7. TablaVigente'
    <2>1. \A p \in Pid : pcb'[p].estado \in Vivos => pcb'[p].tabla = Tabla(De(segs', p))
      BY <1>1, <1>2, DeEs DEF Conocidos
    <2>2. cfase' \notin {"fetch", "execute"}
      BY <1>1 DEF Turno, cvars
    <2> QED
      BY <2>1, <2>2, Despues
  <1> QED
    BY <1>3, <1>4, <1>5, <1>6, <1>7

\* A process whose file operation a thread has is in BLOCK until that thread moves it.
Bloqueados == \A p \in Pid : tarea[p] # nada => pcb[p].estado = "BLOCK"

\* A blocked process, its operation and its segments are left alone by all but its thread.
LEMMA Ajenos ==
    ASSUME Copias, FormaTarea, [Next]_vars, NEW q \in Pid, pcb[q].estado = "BLOCK"
    PROVE  \/ /\ pcb'[q].estado = "BLOCK" /\ tarea'[q] = tarea[q]
              /\ mfase # "compactando" => De(segs', q) = De(segs, q)
           \/ TomarFS(q) \/ TerminarFS(q)
  <1> USE DEF Copias
  <1>0. /\ DOMAIN pcb = Pid /\ \A p \in Pid : DOMAIN pcb[p] = Campos
        /\ DOMAIN tarea = Pid
    BY DEF FormaPcb, FormaTarea
  <1>1. CASE UNCHANGED vars
    BY <1>1 DEF vars, mvars, kvars
  <1>2. CASE Fetch \/ Ciclo \/ Leer \/ Escribir
    BY <1>2, CpuEfecto DEF CpuPaso
  <1>3. CASE Compactar \/ Mover
    BY <1>3 DEF Compactar, Mover, M!EmpezarCompactacion, M!compact_memory, kvars
  <1>4. CASE FinCompactar
    <2>1. pcb'[q] = IF Contains(tablas, q) THEN [pcb[q] EXCEPT !.tabla = Tabla(M!DeProceso(q))] ELSE pcb[q]
      BY <1>4 DEF FinCompactar, actualizar_tablas
    <2>2. pcb'[q].estado = "BLOCK"
      BY <2>1, <1>0, CampoPcb
    <2> QED
      BY <2>2, <1>4 DEF FinCompactar, M!FinCompactacion
  <1>5. ASSUME NEW p \in Pid, p # q, PasoDe(p, pcb'[p]), tarea' = tarea
        PROVE  /\ pcb'[q].estado = "BLOCK" /\ tarea'[q] = tarea[q]
               /\ De(segs', q) = De(segs, q)
    BY <1>0, <1>5 DEF PasoDe
  <1>6. ASSUME NEW p \in Pid, Admitir(p)
        PROVE  /\ pcb'[q].estado = "BLOCK" /\ tarea'[q] = tarea[q]
               /\ De(segs', q) = De(segs, q)
    BY <1>0, <1>6 DEF Admitir, M!create_segments_table, En
  <1>7. ASSUME NEW p \in Pid, Despachar(p)
        PROVE  /\ pcb'[q].estado = "BLOCK" /\ tarea'[q] = tarea[q]
               /\ De(segs', q) = De(segs, q)
    BY <1>0, <1>7 DEF Despachar, En, mvars
  <1>8. ASSUME NEW p \in Pid, execute_exit(p) \/ SinCpu(p) \/ SinMemoria(p)
        PROVE  /\ pcb'[q].estado = "BLOCK" /\ tarea'[q] = tarea[q]
               /\ De(segs', q) = De(segs, q)
    <2>1. pcb[p].estado = "EXEC" /\ Terminar(p) /\ tarea' = tarea
      BY <1>8 DEF execute_exit, SinCpu, SinMemoria, En, Recibido
    <2>2. p # q
      BY <2>1
    <2>3. PICK b : PasoDe(p, b)
      BY <2>1, TerminarEfecto
    <2> QED
      BY <2>1, <2>2, <2>3, <1>0 DEF PasoDe
  <1>9. ASSUME NEW p \in Pid, execute_yield(p) \/ execute_file(p)
        PROVE  /\ pcb'[q].estado = "BLOCK" /\ tarea'[q] = tarea[q]
               /\ De(segs', q) = De(segs, q)
    <2>1. pcb[p].estado = "EXEC"
      BY <1>9 DEF execute_yield, execute_file, En, Recibido
    <2>2. p # q
      BY <2>1
    <2>3. segs' = segs /\ tarea'[q] = tarea[q]
      BY <1>0, <1>9, <2>2 DEF execute_yield, execute_file, mvars
    <2>4. pcb'[q] = pcb[q]
      BY <1>0, <1>9, <2>2 DEF execute_yield, execute_file, Soltar
    <2> QED
      BY <2>3, <2>4
  <1>10. ASSUME NEW p \in Pid, execute_create_segment(p)
         PROVE  /\ pcb'[q].estado = "BLOCK" /\ tarea'[q] = tarea[q]
                /\ De(segs', q) = De(segs, q)
    <2>1. pcb[p].estado = "EXEC" /\ tarea' = tarea
      BY <1>10 DEF execute_create_segment, En, Recibido
    <2>2. p # q
      BY <2>1
    <2>3. pcb'[q] = pcb[q]
      BY <1>0, <1>10, <2>2 DEF execute_create_segment, Soltar, Seguir
    <2>4. PICK r : r.pid = p /\ M!create_segment(r)
      BY <1>10 DEF execute_create_segment
    <2>5. /\ segs \subseteq segs' /\ \A s \in segs' \ segs : s.pid = p
      BY <2>4, CrearEfecto
    <2>6. De(segs', q) = De(segs, q)
      BY <2>2, <2>5 DEF De
    <2> QED
      BY <2>1, <2>3, <2>6
  <1>11. ASSUME NEW p \in Pid, execute_delete_segment(p)
         PROVE  /\ pcb'[q].estado = "BLOCK" /\ tarea'[q] = tarea[q]
                /\ De(segs', q) = De(segs, q)
    <2>1. pcb[p].estado = "EXEC" /\ tarea' = tarea
      BY <1>11 DEF execute_delete_segment, En, Recibido
    <2>2. p # q
      BY <2>1
    <2>3. pcb'[q] = pcb[q]
      BY <1>0, <1>11, <2>2 DEF execute_delete_segment, Seguir
    <2>4. PICK s : segs' = IF s.pid = p THEN segs \ {s} ELSE segs
      BY <1>11 DEF execute_delete_segment, M!delete_segment
    <2>5. De(segs', q) = De(segs, q)
      BY <2>2, <2>4 DEF De
    <2> QED
      BY <2>1, <2>3, <2>5
  <1>12. ASSUME NEW p \in Pid, p # q, TomarFS(p) \/ TerminarFS(p)
         PROVE  /\ pcb'[q].estado = "BLOCK" /\ tarea'[q] = tarea[q]
                /\ De(segs', q) = De(segs, q)
    BY <1>0, <1>12 DEF TomarFS, TerminarFS, mvars, M!write_memory
  <1> QED
    BY <1>1, <1>2, <1>3, <1>4, <1>6, <1>7, <1>8, <1>9, <1>10, <1>11, <1>12 DEF Next

\* Only execute_file starts a file operation.
LEMMA Nuevas ==
    ASSUME FormaContexto, FormaTarea, [Next]_vars, NEW q \in Pid, tarea[q] = nada
    PROVE  tarea'[q] = nada \/ execute_file(q)
  <1>0. DOMAIN tarea = Pid
    BY DEF FormaTarea
  <1>1. CASE UNCHANGED vars
    BY <1>1 DEF vars, kvars
  <1>2. CASE Fetch \/ Ciclo \/ Leer \/ Escribir
    BY <1>2, CpuEfecto DEF CpuPaso
  <1>3. CASE Compactar \/ Mover \/ FinCompactar
    BY <1>3 DEF Compactar, Mover, FinCompactar, kvars
  <1>4. ASSUME NEW p \in Pid, \/ Admitir(p) \/ Despachar(p) \/ SinCpu(p)
                              \/ execute_yield(p) \/ execute_exit(p)
                              \/ execute_create_segment(p) \/ SinMemoria(p) \/ execute_delete_segment(p)
        PROVE  tarea' = tarea
    BY <1>4 DEF Admitir, Despachar, SinCpu, execute_yield, execute_exit,
         execute_create_segment, SinMemoria, execute_delete_segment
  <1>5. ASSUME NEW p \in Pid, TomarFS(p) \/ TerminarFS(p) \/ execute_file(p)
        PROVE  tarea'[q] = nada \/ execute_file(q)
    BY <1>0, <1>5 DEF TomarFS, TerminarFS, execute_file
  <1> QED
    BY <1>1, <1>2, <1>3, <1>4, <1>5 DEF Next

Tareas == FormaTarea /\ Bloqueados

LEMMA NextTareas ==
    ASSUME Copias, Tareas, [Next]_vars
    PROVE  Tareas'
  <1> USE DEF Tareas
  <1>1. DOMAIN tarea' = Pid
    BY CpuEfecto DEF Copias, FormaTarea, CpuPaso, Next, vars, kvars, Compactar, Mover, FinCompactar,
         Admitir, Despachar, SinCpu, execute_yield, execute_exit, execute_create_segment, SinMemoria, execute_delete_segment,
         TomarFS, TerminarFS, execute_file
  <1>2. ASSUME NEW q \in Pid, tarea'[q] # nada
        PROVE  DOMAIN tarea'[q] = CamposTarea /\ pcb'[q].estado = "BLOCK"
    <2>1. CASE tarea[q] = nada
      <3>1. execute_file(q)
        BY <1>2, <2>1, Nuevas DEF Copias
      <3>2. DOMAIN tarea'[q] = CamposTarea
        BY <3>1 DEF execute_file, FormaTarea, CamposTarea
      <3>3. pcb'[q] = [update_pcb(q) EXCEPT !.estado = "BLOCK", !.next_queue = "BLOCK"]
        BY <3>1 DEF execute_file, Soltar, Copias, FormaPcb
      <3>4. DOMAIN update_pcb(q) = Campos
        BY ActualizaPcb DEF Copias, FormaPcb
      <3> QED
        BY <3>2, <3>3, <3>4 DEF Campos
    <2>2. CASE tarea[q] # nada
      <3>1. pcb[q].estado = "BLOCK" /\ DOMAIN tarea[q] = CamposTarea /\ DOMAIN tarea = Pid
        BY <2>2 DEF Bloqueados, FormaTarea
      <3>2. CASE TomarFS(q)
        BY <3>1, <3>2 DEF TomarFS, CamposTarea
      <3>3. CASE TerminarFS(q)
        BY <3>1, <3>3, <1>2 DEF TerminarFS
      <3> QED
        BY <3>1, <3>2, <3>3, Ajenos
    <2> QED
      BY <2>1, <2>2
  <1> QED
    BY <1>1, <1>2 DEF FormaTarea, Bloqueados

LEMMA NextCopias ==
    ASSUME Copias, Tareas, [Next]_vars
    PROVE  Copias'
  <1>1. CASE UNCHANGED vars
    BY <1>1 DEF vars, mvars, cvars, kvars, Copias, FormaPcb, FormaContexto, FormaMemoria, Conocidos, Turno,
         TablaVigente, M!DeProceso, En
  <1>2. CASE Fetch \/ Ciclo \/ Leer \/ Escribir
    BY <1>2, CpuEfecto, CpuCopias DEF Copias
  <1>3. CASE Compactar \/ Mover \/ FinCompactar
    BY <1>3, CompactarCopias, MoverCopias, FinCompactarCopias
  <1>4. ASSUME NEW p \in Pid, \/ Admitir(p) \/ Despachar(p) \/ SinCpu(p)
                              \/ execute_yield(p) \/ execute_exit(p) \/ execute_file(p)
                              \/ execute_create_segment(p) \/ SinMemoria(p) \/ execute_delete_segment(p)
        PROVE  Copias'
    BY <1>4, AdmitirCopias, DespacharCopias, FinCopias, SalirCopias, CrearCopias, BorrarCopias
  <1>5. ASSUME NEW p \in Pid, TomarFS(p) \/ TerminarFS(p)
        PROVE  Copias'
    BY <1>5, ArchivoCopias DEF TerminarFS, EnFS, Tareas, Bloqueados
  <1> QED
    BY <1>1, <1>2, <1>3, <1>4, <1>5 DEF Next

LEMMA InitCopias == Init => Copias /\ Tareas
  <1> SUFFICES ASSUME Init PROVE Copias /\ Tareas
    OBVIOUS
  <1>1. /\ pcb = [p \in Pid |-> pcb_create] /\ tarea = [p \in Pid |-> nada]
        /\ tablas = <<>> /\ segs = {} /\ mfase = "libre" /\ cfase = "espera"
    BY DEF Init, M!Init, C!Init
  <1>2. DOMAIN pcb_create = Campos /\ pcb_create.estado = "NEW" /\ pcb_create.next_queue = "READY"
    BY DEF pcb_create, Campos
  <1>3. FormaPcb /\ FormaContexto /\ Turno /\ TablaVigente /\ Tareas
    BY <1>1, <1>2 DEF FormaPcb, FormaContexto, Turno, TablaVigente, Tareas, FormaTarea, Bloqueados
  <1>4. FormaMemoria /\ Conocidos
    BY <1>1, <1>2 DEF FormaMemoria, Conocidos, SinRepetidos, Vivos, M!DeProceso
  <1> QED
    BY <1>3, <1>4 DEF Copias

\* For every program, memory and number of processes: when a process may be dispatched
\* the table of its PCB is the one of memoria, and the CPU translates with no other,
\* through segments created and deleted, compactions, ends and failures of the CPU.
THEOREM TukiTablaVigente == Spec => []TablaVigente
  <1>1. Init => Copias /\ Tareas
    BY InitCopias
  <1>2. Copias /\ Tareas /\ [Next]_vars => (Copias /\ Tareas)'
    BY NextCopias, NextTareas
  <1>3. Copias => TablaVigente
    BY DEF Copias
  <1> QED
    BY <1>1, <1>2, <1>3, PTL DEF Spec

-----------------------------------------------------------------------------
(* Physical addresses                                                      *)

ConContexto == {"fetch", "execute", "desalojo"}

\* The context is the one of the process in EXEC.
UnoEnCpu ==
    cfase \in ConContexto => \A p \in Pid : pcb[p].estado = "EXEC" => p = contexto.pid

\* No compaction is asked for, begun or finished while a file operation is pending.
SinPendientes == mfase # "libre" => \A p \in Pid : tarea[p] = nada

\* f is the physical address of the logical one dir, for the segments S of a process.
Apunta(f, dir, S) == f = C!get_direccion_fisica(dir, Tabla(S))

\* The address that is on its way to the kernel.
Traducida ==
    cfase = "desalojo" /\ desalojo.op \in {"F_READ", "F_WRITE"} =>
        Apunta(desalojo.fisica, desalojo.motivo.dir, De(segs, contexto.pid))

\* The ones that threads have.
Guardadas ==
    \A p \in Pid : tarea[p] # nada => Apunta(tarea[p].fisica, tarea[p].orden.dir, De(segs, p))

Direccionado == UnoEnCpu /\ SinPendientes /\ Traducida /\ Guardadas

\* Who runs after a step ran before it, unless it was dispatched.
LEMMA QuienEjecuta ==
    ASSUME Copias, Tareas, [Next]_vars, UnoEnCpu
    PROVE  UnoEnCpu'
  <1> USE DEF Copias
  <1>0. DOMAIN pcb = Pid /\ \A p \in Pid : DOMAIN pcb[p] = Campos
    BY DEF FormaPcb
  <1>1. CASE UNCHANGED vars
    BY <1>1 DEF vars, cvars, kvars, UnoEnCpu
  <1>2. CASE Fetch \/ Ciclo \/ Leer \/ Escribir
    BY <1>2, CpuEfecto DEF CpuPaso, UnoEnCpu, ConContexto
  <1>3. CASE Compactar \/ Mover
    BY <1>3 DEF Compactar, Mover, kvars, cvars, UnoEnCpu
  <1>4. CASE FinCompactar
    <2>1. \A p \in Pid : pcb'[p].estado = pcb[p].estado
      <3> TAKE p \in Pid
      <3>1. pcb'[p] = IF Contains(tablas, p) THEN [pcb[p] EXCEPT !.tabla = Tabla(M!DeProceso(p))] ELSE pcb[p]
        BY <1>4 DEF FinCompactar, actualizar_tablas
      <3> QED
        BY <3>1, <1>0, CampoPcb
    <2> QED
      BY <2>1, <1>4 DEF FinCompactar, cvars, UnoEnCpu
  <1>5. ASSUME NEW p \in Pid, Admitir(p) \/ TerminarFS(p) \/ TomarFS(p)
        PROVE  UnoEnCpu'
    <2>1. UNCHANGED cvars
      BY <1>5 DEF Admitir, TerminarFS, TomarFS
    <2>2. \A q \in Pid : pcb'[q].estado = "EXEC" => pcb[q].estado = "EXEC"
      BY <1>0, <1>5 DEF Admitir, TerminarFS, TomarFS, Campos
    <2> QED
      BY <2>1, <2>2 DEF cvars, UnoEnCpu
  <1>6. ASSUME NEW p \in Pid, Despachar(p)
        PROVE  UnoEnCpu'
    <2>1. \A q \in Pid : pcb'[q].estado = "EXEC" => q = p
      BY <1>0, <1>6 DEF Despachar, En
    <2>2. cfase' \in ConContexto => contexto'.pid = p
      BY <1>6 DEF Despachar, send_pcb_to_cpu, C!recibir_contexto, cvars, ConContexto
    <2> QED
      BY <2>1, <2>2 DEF UnoEnCpu
  <1>7. ASSUME NEW p \in Pid, execute_exit(p) \/ SinCpu(p) \/ SinMemoria(p) \/ execute_yield(p) \/ execute_file(p)
        PROVE  UnoEnCpu'
    BY <1>7 DEF execute_exit, SinCpu, SinMemoria, execute_yield, execute_file, Soltar, C!esperar_contexto,
         UnoEnCpu, ConContexto, cvars
  <1>8. ASSUME NEW p \in Pid, pcb[p].estado = "EXEC", cfase = "desalojo", NEW b, Seguir(p, b)
        PROVE  UnoEnCpu'
    <2>1. p = contexto.pid /\ \A q \in Pid : pcb[q].estado = "EXEC" => q = p
      BY <1>8 DEF UnoEnCpu, ConContexto
    <2>2. contexto'.pid = p
      BY <1>8 DEF Seguir, send_pcb_to_cpu, C!recibir_contexto
    <2>3. \A q \in Pid : pcb'[q].estado = "EXEC" => q = p
      BY <1>0, <1>8, <2>1 DEF Seguir
    <2> QED
      BY <2>2, <2>3 DEF UnoEnCpu
  <1>9. ASSUME NEW p \in Pid, execute_delete_segment(p)
        PROVE  UnoEnCpu'
    BY <1>8, <1>9 DEF execute_delete_segment, Recibido, En
  <1>10. ASSUME NEW p \in Pid, execute_create_segment(p)
         PROVE  UnoEnCpu'
    <2>1. pcb[p].estado = "EXEC" /\ cfase = "desalojo"
      BY <1>10 DEF execute_create_segment, Recibido, En
    <2>2. CASE respuesta' = "SEGMENTO"
      BY <1>8, <1>10, <2>1, <2>2 DEF execute_create_segment
    <2>3. CASE respuesta' = "MAX_SEG_QUANTITY_REACHED"
      BY <1>10, <2>3 DEF execute_create_segment, Soltar, C!esperar_contexto, UnoEnCpu, ConContexto
    <2>4. CASE respuesta' = "COMPACTATION_REQUIRED"
      <3>1. pcb' = [pcb EXCEPT ![p] = update_pcb(p)] /\ UNCHANGED cvars
        BY <1>10, <2>4 DEF execute_create_segment
      <3>2. update_pcb(p).estado = pcb[p].estado
        BY <1>0, ActualizaPcb
      <3>3. \A q \in Pid : pcb'[q].estado = pcb[q].estado
        BY <1>0, <3>1, <3>2
      <3> QED
        BY <3>1, <3>3 DEF UnoEnCpu, cvars
    <2> QED
      BY <1>10, <2>2, <2>3, <2>4 DEF execute_create_segment
  <1> QED
    BY <1>1, <1>2, <1>3, <1>4, <1>5, <1>6, <1>7, <1>9, <1>10 DEF Next

\* Who asks for a compaction has seen that no file operation is pending.
LEMMA NadiePendiente ==
    ASSUME Copias, Tareas, [Next]_vars, EsperaArchivos, SinPendientes
    PROVE  SinPendientes'
  <1> SUFFICES ASSUME mfase' # "libre", NEW q \in Pid PROVE tarea'[q] = nada
    BY DEF SinPendientes
  <1> USE DEF Copias, Tareas
  <1>1. CASE mfase # "libre"
    <2>1. tarea[q] = nada
      BY <1>1 DEF SinPendientes
    <2>2. ~execute_file(q)
      BY <1>1 DEF Turno, execute_file, Recibido
    <2> QED
      BY <2>1, <2>2, Nuevas
  <1>2. CASE mfase = "libre"
    <2>1. PICK p \in Pid : execute_create_segment(p)
      <3>1. ~ UNCHANGED mfase
        BY <1>2
      <3> QED
        BY <1>2, <3>1, CpuEfecto DEF Next, vars, mvars, CpuPaso, Compactar, Mover, FinCompactar,
             M!EmpezarCompactacion, M!compact_memory, M!FinCompactacion,
             Admitir, M!create_segments_table, Despachar, SinCpu, execute_yield, execute_exit, execute_file,
             Terminar, M!delete_segments_table, SinMemoria, execute_delete_segment, M!delete_segment,
             TomarFS, TerminarFS, M!write_memory
    <2>2. tarea' = tarea
      BY <2>1 DEF execute_create_segment
    <2>3. PICK r : /\ M!create_segment(r)
                   /\ EsperaArchivos /\ M!Huecos(ocupado, r.size) = {} => Pendientes = {}
      BY <2>1 DEF execute_create_segment
    <2>4. respuesta' = "COMPACTATION_REQUIRED"
      BY <2>1, <2>3, CrearEfecto DEF execute_create_segment
    <2>5. Pendientes = {}
      BY <2>3, <2>4, CrearEfecto
    <2> QED
      BY <2>2, <2>5 DEF Pendientes
  <1> QED
    BY <1>1, <1>2

\* The CPU stops with the address it has just translated.
LEMMA CpuTraduce ==
    ASSUME Fetch \/ Ciclo \/ Leer \/ Escribir, cfase' = "desalojo"
    PROVE  \E i : /\ desalojo'.op = i.op /\ desalojo'.motivo = i
                  /\ i.op \in {"F_READ", "F_WRITE"} =>
                       desalojo'.fisica = C!get_direccion_fisica(i.dir, contexto.tabla)
                  /\ contexto' = contexto
  <1>1. PICK i, st : C!stop_exec(i, st)
    <2>1. CASE Fetch
      BY <2>1 DEF Fetch, C!fetch
    <2>2. CASE Ciclo
      BY <2>2 DEF Ciclo, C!SET, C!Entregar, C!DesalojarPorFalla, C!Caer
    <2>3. CASE Leer
      BY <2>3 DEF Leer, C!MOV_IN
    <2>4. CASE Escribir
      BY <2>4 DEF Escribir, C!MOV_OUT
    <2> QED
      BY <2>1, <2>2, <2>3, <2>4
  <1>2. PICK d : d = desalojo'
    OBVIOUS
  <1>3. /\ d = [op |-> i.op, motivo |-> i, status |-> st, pid |-> contexto.pid,
                pc |-> contexto.pc, registers |-> cpu_registers,
                fisica |-> IF i.op \in C!Files THEN C!Fisica(i) ELSE 0]
        /\ contexto' = contexto
    BY <1>1, <1>2 DEF C!stop_exec
  <1>4. /\ d.op = i.op /\ d.motivo = i
        /\ d.fisica = IF i.op \in C!Files THEN C!Fisica(i) ELSE 0
    BY <1>3
  <1> QED
    BY <1>2, <1>3, <1>4 DEF C!Files, C!Fisica

LEMMA NextTraducida ==
    ASSUME Copias, Tareas, [Next]_vars, Traducida
    PROVE  Traducida'
  <1> SUFFICES ASSUME cfase' = "desalojo", desalojo'.op \in {"F_READ", "F_WRITE"}
               PROVE  Apunta(desalojo'.fisica, desalojo'.motivo.dir, De(segs', contexto'.pid))
    BY DEF Traducida, Apunta, De, Tabla, segment_0, C!get_direccion_fisica, C!get_by_num_segmento,
         C!get_num_segmento, C!get_desplazamiento_segmento
  <1> USE DEF Copias
  <1>1. CASE Fetch \/ Ciclo \/ Leer \/ Escribir
    <2>1. CpuPaso
      BY <1>1, CpuEfecto
    <2>2. contexto.tabla = Tabla(De(segs, contexto.pid))
      BY <2>1, DeEs DEF CpuPaso, Turno, TablaVigente
    <2>3. PICK i : /\ desalojo'.op = i.op /\ desalojo'.motivo = i
                   /\ i.op \in {"F_READ", "F_WRITE"} =>
                        desalojo'.fisica = C!get_direccion_fisica(i.dir, contexto.tabla)
                   /\ contexto' = contexto
      BY <1>1, CpuTraduce
    <2>4. segs' = segs
      BY <2>1 DEF CpuPaso
    <2> QED
      BY <2>2, <2>3, <2>4 DEF Apunta
  <1>2. CASE UNCHANGED cvars /\ segs' = segs
    BY <1>2 DEF Traducida, cvars
  <1>3. UNCHANGED cvars => mfase = "libre" /\ desalojo.op # "CREATE_SEGMENT" /\ cfase = "desalojo"
    BY DEF Turno, cvars
  <1>4. CASE UNCHANGED vars
    BY <1>2, <1>4 DEF vars, mvars
  <1>5. CASE Compactar \/ Mover \/ FinCompactar
    BY <1>3, <1>5 DEF Compactar, Mover, FinCompactar, M!EmpezarCompactacion, M!compact_memory, M!FinCompactacion
  <1>6. ASSUME NEW p \in Pid, Admitir(p) \/ TerminarFS(p) \/ TomarFS(p)
        PROVE  UNCHANGED cvars /\ segs' = segs
    BY <1>6 DEF Admitir, TerminarFS, TomarFS, M!create_segments_table, M!write_memory, mvars
  <1>7. ASSUME NEW p \in Pid, \/ Despachar(p) \/ execute_exit(p) \/ SinCpu(p) \/ SinMemoria(p)
                              \/ execute_yield(p) \/ execute_file(p) \/ execute_delete_segment(p)
        PROVE  FALSE
    BY <1>7 DEF Despachar, send_pcb_to_cpu, C!recibir_contexto, execute_exit, SinCpu, SinMemoria, execute_yield,
         execute_file, Soltar, C!esperar_contexto, execute_delete_segment, Seguir, cvars
  <1>8. ASSUME NEW p \in Pid, execute_create_segment(p)
        PROVE  FALSE
    <2>1. desalojo.op = "CREATE_SEGMENT" /\ cfase = "desalojo"
      BY <1>8 DEF execute_create_segment, Recibido
    <2>2. (\E b : Seguir(p, b)) \/ C!esperar_contexto \/ UNCHANGED cvars
      BY <1>8 DEF execute_create_segment, Soltar
    <2> QED
      BY <1>3, <2>1, <2>2 DEF Seguir, send_pcb_to_cpu, C!recibir_contexto, C!esperar_contexto
  <1> QED
    BY <1>1, <1>2, <1>4, <1>5, <1>6, <1>7, <1>8 DEF Next

\* The address of an operation that has just been handed to a thread.
LEMMA EmpiezaVigente ==
    ASSUME Copias, Tareas, [Next]_vars, UnoEnCpu, Traducida,
           NEW q \in Pid, tarea[q] = nada, tarea'[q] # nada
    PROVE  Apunta(tarea'[q].fisica, tarea'[q].orden.dir, De(segs', q))
  <1> USE DEF Copias, Tareas
  <1>1. DOMAIN tarea = Pid
    BY DEF FormaTarea
  <1>2. execute_file(q)
    BY Nuevas
  <1>3. /\ cfase = "desalojo" /\ desalojo.op \in {"F_READ", "F_WRITE"} /\ pcb[q].estado = "EXEC"
        /\ segs' = segs
    BY <1>2 DEF execute_file, Recibido, En, mvars
  <1>4. q = contexto.pid
    BY <1>3 DEF UnoEnCpu, ConContexto
  <1>5. PICK t : t = [op |-> desalojo.op, fase |-> "pendiente",
                      orden |-> desalojo.motivo, fisica |-> desalojo.fisica]
    OBVIOUS
  <1>6. t.fisica = desalojo.fisica /\ t.orden = desalojo.motivo
    BY <1>5
  <1>7. tarea'[q] = t
    BY <1>1, <1>2, <1>5 DEF execute_file
  <1> QED
    BY <1>3, <1>4, <1>6, <1>7 DEF Traducida

LEMMA NextGuardadas ==
    ASSUME Copias, Tareas, [Next]_vars, Direccionado
    PROVE  Guardadas'
  <1> SUFFICES ASSUME NEW q \in Pid, tarea'[q] # nada
               PROVE  Apunta(tarea'[q].fisica, tarea'[q].orden.dir, De(segs', q))
    BY DEF Guardadas, Apunta, De, Tabla, segment_0, C!get_direccion_fisica, C!get_by_num_segmento,
         C!get_num_segmento, C!get_desplazamiento_segmento
  <1> USE DEF Copias, Tareas, Direccionado
  <1>0. DOMAIN tarea = Pid
    BY DEF FormaTarea
  <1>1. CASE tarea[q] = nada
    BY <1>1, EmpiezaVigente
  <1>2. CASE tarea[q] # nada
    <2>1. /\ pcb[q].estado = "BLOCK" /\ mfase = "libre" /\ DOMAIN tarea[q] = CamposTarea
          /\ Apunta(tarea[q].fisica, tarea[q].orden.dir, De(segs, q))
      BY <1>2 DEF Bloqueados, SinPendientes, FormaTarea, Guardadas
    <2>2. CASE TomarFS(q)
      <3>1. segs' = segs /\ tarea'[q] = [tarea[q] EXCEPT !.fase = "enFS"]
        BY <1>0, <2>2 DEF TomarFS, mvars
      <3>2. tarea'[q].fisica = tarea[q].fisica /\ tarea'[q].orden = tarea[q].orden
        BY <2>1, <3>1 DEF CamposTarea
      <3> QED
        BY <2>1, <3>1, <3>2
    <2>3. CASE TerminarFS(q)
      BY <1>0, <2>3 DEF TerminarFS
    <2>4. CASE tarea'[q] = tarea[q] /\ De(segs', q) = De(segs, q)
      BY <2>1, <2>4
    <2> QED
      BY <2>1, <2>2, <2>3, <2>4, Ajenos
  <1> QED
    BY <1>1, <1>2

\* Assuming that no compaction begins while an operation is pending, which nothing in
\* compactar sees to, the addresses that wait would all be current.  The refinement
\* below stands on this; what the code itself gives is the theorem after it.
LEMMA DireccionVigenteSiEspera ==
    ASSUME EsperaArchivos
    PROVE  Spec => []DireccionVigente
  <1> DEFINE J == Copias /\ Tareas /\ Direccionado
  <1>1. Init => J
    <2> SUFFICES ASSUME Init PROVE J
      OBVIOUS
    <2>1. cfase = "espera" /\ mfase = "libre" /\ tarea = [p \in Pid |-> nada]
      BY DEF Init, M!Init, C!Init
    <2> QED
      BY <2>1, InitCopias DEF Direccionado, UnoEnCpu, ConContexto, SinPendientes, Traducida, Guardadas
  <1>2. J /\ [Next]_vars => J'
    BY NextCopias, NextTareas, QuienEjecuta, NadiePendiente, NextTraducida, NextGuardadas DEF Direccionado
  <1>3. J => DireccionVigente
    BY DeEs DEF Direccionado, Guardadas, Apunta, DireccionVigente, Vigente
  <1> QED
    BY <1>1, <1>2, <1>3, PTL DEF Spec

-----------------------------------------------------------------------------
(* Addresses, whatever the kernel waits for                                *)

\* mutex_fs_connection: no compaction while the filesystem works.
Excluidos == mfase = "compactando" => EnFS = {}

LEMMA NextExcluidos ==
    ASSUME Copias, Tareas, [Next]_vars, Excluidos
    PROVE  Excluidos'
  <1> USE DEF Copias, Tareas
  <1> SUFFICES ASSUME mfase' = "compactando", NEW q \in Pid, tarea'[q] # nada, tarea'[q].fase = "enFS"
               PROVE  FALSE
    BY DEF Excluidos, EnFS
  <1>0. DOMAIN tarea = Pid
    BY DEF FormaTarea
  <1>1. ASSUME mfase # "compactando" PROVE Compactar
    <2>1. ~\E p \in Pid : execute_create_segment(p)
      <3> SUFFICES ASSUME NEW p \in Pid, execute_create_segment(p) PROVE FALSE
        OBVIOUS
      <3>1. PICK r : M!create_segment(r)
        BY DEF execute_create_segment
      <3>2. mfase' \in {"libre", "compactar"}
        BY <3>1 DEF M!create_segment, M!Asignar
      <3> QED
        BY <3>2
    <2>2. ~ UNCHANGED mfase
      BY <1>1
    <2> QED
      BY <1>1, <2>1, <2>2, CpuEfecto DEF Next, vars, mvars, CpuPaso, Mover, FinCompactar,
         M!compact_memory, M!FinCompactacion,
         Admitir, M!create_segments_table, Despachar, SinCpu, execute_yield, execute_exit, execute_file,
         Terminar, M!delete_segments_table, SinMemoria, execute_delete_segment, M!delete_segment,
         TomarFS, TerminarFS, M!write_memory
  <1>2. EnFS = {}
    BY <1>1 DEF Excluidos, Compactar
  <1>3. CASE tarea[q] = nada
    <2>1. execute_file(q)
      BY <1>3, Nuevas
    <2>2. tarea'[q].fase = "pendiente"
      BY <1>0, <2>1 DEF execute_file
    <2> QED
      BY <2>2
  <1>4. CASE tarea[q] # nada
    <2>1. pcb[q].estado = "BLOCK" /\ tarea[q].fase # "enFS"
      BY <1>2, <1>4 DEF Bloqueados, EnFS
    <2>2. tarea'[q] # tarea[q]
      BY <2>1
    <2>3. CASE TomarFS(q)
      BY <1>1, <2>3 DEF TomarFS, mvars, Compactar, M!EmpezarCompactacion
    <2>4. CASE TerminarFS(q)
      BY <2>1, <2>4 DEF TerminarFS, EnFS
    <2> QED
      BY <2>1, <2>2, <2>3, <2>4, Ajenos
  <1> QED
    BY <1>3, <1>4

\* An address that was right stays so, but for a compaction that finds it waiting.
LEMMA SigueVigente ==
    ASSUME Copias, Tareas, [Next]_vars, Excluidos,
           NEW q \in Pid, tarea[q] # nada, tarea'[q] # nada,
           Apunta(tarea[q].fisica, tarea[q].orden.dir, De(segs, q)),
           ~(mfase = "compactando" /\ q \notin EnFS)
    PROVE  Apunta(tarea'[q].fisica, tarea'[q].orden.dir, De(segs', q))
  <1> USE DEF Copias, Tareas
  <1>1. pcb[q].estado = "BLOCK" /\ DOMAIN tarea = Pid /\ DOMAIN tarea[q] = CamposTarea
    BY DEF Bloqueados, FormaTarea
  <1>2. mfase # "compactando"
    BY DEF Excluidos
  <1>3. CASE TomarFS(q)
    <2>1. segs' = segs /\ tarea'[q] = [tarea[q] EXCEPT !.fase = "enFS"]
      BY <1>1, <1>3 DEF TomarFS, mvars
    <2>2. tarea'[q].fisica = tarea[q].fisica /\ tarea'[q].orden = tarea[q].orden
      BY <1>1, <2>1 DEF CamposTarea
    <2> QED
      BY <2>1, <2>2
  <1>4. CASE TerminarFS(q)
    BY <1>1, <1>4 DEF TerminarFS
  <1>5. CASE tarea'[q] = tarea[q] /\ De(segs', q) = De(segs, q)
    BY <1>5
  <1> QED
    BY <1>1, <1>2, <1>3, <1>4, <1>5, Ajenos

\* The physical address of a file operation is the one of its logical address when its
\* thread gets it, and only a compaction makes it wrong: not what other processes
\* create, delete and end, nor a compaction once the filesystem works with it.
\* Nothing is assumed of the kernel: that a compaction does make it wrong while the
\* thread waits for the mutex is what the code allows.
THEOREM TukiSoloCompactarDesactualiza == Spec => SoloCompactarDesactualiza
  <1> DEFINE J == Copias /\ Tareas /\ UnoEnCpu /\ Traducida /\ Excluidos
  <1> DEFINE Paso == \A p \in Pid :
         /\ tarea[p] = nada /\ tarea'[p] # nada => Vigente(p)'
         /\ tarea[p] # nada /\ tarea'[p] # nada /\ Vigente(p) =>
              Vigente(p)' \/ (mfase = "compactando" /\ p \notin EnFS)
  <1>1. Init => J
    <2> SUFFICES ASSUME Init PROVE J
      OBVIOUS
    <2>1. cfase = "espera" /\ mfase = "libre"
      BY DEF Init, M!Init, C!Init
    <2> QED
      BY <2>1, InitCopias DEF UnoEnCpu, ConContexto, Traducida, Excluidos
  <1>2. J /\ [Next]_vars => J'
    BY NextCopias, NextTareas, QuienEjecuta, NextTraducida, NextExcluidos
  <1>3. ASSUME NEW q \in Pid
        PROVE  /\ Vigente(q) <=> Apunta(tarea[q].fisica, tarea[q].orden.dir, De(segs, q))
               /\ Vigente(q)' <=> Apunta(tarea'[q].fisica, tarea'[q].orden.dir, De(segs', q))
    <2>1. Vigente(q) <=> Apunta(tarea[q].fisica, tarea[q].orden.dir, De(segs, q))
      BY DEF Vigente, Apunta, De, M!DeProceso
    <2>2. Vigente(q)' <=> Apunta(tarea'[q].fisica, tarea'[q].orden.dir, De(segs', q))
      BY DEF Vigente, Apunta, De, M!DeProceso, Tabla, segment_0, C!get_direccion_fisica, C!get_by_num_segmento,
           C!get_num_segmento, C!get_desplazamiento_segmento
    <2> QED
      BY <2>1, <2>2
  <1>4. J /\ [Next]_vars => Paso
    <2> SUFFICES ASSUME J, [Next]_vars, NEW q \in Pid, tarea'[q] # nada
                 PROVE  /\ tarea[q] = nada => Vigente(q)'
                        /\ tarea[q] # nada /\ Vigente(q) =>
                             Vigente(q)' \/ (mfase = "compactando" /\ q \notin EnFS)
      OBVIOUS
    <2>1. ASSUME tarea[q] = nada PROVE Vigente(q)'
      BY <1>3, <2>1, EmpiezaVigente
    <2>2. ASSUME tarea[q] # nada, Vigente(q), ~(mfase = "compactando" /\ q \notin EnFS)
          PROVE  Vigente(q)'
      BY <1>3, <2>2, SigueVigente
    <2> QED
      BY <2>1, <2>2
  <1> QED
    BY <1>1, <1>2, <1>4, PTL DEF Spec, SoloCompactarDesactualiza

-----------------------------------------------------------------------------
(* Segments, bitmap and tables                                             *)

\* The segments S are in memory, apart from each other and with ids of their own, and
\* occ is the bitmap of their cells.
Ordenada(S, occ) ==
    /\ S \subseteq M!Segmento
    /\ occ = M!Segmento0 \cup UNION {M!Rango(s) : s \in S}
    /\ \A s, t \in S : s # t => M!Rango(s) \cap M!Rango(t) = {}
    /\ \A s \in S : M!Rango(s) \subseteq M!Direcciones \ M!Segmento0
    /\ \A s, t \in S : s.id = t.id => s = t

\* The bitmap, cell by cell.
LEMMA OrdenadaCeldas ==
    ASSUME NEW S, NEW occ, Ordenada(S, occ)
    PROVE  \A a : a \in occ <=> (a \in M!Segmento0 \/ \E s \in S : a \in M!Rango(s))
  BY DEF Ordenada

\* Without the segments R.
LEMMA OrdenadaQuita ==
    ASSUME NEW S, NEW occ, Ordenada(S, occ), NEW R, R \subseteq S
    PROVE  Ordenada(S \ R, occ \ UNION {M!Rango(s) : s \in R})
  <1> DEFINE new == occ \ UNION {M!Rango(s) : s \in R}
  <1>1. \A s \in R, t \in S \ R : M!Rango(s) \cap M!Rango(t) = {}
    BY DEF Ordenada
  <1>2. \A s \in R : M!Rango(s) \cap M!Segmento0 = {}
    BY DEF Ordenada
  <1>3. \A a : a \in new <=> (a \in M!Segmento0 \/ \E s \in S \ R : a \in M!Rango(s))
    BY <1>1, <1>2, OrdenadaCeldas
  <1> HIDE DEF new
  <1>4. new = M!Segmento0 \cup UNION {M!Rango(s) : s \in S \ R}
    BY <1>3
  <1>5. Ordenada(S \ R, new)
    BY <1>4 DEF Ordenada
  <1> QED
    BY <1>5 DEF new

\* With a segment more, in a hole.
LEMMA OrdenadaAgrega ==
    ASSUME NEW S, NEW occ, Ordenada(S, occ), NEW t \in M!Segmento,
           M!Rango(t) \subseteq M!Direcciones \ occ, \A s \in S : s.id # t.id
    PROVE  Ordenada(S \cup {t}, occ \cup M!Rango(t))
  <1>1. \A s \in S : M!Rango(s) \cap M!Rango(t) = {}
    BY OrdenadaCeldas
  <1>2. M!Rango(t) \cap M!Segmento0 = {}
    BY OrdenadaCeldas
  <1>3. \A a : a \in occ \cup M!Rango(t) <=>
                 (a \in M!Segmento0 \/ \E s \in S \cup {t} : a \in M!Rango(s))
    BY OrdenadaCeldas
  <1>4. occ \cup M!Rango(t) = M!Segmento0 \cup UNION {M!Rango(s) : s \in S \cup {t}}
    BY <1>3
  <1> QED
    BY <1>1, <1>2, <1>4 DEF Ordenada

\* The numbers of a segment.
LEMMA Numeros ==
    ASSUME NEW s \in M!Segmento
    PROVE  /\ s.base \in Nat /\ s.size \in Nat /\ s.size > 0 /\ s.id \in Nat /\ s.id # 0
           /\ s.id \in Ids /\ s.size \in Sizes /\ s.pid \in Pid
           /\ DOMAIN s = CamposSegmento
  <1>1. /\ s.base \in Nat /\ s.id \in Ids /\ s.size \in Sizes /\ s.pid \in Pid
        /\ DOMAIN s = CamposSegmento
    BY DEF M!Segmento, CamposSegmento
  <1>2. s.id \in Nat \ {0} /\ s.size \in Nat \ {0}
    BY <1>1, TukiAssumption
  <1> QED
    BY <1>1, <1>2

\* The row of the segment in the table of its process.
Fila(s) == [id |-> s.id, base |-> s.base, size |-> s.size]

\* What is in a table: segment_0 and a row of each segment, with different ids.
LEMMA EnTabla ==
    ASSUME NEW S, NEW occ, Ordenada(S, occ), NEW p
    PROVE  /\ \A g : g \in Tabla(De(S, p)) <=> g = segment_0 \/ \E s \in S : s.pid = p /\ g = Fila(s)
           /\ \A g, h \in Tabla(De(S, p)) : g.id = h.id => g = h
  <1>1. ASSUME NEW g
        PROVE  g \in Tabla(De(S, p)) <=> g = segment_0 \/ \E s \in S : s.pid = p /\ g = Fila(s)
    BY DEF Tabla, De, Fila
  <1>2. \A s \in S : Fila(s).id = s.id /\ s.id # 0
    BY Numeros DEF Ordenada, Fila
  <1>3. segment_0.id = 0
    BY DEF segment_0
  <1>4. ASSUME NEW g \in Tabla(De(S, p)), NEW h \in Tabla(De(S, p)), g.id = h.id PROVE g = h
    BY <1>1, <1>2, <1>3, <1>4 DEF Ordenada
  <1> QED
    BY <1>1, <1>4

\* A row of a table is in the memory, and is known as that of its process.
LEMMA FilaEnMemoria ==
    ASSUME NEW S, NEW occ, Ordenada(S, occ), NEW p, NEW g \in Tabla(De(S, p))
    PROVE  /\ g.base \in Nat /\ g.size \in Nat /\ g.size > 0 /\ g.id \in Nat
           /\ g.base..(g.base + g.size - 1) \subseteq M!Direcciones
           /\ g.base + g.size <= TamMemoria
  <1>1. CASE g = segment_0
    BY <1>1, TukiAssumption DEF segment_0, M!Direcciones
  <1>2. ASSUME NEW s \in S, s.pid = p, g = Fila(s)
        PROVE  /\ g.base \in Nat /\ g.size \in Nat /\ g.size > 0 /\ g.id \in Nat
               /\ g.base..(g.base + g.size - 1) \subseteq M!Direcciones
    <2>1. s \in M!Segmento /\ M!Rango(s) \subseteq M!Direcciones
      BY DEF Ordenada
    <2> QED
      BY <1>2, <2>1, Numeros DEF Fila, M!Rango
  <1>3. /\ g.base \in Nat /\ g.size \in Nat /\ g.size > 0 /\ g.id \in Nat
        /\ g.base..(g.base + g.size - 1) \subseteq M!Direcciones
    <2>1. CASE g = segment_0
      BY <2>1, TukiAssumption DEF segment_0, M!Direcciones
    <2>2. CASE \E s \in S : s.pid = p /\ g = Fila(s)
      BY <1>2, <2>2
    <2> QED
      BY <2>1, <2>2, EnTabla
  <1>4. g.base + g.size - 1 \in g.base..(g.base + g.size - 1)
    BY <1>3
  <1>5. g.base + g.size - 1 \in M!Direcciones
    BY <1>3, <1>4
  <1> QED
    BY <1>3, <1>5, TukiAssumption DEF M!Direcciones

-----------------------------------------------------------------------------
(* What the segments hold                                                  *)

\* A segment by its process and id, and what every segment holds.
Clave(s) == <<s.pid, s.id>>
Claves(S) == {Clave(s) : s \in S}
Vista(S, m) == [k \in Claves(S) |-> Celdas(m, CHOOSE s \in S : Clave(s) = k)]

\* contenido is that of the segments and the memory.
LEMMA ContenidoVista ==
    contenido = Vista(segs, mem) /\ contenido' = Vista(segs', mem')
  BY DEF contenido, Vista, Claves, Clave, Celdas

\* The cells of a row, and what they depend on.
LEMMA CeldasForma ==
    ASSUME NEW m, NEW g, g.size \in Nat
    PROVE  /\ DOMAIN Celdas(m, g) = 1..g.size /\ Len(Celdas(m, g)) = g.size
           /\ \A i \in 1..g.size : Celdas(m, g)[i] = m[g.base + i - 1]
           /\ Celdas(m, g) = [i \in 1..g.size |-> Celdas(m, g)[i]]
  BY DEF Celdas

\* Rows with the same cells.
LEMMA CeldasIgual ==
    ASSUME NEW m, NEW n, NEW g, NEW h, g.size = h.size,
           \A i \in 1..g.size : m[g.base + i - 1] = n[h.base + i - 1]
    PROVE  Celdas(m, g) = Celdas(n, h)
  BY DEF Celdas

\* A segment is found by its key.
LEMMA VistaVale ==
    ASSUME NEW S, NEW occ, Ordenada(S, occ), NEW m, NEW s \in S
    PROVE  Clave(s) \in Claves(S) /\ Vista(S, m)[Clave(s)] = Celdas(m, s)
  <1>1. Clave(s) \in Claves(S)
    BY DEF Claves
  <1>2. \A t \in S : Clave(t) = Clave(s) => t = s
    BY DEF Clave, Ordenada
  <1>3. (CHOOSE t \in S : Clave(t) = Clave(s)) = s
    BY <1>2
  <1> QED
    BY <1>1, <1>3 DEF Vista

\* What gives the cells of each segment is the view.
LEMMA VistaUnica ==
    ASSUME NEW S, NEW occ, Ordenada(S, occ), NEW m, NEW f, f = [k \in Claves(S) |-> f[k]],
           \A s \in S : f[Clave(s)] = Celdas(m, s)
    PROVE  f = Vista(S, m)
  <1>1. ASSUME NEW k \in Claves(S) PROVE f[k] = Vista(S, m)[k]
    <2>1. PICK s \in S : k = Clave(s)
      BY DEF Claves
    <2>2. Vista(S, m)[Clave(s)] = Celdas(m, s)
      BY VistaVale
    <2> QED
      BY <2>1, <2>2
  <1>2. Vista(S, m) = [k \in Claves(S) |-> Vista(S, m)[k]]
    BY DEF Vista
  <1> QED
    BY <1>1, <1>2

\* Segments go away with what they hold, and nothing else changes.
LEMMA VistaQuita ==
    ASSUME NEW S, NEW occ, Ordenada(S, occ), NEW R, R \subseteq S, NEW m
    PROVE  Vista(S \ R, m) = [k \in Claves(S) \ Claves(R) |-> Vista(S, m)[k]]
  <1>1. Claves(S \ R) = Claves(S) \ Claves(R)
    <2>1. \A s, t \in S : Clave(s) = Clave(t) => s = t
      BY DEF Clave, Ordenada
    <2> QED
      BY <2>1 DEF Claves
  <1>2. PICK occ2 : Ordenada(S \ R, occ2)
    BY OrdenadaQuita
  <1> DEFINE f == [k \in Claves(S \ R) |-> Vista(S, m)[k]]
  <1>3. \A s \in S \ R : f[Clave(s)] = Celdas(m, s)
    BY VistaVale DEF Claves
  <1>4. f = [k \in Claves(S \ R) |-> f[k]]
    OBVIOUS
  <1> HIDE DEF f
  <1>5. f = Vista(S \ R, m)
    BY <1>2, <1>3, <1>4, VistaUnica
  <1> QED
    BY <1>1, <1>5 DEF f

\* g is f with c at k.
Agrega(f, g, k, c) == DOMAIN g = DOMAIN f \cup {k} /\ g[k] = c /\ \A j \in DOMAIN f : g[j] = f[j]

\* A new segment holds what its cells held.
LEMMA VistaAgrega ==
    ASSUME NEW S, NEW occ, Ordenada(S, occ), NEW t, NEW occ2, Ordenada(S \cup {t}, occ2), NEW m
    PROVE  Agrega(Vista(S, m), Vista(S \cup {t}, m), Clave(t), Celdas(m, t))
  <1>1. Claves(S \cup {t}) = Claves(S) \cup {Clave(t)}
    BY DEF Claves
  <1>2. DOMAIN Vista(S \cup {t}, m) = Claves(S \cup {t}) /\ DOMAIN Vista(S, m) = Claves(S)
    BY DEF Vista
  <1>3. \A s \in S : Vista(S \cup {t}, m)[Clave(s)] = Celdas(m, s) /\ Vista(S, m)[Clave(s)] = Celdas(m, s)
    BY VistaVale
  <1>4. Vista(S \cup {t}, m)[Clave(t)] = Celdas(m, t)
    BY VistaVale
  <1>5. \A k \in Claves(S) : Vista(S \cup {t}, m)[k] = Vista(S, m)[k]
    BY <1>3 DEF Claves
  <1> QED
    BY <1>1, <1>2, <1>4, <1>5 DEF Agrega

\* A segment goes elsewhere with what it holds.
LEMMA VistaMueve ==
    ASSUME NEW S, NEW occ, Ordenada(S, occ), NEW s \in S, NEW t, Clave(t) = Clave(s),
           NEW S2, S2 = (S \ {s}) \cup {t}, NEW occ2, Ordenada(S2, occ2),
           NEW m, NEW n, Celdas(n, t) = Celdas(m, s),
           \A u \in S : u # s => Celdas(n, u) = Celdas(m, u)
    PROVE  Vista(S2, n) = Vista(S, m)
  <1> DEFINE f == Vista(S, m)
  <1>1. Claves(S2) = Claves(S)
    BY DEF Claves
  <1>2. f = [k \in Claves(S2) |-> f[k]]
    BY <1>1 DEF Vista
  <1>3. \A u \in S2 : f[Clave(u)] = Celdas(n, u)
    BY VistaVale
  <1> HIDE DEF f
  <1>4. f = Vista(S2, n)
    BY <1>2, <1>3, VistaUnica
  <1> QED
    BY <1>4 DEF f

\* The cells a, a + 1, ... of the memory get the data.
Escrito(m, a, datos, n) ==
    n = [x \in M!Direcciones |-> IF x \in a..(a + Len(datos) - 1) THEN datos[x - a + 1] ELSE m[x]]

\* In a row with room for them from its cell d on.
LEMMA EscribeEnFila ==
    ASSUME NEW g, g.base \in Nat, g.size \in Nat, g.base..(g.base + g.size - 1) \subseteq M!Direcciones,
           NEW d \in Nat, NEW datos, Len(datos) \in Nat, d + Len(datos) <= g.size,
           NEW m, NEW n, Escrito(m, g.base + d, datos, n)
    PROVE  Celdas(n, g) = Maquina!Pisar(Celdas(m, g), d, datos)
  <1> DEFINE f == Maquina!Pisar(Celdas(m, g), d, datos)
  <1>1. /\ f = [i \in 1..g.size |-> IF i \in (d + 1)..(d + Len(datos)) THEN datos[i - d] ELSE Celdas(m, g)[i]]
    BY CeldasForma DEF Maquina!Pisar
  <1>2. ASSUME NEW i \in 1..g.size
        PROVE  n[g.base + i - 1] = IF i \in (d + 1)..(d + Len(datos)) THEN datos[i - d] ELSE Celdas(m, g)[i]
    <2>1. g.base + i - 1 \in M!Direcciones
      BY <1>2
    <2>2. n[g.base + i - 1] = IF g.base + i - 1 \in (g.base + d)..((g.base + d) + Len(datos) - 1)
                              THEN datos[(g.base + i - 1) - (g.base + d) + 1] ELSE m[g.base + i - 1]
      BY <2>1 DEF Escrito
    <2>3. g.base + i - 1 \in (g.base + d)..((g.base + d) + Len(datos) - 1) <=> i \in (d + 1)..(d + Len(datos))
      OBVIOUS
    <2>4. (g.base + i - 1) - (g.base + d) + 1 = i - d
      OBVIOUS
    <2>5. Celdas(m, g)[i] = m[g.base + i - 1]
      BY CeldasForma
    <2> QED
      BY <2>2, <2>3, <2>4, <2>5
  <1>3. Celdas(n, g) = [i \in 1..g.size |-> n[g.base + i - 1]]
    BY DEF Celdas
  <1> HIDE DEF f
  <1> QED
    BY <1>1, <1>2, <1>3 DEF f

\* And every row apart from it keeps what it holds.
LEMMA EscribeFuera ==
    ASSUME NEW g, g.base \in Nat, g.size \in Nat, NEW d \in Nat, NEW datos, Len(datos) \in Nat,
           d + Len(datos) <= g.size, NEW m, NEW n, Escrito(m, g.base + d, datos, n),
           NEW h, h.base \in Nat, h.size \in Nat, h.base..(h.base + h.size - 1) \subseteq M!Direcciones,
           (h.base..(h.base + h.size - 1)) \cap (g.base..(g.base + g.size - 1)) = {}
    PROVE  Celdas(n, h) = Celdas(m, h)
  <1>1. ASSUME NEW i \in 1..h.size
        PROVE  m[h.base + i - 1] = n[h.base + i - 1]
    <2>1. h.base + i - 1 \in h.base..(h.base + h.size - 1)
      BY ONLY h.base \in Nat, h.size \in Nat, i \in 1..h.size
    <2>2. h.base + i - 1 \in M!Direcciones /\ h.base + i - 1 \notin g.base..(g.base + g.size - 1)
      BY <2>1
    <2>3. h.base + i - 1 \notin (g.base + d)..((g.base + d) + Len(datos) - 1)
      BY <2>2
    <2> QED
      BY <2>2, <2>3 DEF Escrito
  <1> QED
    BY <1>1, CeldasIgual

-----------------------------------------------------------------------------
(* Logical addresses                                                       *)

\* Memoria in order: segments on cells of their own, a value in every cell.
MemoriaEnOrden == Ordenada(segs, ocupado) /\ mem \in [M!Direcciones -> Valores]

\* The row g of the table of S is the one the address names.
Nombra(g, dir, S) == g \in Tabla(S) /\ g.id = C!get_num_segmento(dir)

\* The CPU and the machine divide a logical address alike.
LEMMA Direccion ==
    ASSUME NEW dir \in Nat
    PROVE  /\ C!get_num_segmento(dir) \in Nat /\ C!get_desplazamiento_segmento(dir) \in Nat
           /\ Maquina!segmento(dir) = C!get_num_segmento(dir)
           /\ Maquina!desde(dir) = C!get_desplazamiento_segmento(dir)
  <1>1. TamMaxSegmento \in Nat \ {0}
    BY TukiAssumption
  <1>2. dir \div TamMaxSegmento \in Nat /\ dir % TamMaxSegmento \in Nat
    BY <1>1
  <1> QED
    BY <1>2 DEF C!get_num_segmento, C!get_desplazamiento_segmento, Maquina!segmento, Maquina!desde

\* The physical address is inside the row.
LEMMA FisicaEs ==
    ASSUME NEW S, NEW occ, Ordenada(S, occ), NEW p, NEW dir, NEW g, Nombra(g, dir, De(S, p))
    PROVE  C!get_direccion_fisica(dir, Tabla(De(S, p))) = g.base + C!get_desplazamiento_segmento(dir)
  <1> DEFINE T == C!get_by_num_segmento(C!get_num_segmento(dir), Tabla(De(S, p)))
  <1>1. \A h : h \in T <=> h = g
    BY EnTabla DEF Nombra, C!get_by_num_segmento
  <1>2. (CHOOSE h \in T : TRUE) = g
    BY <1>1
  <1>3. C!get_direccion_fisica(dir, Tabla(De(S, p))) =
          (CHOOSE h \in T : TRUE).base + C!get_desplazamiento_segmento(dir)
    BY DEF C!get_direccion_fisica
  <1> HIDE DEF T
  <1> QED
    BY <1>2, <1>3

\* The cells of a row and the row itself.
LEMMA FilaCeldas ==
    ASSUME NEW m, NEW s
    PROVE  /\ Celdas(m, Fila(s)) = Celdas(m, s) /\ Fila(s).id = s.id
           /\ Fila(s).base = s.base /\ Fila(s).size = s.size
  BY DEF Fila, Celdas

\* A process names what exists for it, and sees the cells of the row.
LEMMA ExisteEs ==
    ASSUME MemoriaEnOrden, NEW p, NEW dir \in Nat
    PROVE  /\ Maquina!Existe(p, dir) <=> \E g : Nombra(g, dir, De(segs, p))
           /\ \A g : Nombra(g, dir, De(segs, p)) => Maquina!Celdas(p, dir) = Celdas(mem, g)
  <1> DEFINE n == C!get_num_segmento(dir)
  <1>0. Ordenada(segs, ocupado) /\ Maquina!segmento(dir) = n
    BY Direccion DEF MemoriaEnOrden
  <1>1. contenido = Vista(segs, mem) /\ DOMAIN contenido = Claves(segs) /\ comun = Celdas(mem, segment_0)
    BY ContenidoVista DEF Vista, comun
  <1>2. \A g : g \in Tabla(De(segs, p)) <=> g = segment_0 \/ \E s \in segs : s.pid = p /\ g = Fila(s)
    BY <1>0, EnTabla
  <1>3. segment_0.id = 0 /\ \A s \in segs : Fila(s).id = s.id /\ s.id # 0
    BY <1>0, FilaCeldas, Numeros DEF segment_0, Ordenada
  <1>4. <<p, n>> \in Claves(segs) <=> \E s \in segs : s.pid = p /\ s.id = n
    BY DEF Claves, Clave
  <1>5. \A s \in segs : contenido[Clave(s)] = Celdas(mem, Fila(s))
    BY <1>0, <1>1, VistaVale, FilaCeldas
  <1> HIDE DEF n
  <1>6. Maquina!Existe(p, dir) <=> n = 0 \/ <<p, n>> \in Claves(segs)
    BY <1>0, <1>1 DEF Maquina!Existe
  <1>7. Maquina!Celdas(p, dir) = IF n = 0 THEN comun ELSE contenido[<<p, n>>]
    BY <1>0 DEF Maquina!Celdas
  <1>8. \A g : Nombra(g, dir, De(segs, p)) <=> g \in Tabla(De(segs, p)) /\ g.id = n
    BY DEF Nombra, n
  <1>9. Maquina!Existe(p, dir) <=> \E g : Nombra(g, dir, De(segs, p))
    BY <1>2, <1>3, <1>4, <1>6, <1>8
  <1>10. ASSUME NEW g, Nombra(g, dir, De(segs, p))
         PROVE  Maquina!Celdas(p, dir) = Celdas(mem, g)
    <2>1. g \in Tabla(De(segs, p)) /\ g.id = n
      BY <1>8, <1>10
    <2>2. CASE g = segment_0
      BY <1>1, <1>3, <1>7, <2>1, <2>2
    <2>3. CASE \E s \in segs : s.pid = p /\ g = Fila(s)
      <3>1. PICK s \in segs : s.pid = p /\ g = Fila(s)
        BY <2>3
      <3>2. s.id = n /\ n # 0 /\ Clave(s) = <<p, n>>
        BY <1>3, <2>1, <3>1 DEF Clave
      <3> QED
        BY <1>5, <1>7, <3>1, <3>2
    <2> QED
      BY <1>2, <2>1, <2>2, <2>3
  <1> QED
    BY <1>9, <1>10

\* An access of n cells is inside what a process has when it is inside the row.
LEMMA DentroEs ==
    ASSUME MemoriaEnOrden, NEW p, NEW dir \in Nat, NEW n \in Nat
    PROVE  Maquina!Dentro(p, dir, n) <=>
             \E g : Nombra(g, dir, De(segs, p)) /\ n + C!get_desplazamiento_segmento(dir) <= g.size
  <1>0. /\ C!get_desplazamiento_segmento(dir) \in Nat
        /\ Maquina!desde(dir) = C!get_desplazamiento_segmento(dir)
    BY Direccion
  <1>1. /\ Maquina!Existe(p, dir) <=> \E g : Nombra(g, dir, De(segs, p))
        /\ \A g : Nombra(g, dir, De(segs, p)) => Maquina!Celdas(p, dir) = Celdas(mem, g)
    BY ExisteEs
  <1>2. \A g : Nombra(g, dir, De(segs, p)) => g.size \in Nat
    BY FilaEnMemoria DEF Nombra, MemoriaEnOrden
  <1>3. \A g : Nombra(g, dir, De(segs, p)) => Len(Maquina!Celdas(p, dir)) = g.size
    BY <1>1, <1>2, CeldasForma
  <1>4. \A g : Nombra(g, dir, De(segs, p)) =>
          (Maquina!desde(dir) + n <= Len(Maquina!Celdas(p, dir)) <=>
             n + C!get_desplazamiento_segmento(dir) <= g.size)
    BY <1>0, <1>2, <1>3
  <1> QED
    BY <1>1, <1>4 DEF Maquina!Dentro

\* A row is of as many values.
LEMMA CeldasTipo ==
    ASSUME MemoriaEnOrden, NEW g, g.base \in Nat, g.size \in Nat,
           g.base..(g.base + g.size - 1) \subseteq M!Direcciones
    PROVE  Celdas(mem, g) \in [1..g.size -> Valores]
  <1>1. ASSUME NEW i \in 1..g.size PROVE mem[g.base + i - 1] \in Valores
    <2>1. g.base + i - 1 \in M!Direcciones
      OBVIOUS
    <2> QED
      BY <2>1 DEF MemoriaEnOrden
  <1> QED
    BY <1>1 DEF Celdas

\* Part of a sequence.
LEMMA Tramo ==
    ASSUME NEW V, NEW s \in Seq(V), NEW a \in Nat, NEW n \in Nat, a + n <= Len(s)
    PROVE  SubSeq(s, a + 1, a + n) = [i \in 1..n |-> s[a + i]]
  <1>1. SubSeq(s, a + 1, a + n) = [i \in 1..(1 + (a + n) - (a + 1)) |-> s[i + (a + 1) - 1]]
    OBVIOUS
  <1>2. 1..(1 + (a + n) - (a + 1)) = 1..n /\ \A i \in 1..n : i + (a + 1) - 1 = a + i
    OBVIOUS
  <1> QED
    BY <1>1, <1>2

\* What a process reads is in the memory from the physical address on.
LEMMA LeerEs ==
    ASSUME MemoriaEnOrden, NEW p, NEW dir \in Nat, NEW g, Nombra(g, dir, De(segs, p)),
           NEW n \in Nat, n + C!get_desplazamiento_segmento(dir) <= g.size
    PROVE  Maquina!Leer(p, dir, n) =
             [i \in 1..n |-> mem[g.base + C!get_desplazamiento_segmento(dir) + i - 1]]
  <1> DEFINE d == C!get_desplazamiento_segmento(dir)
             c == Celdas(mem, g)
  <1>1. d \in Nat /\ Maquina!desde(dir) = d /\ Maquina!Celdas(p, dir) = c
    BY Direccion, ExisteEs
  <1>2. /\ g.base \in Nat /\ g.size \in Nat
        /\ g.base..(g.base + g.size - 1) \subseteq M!Direcciones
    BY FilaEnMemoria DEF Nombra, MemoriaEnOrden
  <1>3. c \in [1..g.size -> Valores] /\ Len(c) = g.size /\ \A i \in 1..g.size : c[i] = mem[g.base + i - 1]
    BY <1>2, CeldasTipo, CeldasForma
  <1>4. c \in Seq(Valores)
    BY <1>2, <1>3
  <1>5. Maquina!Leer(p, dir, n) = SubSeq(c, d + 1, d + n)
    BY <1>1 DEF Maquina!Leer
  <1> HIDE DEF c, d
  <1>6. n + d <= g.size
    BY DEF d
  <1>7. SubSeq(c, d + 1, d + n) = [i \in 1..n |-> c[d + i]]
    <2>1. d + n <= Len(c)
      BY ONLY <1>1, <1>2, <1>3, <1>6, n \in Nat
    <2> QED
      BY <1>1, <1>4, <2>1, Tramo
  <1>8. ASSUME NEW i \in 1..n PROVE c[d + i] = mem[g.base + d + i - 1]
    <2>1. d + i \in 1..g.size /\ g.base + (d + i) - 1 = g.base + d + i - 1
      BY <1>1, <1>2, <1>6
    <2> QED
      BY <1>3, <2>1
  <1>9. Maquina!Leer(p, dir, n) = [i \in 1..n |-> mem[g.base + d + i - 1]]
    BY <1>5, <1>7, <1>8
  <1> QED
    BY <1>9 DEF d

\* Rows of different segments, or of a segment and segment_0, share no cell.
LEMMA FilasAparte ==
    ASSUME NEW S, NEW occ, Ordenada(S, occ), NEW s \in S
    PROVE  /\ (s.base..(s.base + s.size - 1)) \cap
                (segment_0.base..(segment_0.base + segment_0.size - 1)) = {}
           /\ \A t \in S : t # s =>
                (s.base..(s.base + s.size - 1)) \cap (t.base..(t.base + t.size - 1)) = {}
  <1>1. \A t : M!Rango(t) = t.base..(t.base + t.size - 1)
    BY DEF M!Rango
  <1>2. segment_0.base..(segment_0.base + segment_0.size - 1) = M!Segmento0
    BY TukiAssumption DEF segment_0, M!Segmento0
  <1>3. M!Rango(s) \cap M!Segmento0 = {}
    BY DEF Ordenada
  <1>4. \A t \in S : t # s => M!Rango(s) \cap M!Rango(t) = {}
    BY DEF Ordenada
  <1> QED
    BY <1>1, <1>2, <1>3, <1>4

\* The numbers of segment_0 and of the segments.
LEMMA FilaBuena ==
    ASSUME NEW S, NEW occ, Ordenada(S, occ), NEW h, h = segment_0 \/ h \in S
    PROVE  /\ h.base \in Nat /\ h.size \in Nat
           /\ h.base..(h.base + h.size - 1) \subseteq M!Direcciones
  <1>1. CASE h = segment_0
    BY <1>1, TukiAssumption DEF segment_0, M!Direcciones
  <1>2. CASE h \in S
    <2>1. h \in M!Segmento /\ M!Rango(h) \subseteq M!Direcciones
      BY <1>2 DEF Ordenada
    <2> QED
      BY <2>1, Numeros DEF M!Rango
  <1> QED
    BY <1>1, <1>2

\* What a process writes changes what it named and nothing else.
LEMMA EscribirEs ==
    ASSUME MemoriaEnOrden, NEW p, NEW dir \in Nat, NEW g, Nombra(g, dir, De(segs, p)),
           NEW datos, Len(datos) \in Nat, C!get_desplazamiento_segmento(dir) + Len(datos) <= g.size,
           segs' = segs, Escrito(mem, g.base + C!get_desplazamiento_segmento(dir), datos, mem')
    PROVE  Maquina!Escribir(p, dir, datos)
  <1> DEFINE d == C!get_desplazamiento_segmento(dir)
             k == C!get_num_segmento(dir)
  <1>0. d \in Nat /\ Maquina!desde(dir) = d /\ Maquina!segmento(dir) = k /\ Ordenada(segs, ocupado)
    BY Direccion DEF MemoriaEnOrden
  <1>1. d + Len(datos) <= g.size /\ Escrito(mem, g.base + d, datos, mem') /\ g.id = k
    BY DEF Nombra
  <1> HIDE DEF d, k
  <1>2. contenido = Vista(segs, mem) /\ contenido' = Vista(segs, mem')
    BY ContenidoVista
  <1>3. comun = Celdas(mem, segment_0) /\ comun' = Celdas(mem', segment_0)
    BY DEF comun, Celdas, segment_0
  <1>4. g = segment_0 \/ \E s \in segs : s.pid = p /\ g = Fila(s)
    BY <1>0, EnTabla DEF Nombra
  <1>5. \A s \in segs : s.id # 0
    BY <1>0, Numeros DEF Ordenada
  <1>6. /\ segment_0.id = 0 /\ segment_0.base \in Nat /\ segment_0.size \in Nat
        /\ segment_0.base..(segment_0.base + segment_0.size - 1) \subseteq M!Direcciones
    BY <1>0, FilaBuena DEF segment_0
  <1>7. CASE g = segment_0
    <2>1. Celdas(mem', segment_0) = Maquina!Pisar(Celdas(mem, segment_0), d, datos)
      BY <1>0, <1>1, <1>6, <1>7, EscribeEnFila
    <2>2. ASSUME NEW s \in segs PROVE Celdas(mem', s) = Celdas(mem, s)
      <3>1. /\ s.base \in Nat /\ s.size \in Nat
            /\ s.base..(s.base + s.size - 1) \subseteq M!Direcciones
        BY <1>0, FilaBuena
      <3>2. (s.base..(s.base + s.size - 1)) \cap
              (segment_0.base..(segment_0.base + segment_0.size - 1)) = {}
        BY <1>0, FilasAparte
      <3>3. /\ Escrito(mem, segment_0.base + d, datos, mem') /\ d + Len(datos) <= segment_0.size
            /\ d \in Nat /\ Len(datos) \in Nat
        BY <1>0, <1>1, <1>7
      <3> QED
        BY ONLY <1>6, <3>1, <3>2, <3>3, EscribeFuera
    <2>3. contenido' = contenido
      <3>1. contenido = [x \in Claves(segs) |-> contenido[x]]
        BY <1>2 DEF Vista
      <3>2. \A s \in segs : contenido[Clave(s)] = Celdas(mem', s)
        BY <1>0, <1>2, <2>2, VistaVale
      <3> QED
        BY <1>0, <1>2, <3>1, <3>2, VistaUnica
    <2>4. k = 0
      BY <1>1, <1>6, <1>7
    <2> QED
      BY <1>0, <1>3, <2>1, <2>3, <2>4 DEF Maquina!Escribir
  <1>8. CASE \E s \in segs : s.pid = p /\ g = Fila(s)
    <2>1. PICK s \in segs : s.pid = p /\ g = Fila(s)
      BY <1>8
    <2>2. /\ s.base = g.base /\ s.size = g.size /\ s.id = k /\ k # 0 /\ Clave(s) = <<p, k>>
      BY <1>1, <1>5, <2>1, FilaCeldas DEF Clave
    <2>3. /\ s.base \in Nat /\ s.size \in Nat
          /\ s.base..(s.base + s.size - 1) \subseteq M!Direcciones
      BY <1>0, FilaBuena
    <2>4. Escrito(mem, s.base + d, datos, mem') /\ d + Len(datos) <= s.size
      BY <1>1, <2>2
    <2>5. Celdas(mem', s) = Maquina!Pisar(Celdas(mem, s), d, datos)
      BY <1>0, <2>3, <2>4, EscribeEnFila
    <2>6. ASSUME NEW h, h = segment_0 \/ h \in segs, h # s
          PROVE  Celdas(mem', h) = Celdas(mem, h)
      <3>1. /\ h.base \in Nat /\ h.size \in Nat
            /\ h.base..(h.base + h.size - 1) \subseteq M!Direcciones
        BY <1>0, <2>6, FilaBuena
      <3>2. (h.base..(h.base + h.size - 1)) \cap (s.base..(s.base + s.size - 1)) = {}
        BY <1>0, <2>6, FilasAparte
      <3> QED
        BY ONLY <1>0, <2>3, <2>4, <3>1, <3>2, Len(datos) \in Nat, EscribeFuera
    <2>7. comun' = comun
      <3>1. segment_0 # s
        BY <1>5, <1>6
      <3>2. Celdas(mem', segment_0) = Celdas(mem, segment_0)
        BY <2>6, <3>1
      <3> QED
        BY <1>3, <3>2
    <2> DEFINE f == [contenido EXCEPT ![<<p, k>>] = Maquina!Pisar(@, d, datos)]
    <2>8. /\ DOMAIN contenido = Claves(segs)
          /\ \A t \in segs : Clave(t) \in Claves(segs) /\ contenido[Clave(t)] = Celdas(mem, t)
      <3>1. DOMAIN contenido = Claves(segs)
        BY <1>2 DEF Vista
      <3>2. \A t \in segs : Clave(t) \in Claves(segs) /\ Vista(segs, mem)[Clave(t)] = Celdas(mem, t)
        BY <1>0, VistaVale
      <3> QED
        BY <1>2, <3>1, <3>2
    <2>9. contenido = [x \in Claves(segs) |-> contenido[x]]
      BY <1>2 DEF Vista
    <2>10. f = [x \in Claves(segs) |-> f[x]]
      BY <2>8, <2>9
    <2>11. ASSUME NEW t \in segs PROVE f[Clave(t)] = Celdas(mem', t)
      <3>1. CASE t = s
        BY <2>2, <2>5, <2>8, <3>1
      <3>2. CASE t # s
        <4>1. Clave(t) # Clave(s)
          BY <1>0, <3>2 DEF Clave, Ordenada
        <4> QED
          BY <2>2, <2>6, <2>8, <3>2, <4>1
      <3> QED
        BY <3>1, <3>2
    <2> HIDE DEF f
    <2>12. contenido' = f
      BY <1>0, <1>2, <2>10, <2>11, VistaUnica
    <2>13. contenido' = [contenido EXCEPT ![<<p, k>>] = Maquina!Pisar(@, d, datos)]
      BY <2>12 DEF f
    <2> QED
      BY <1>0, <2>2, <2>7, <2>13 DEF Maquina!Escribir
  <1> QED
    BY <1>4, <1>7, <1>8

-----------------------------------------------------------------------------
(* What the requests do to the memory                                      *)

\* The place chosen is free.
LEMMA LugarLibre ==
    ASSUME NEW occ, NEW n, NEW b \in M!get_base_adress(occ, n)
    PROVE  b \in Nat /\ \A a \in b..(b + n - 1) : a \in M!Direcciones \ occ
  BY DEF M!get_base_adress, M!Huecos, M!Cabe, M!Direcciones

\* CREATE_SEGMENT adds a segment of its own when it answers with one.
LEMMA EfectoCrear ==
    ASSUME MemoriaEnOrden, IdsPropios, NEW q, M!create_segment(q),
           q.pid \in Pid, q.id \in Ids, q.size \in Sizes
    PROVE  /\ mem' = mem /\ MemoriaEnOrden'
           /\ IF respuesta' = "SEGMENTO"
              THEN \E t : /\ t \in M!Segmento /\ segs' = segs \cup {t}
                          /\ t.pid = q.pid /\ t.id = q.id /\ t.size = q.size
              ELSE segs' = segs
  <1>0. /\ mem' = mem /\ \A s \in segs : s.id # q.id
        /\ Ordenada(segs, ocupado) /\ mem \in [M!Direcciones -> Valores]
    BY DEF M!create_segment, MemoriaEnOrden
  <1>1. \/ segs' = segs /\ ocupado' = ocupado /\ respuesta' # "SEGMENTO"
        \/ \E b \in M!get_base_adress(ocupado, q.size) :
             LET s == [pid |-> q.pid, id |-> q.id, base |-> b, size |-> q.size] IN
             segs' = segs \cup {s} /\ ocupado' = ocupado \cup M!Rango(s) /\ respuesta' = "SEGMENTO"
    BY DEF M!create_segment, M!Asignar
  <1>2. CASE segs' = segs /\ ocupado' = ocupado /\ respuesta' # "SEGMENTO"
    BY <1>0, <1>2 DEF MemoriaEnOrden, Ordenada
  <1>3. ASSUME NEW b \in M!get_base_adress(ocupado, q.size), NEW t,
               t = [pid |-> q.pid, id |-> q.id, base |-> b, size |-> q.size],
               segs' = segs \cup {t}, ocupado' = ocupado \cup M!Rango(t), respuesta' = "SEGMENTO"
        PROVE  /\ MemoriaEnOrden'
               /\ t \in M!Segmento /\ t.pid = q.pid /\ t.id = q.id /\ t.size = q.size
    <2>1. b \in Nat /\ \A a \in b..(b + q.size - 1) : a \in M!Direcciones \ ocupado
      BY LugarLibre
    <2>2. /\ t \in M!Segmento /\ t.pid = q.pid /\ t.id = q.id /\ t.size = q.size /\ t.base = b
      BY <1>3, <2>1 DEF M!Segmento
    <2>3. M!Rango(t) \subseteq M!Direcciones \ ocupado
      BY <2>1, <2>2 DEF M!Rango
    <2>4. Ordenada(segs \cup {t}, ocupado \cup M!Rango(t))
      BY <1>0, <2>2, <2>3, OrdenadaAgrega
    <2>5. Ordenada(segs', ocupado')
      BY <1>3, <2>4
    <2> QED
      BY <1>0, <2>2, <2>5 DEF MemoriaEnOrden, Ordenada
  <1>4. CASE \E b \in M!get_base_adress(ocupado, q.size) :
             LET s == [pid |-> q.pid, id |-> q.id, base |-> b, size |-> q.size] IN
             segs' = segs \cup {s} /\ ocupado' = ocupado \cup M!Rango(s) /\ respuesta' = "SEGMENTO"
    <2>0. PICK b \in M!get_base_adress(ocupado, q.size) :
             LET s == [pid |-> q.pid, id |-> q.id, base |-> b, size |-> q.size] IN
             segs' = segs \cup {s} /\ ocupado' = ocupado \cup M!Rango(s) /\ respuesta' = "SEGMENTO"
      BY <1>4
    <2>1. PICK t :
             /\ t = [pid |-> q.pid, id |-> q.id, base |-> b, size |-> q.size]
             /\ segs' = segs \cup {t} /\ ocupado' = ocupado \cup M!Rango(t) /\ respuesta' = "SEGMENTO"
      BY <2>0
    <2>2. /\ MemoriaEnOrden'
          /\ t \in M!Segmento /\ t.pid = q.pid /\ t.id = q.id /\ t.size = q.size
      BY <1>3, <2>1
    <2> QED
      BY <1>0, <2>1, <2>2
  <1> QED
    BY <1>1, <1>2, <1>4

\* DELETE_SEGMENT takes the segment of the process that asks, ids being of one each.
LEMMA EfectoBorrar ==
    ASSUME MemoriaEnOrden, NEW p, NEW id, M!delete_segment(p, id)
    PROVE  /\ mem' = mem /\ MemoriaEnOrden'
           /\ \E s \in segs : s.pid = p /\ s.id = id /\ segs' = segs \ {s}
  <1>0. mem' = mem /\ Ordenada(segs, ocupado) /\ mem \in [M!Direcciones -> Valores]
    BY DEF M!delete_segment, MemoriaEnOrden
  <1>1. PICK s \in segs : s.pid = p /\ s.id = id
    BY DEF M!delete_segment, M!DeProceso
  <1>2. PICK t \in M!get_segment_by_id(id) : /\ segs' = IF t.pid = p THEN segs \ {t} ELSE segs
                                             /\ ocupado' = ocupado \ M!Rango(t)
    BY DEF M!delete_segment
  <1>3. t \in segs /\ t.id = id
    BY <1>2 DEF M!get_segment_by_id
  <1>4. t = s
    BY <1>0, <1>1, <1>3 DEF Ordenada
  <1>5. segs' = segs \ {s} /\ ocupado' = ocupado \ M!Rango(s)
    BY <1>1, <1>2, <1>4
  <1>6. UNION {M!Rango(u) : u \in {s}} = M!Rango(s)
    OBVIOUS
  <1>7. Ordenada(segs \ {s}, ocupado \ UNION {M!Rango(u) : u \in {s}})
    BY <1>0, OrdenadaQuita
  <1>8. Ordenada(segs', ocupado')
    BY <1>5, <1>6, <1>7
  <1> QED
    BY <1>0, <1>1, <1>5, <1>8 DEF MemoriaEnOrden, Ordenada

\* PROCESS_END takes all the segments of a process.
LEMMA EfectoTerminar ==
    ASSUME MemoriaEnOrden, NEW p, M!delete_segments_table(p)
    PROVE  mem' = mem /\ segs' = segs \ De(segs, p) /\ MemoriaEnOrden'
  <1>1. /\ mem' = mem /\ segs' = segs \ De(segs, p)
        /\ ocupado' = ocupado \ UNION {M!Rango(s) : s \in De(segs, p)}
    BY DeEs DEF M!delete_segments_table, De, M!DeProceso
  <1>2. Ordenada(segs \ De(segs, p), ocupado \ UNION {M!Rango(s) : s \in De(segs, p)})
    BY OrdenadaQuita DEF MemoriaEnOrden, De
  <1>3. Ordenada(segs', ocupado')
    BY <1>1, <1>2
  <1> QED
    BY <1>1, <1>3 DEF MemoriaEnOrden, Ordenada

\* A turn of the compaction moves a segment with all it holds.
LEMMA EfectoMover ==
    ASSUME MemoriaEnOrden, M!compact_memory
    PROVE  MemoriaEnOrden' /\ contenido' = contenido /\ comun' = comun
  <1>0. Ordenada(segs, ocupado) /\ mem \in [M!Direcciones -> Valores]
    BY DEF MemoriaEnOrden
  <1>a. PICK s \in segs : \E b \in M!get_base_adress(ocupado \ M!Rango(s), s.size) :
          LET t == [s EXCEPT !.base = b] IN
          /\ segs' = (segs \ {s}) \cup {t}
          /\ ocupado' = (ocupado \ M!Rango(s)) \cup M!Rango(t)
          /\ mem' = M!move_data(b, s.base, s.size)
    BY DEF M!compact_memory
  <1>b. PICK b \in M!get_base_adress(ocupado \ M!Rango(s), s.size) :
          LET t == [s EXCEPT !.base = b] IN
          /\ segs' = (segs \ {s}) \cup {t}
          /\ ocupado' = (ocupado \ M!Rango(s)) \cup M!Rango(t)
          /\ mem' = M!move_data(b, s.base, s.size)
    BY <1>a
  <1>1. PICK t :
          /\ t = [s EXCEPT !.base = b]
          /\ segs' = (segs \ {s}) \cup {t}
          /\ ocupado' = (ocupado \ M!Rango(s)) \cup M!Rango(t)
          /\ mem' = M!move_data(b, s.base, s.size)
    BY <1>b
  <1>2. s \in M!Segmento /\ DOMAIN s = CamposSegmento /\ s.size \in Nat /\ s.base \in Nat
    BY <1>0, Numeros DEF Ordenada
  <1>3. b \in Nat /\ \A a \in b..(b + s.size - 1) : a \in M!Direcciones \ (ocupado \ M!Rango(s))
    BY LugarLibre
  <1>4. /\ t \in M!Segmento /\ t.pid = s.pid /\ t.id = s.id /\ t.size = s.size /\ t.base = b
    BY <1>1, <1>2, <1>3 DEF M!Segmento
  <1>5. M!Rango(t) \subseteq M!Direcciones \ (ocupado \ M!Rango(s))
    BY <1>3, <1>4 DEF M!Rango
  <1>6. UNION {M!Rango(u) : u \in {s}} = M!Rango(s)
    OBVIOUS
  <1>7. Ordenada(segs \ {s}, ocupado \ M!Rango(s))
    <2>1. Ordenada(segs \ {s}, ocupado \ UNION {M!Rango(u) : u \in {s}})
      BY <1>0, OrdenadaQuita
    <2> QED
      BY <1>6, <2>1
  <1>8. \A u \in segs \ {s} : u.id # t.id
    BY <1>0, <1>4 DEF Ordenada
  <1>9. Ordenada(segs', ocupado')
    <2>1. Ordenada((segs \ {s}) \cup {t}, (ocupado \ M!Rango(s)) \cup M!Rango(t))
      BY <1>4, <1>5, <1>7, <1>8, OrdenadaAgrega
    <2> QED
      BY <1>1, <2>1
  <1>10. s.base..(s.base + s.size - 1) \subseteq M!Direcciones
    BY <1>0, FilaBuena
  <1>11. \A a \in M!Direcciones : mem'[a] = IF a \in b..(b + s.size - 1) THEN mem[s.base + (a - b)] ELSE mem[a]
    BY <1>1 DEF M!move_data
  <1>12. mem' \in [M!Direcciones -> Valores]
    <2>1. \A a \in b..(b + s.size - 1) : s.base + (a - b) \in M!Direcciones
      BY <1>2, <1>3, <1>10
    <2> QED
      BY <1>0, <1>1, <2>1 DEF M!move_data
  <1>13. MemoriaEnOrden'
    BY <1>9, <1>12 DEF MemoriaEnOrden, Ordenada
  <1>14. ASSUME NEW h, h = segment_0 \/ h \in segs \ {s}
         PROVE  Celdas(mem', h) = Celdas(mem, h)
    <2>1. /\ h.base \in Nat /\ h.size \in Nat
          /\ h.base..(h.base + h.size - 1) \subseteq M!Direcciones
      BY <1>7, <1>14, FilaBuena
    <2>2. h.base..(h.base + h.size - 1) \subseteq ocupado \ M!Rango(s)
      <3>1. CASE h = segment_0
        <4>1. h.base..(h.base + h.size - 1) = M!Segmento0
          BY <3>1, TukiAssumption DEF segment_0, M!Segmento0
        <4> QED
          BY <4>1, <1>7, OrdenadaCeldas
      <3>2. CASE h \in segs \ {s}
        <4>1. M!Rango(h) \subseteq ocupado \ M!Rango(s)
          BY <3>2, <1>7, OrdenadaCeldas
        <4> QED
          BY <4>1 DEF M!Rango
      <3> QED
        BY <1>14, <3>1, <3>2
    <2>3. ASSUME NEW i \in 1..h.size PROVE mem'[h.base + i - 1] = mem[h.base + i - 1]
      <3>1. h.base + i - 1 \in h.base..(h.base + h.size - 1)
        BY <2>1
      <3>2. h.base + i - 1 \notin b..(b + s.size - 1)
        BY <1>3, <2>2, <3>1
      <3> QED
        BY <1>11, <2>1, <3>1, <3>2
    <2> QED
      BY <2>1, <2>3, CeldasIgual
  <1>15. Celdas(mem', t) = Celdas(mem, s)
    <2>1. ASSUME NEW i \in 1..s.size PROVE mem'[t.base + i - 1] = mem[s.base + i - 1]
      <3>1. b + i - 1 \in b..(b + s.size - 1) /\ s.base + ((b + i - 1) - b) = s.base + i - 1
        BY <1>2, <1>3
      <3>2. b + i - 1 \in M!Direcciones
        BY <1>3, <3>1
      <3> QED
        BY <1>4, <1>11, <3>1, <3>2
    <2> QED
      BY <1>2, <1>4, <2>1, CeldasIgual
  <1>16. Vista(segs', mem') = Vista(segs, mem)
    <2>1. Clave(t) = Clave(s) /\ \A u \in segs : u # s => Celdas(mem', u) = Celdas(mem, u)
      BY <1>4, <1>14 DEF Clave
    <2> QED
      BY <1>0, <1>1, <1>9, <1>15, <2>1, VistaMueve
  <1>17. comun' = comun
    <2>1. Celdas(mem', segment_0) = Celdas(mem, segment_0)
      BY <1>14
    <2> QED
      BY <2>1 DEF comun, Celdas, segment_0
  <1> QED
    BY <1>13, <1>16, <1>17, ContenidoVista

\* Memoria knows whose the cells of a row are.
LEMMA Conoce ==
    ASSUME MemoriaEnOrden, NEW p, tablas \in Seq(Pid), Contains(tablas, p),
           NEW g \in Tabla(De(segs, p)), NEW a \in g.base..(g.base + g.size - 1)
    PROVE  p \in M!get_pid_by_address(a)
  <1>0. Ordenada(segs, ocupado)
    BY DEF MemoriaEnOrden
  <1>1. p \in M!ToSet(tablas)
    BY DEF Contains, M!ToSet
  <1>2. g = segment_0 \/ \E s \in segs : s.pid = p /\ g = Fila(s)
    BY <1>0, EnTabla
  <1>3. CASE g = segment_0
    <2>1. a \in M!Segmento0
      BY <1>3, TukiAssumption DEF segment_0, M!Segmento0
    <2> QED
      BY <1>1, <2>1 DEF M!get_pid_by_address
  <1>4. CASE \E s \in segs : s.pid = p /\ g = Fila(s)
    <2>1. PICK s \in segs : s.pid = p /\ g = Fila(s)
      BY <1>4
    <2>2. a \in M!Rango(s)
      BY <2>1, FilaCeldas DEF M!Rango
    <2> QED
      BY <1>1, <2>1, <2>2 DEF M!get_pid_by_address, M!DeProceso
  <1> QED
    BY <1>2, <1>3, <1>4

\* The access of n cells from d on, inside the row g of p.
EnFila(p, g, d, n) ==
    /\ g \in Tabla(De(segs, p)) /\ d \in Nat /\ n \in Nat /\ n + d <= g.size
    /\ tablas \in Seq(Pid) /\ Contains(tablas, p)

\* Such an access is inside the memory, in cells that memoria knows to be of p.
LEMMA EnFilaCelda ==
    ASSUME MemoriaEnOrden, NEW p, NEW g, NEW d, NEW n, EnFila(p, g, d, n)
    PROVE  /\ g.base \in Nat /\ g.size \in Nat /\ g.base + d + n <= TamMemoria
           /\ n # 0 => p \in M!get_pid_by_address(g.base + d)
  <1>1. g.base \in Nat /\ g.size \in Nat /\ g.base + g.size <= TamMemoria
    BY FilaEnMemoria DEF MemoriaEnOrden, EnFila
  <1>2. d \in Nat /\ n \in Nat /\ n + d <= g.size /\ TamMemoria \in Nat
    BY TukiAssumption DEF EnFila
  <1>3. g.base + d + n <= TamMemoria
    BY ONLY <1>1, <1>2
  <1>4. n # 0 => g.base + d \in g.base..(g.base + g.size - 1)
    BY ONLY <1>1, <1>2
  <1>5. n # 0 => p \in M!get_pid_by_address(g.base + d)
    BY <1>4, Conoce DEF EnFila
  <1> QED
    BY <1>1, <1>3, <1>5

\* read_memory returns those cells.
LEMMA EfectoLeer ==
    ASSUME MemoriaEnOrden, NEW p, NEW g, NEW d, NEW n, EnFila(p, g, d, n)
    PROVE  M!read_memory(g.base + d, n) = [i \in 1..n |-> mem[g.base + d + i - 1]]
  <1>1. CASE n # 0
    BY <1>1, EnFilaCelda DEF M!read_memory
  <1>2. CASE n = 0
    <2>1. [i \in 1..0 |-> mem[g.base + d + i - 1]] = <<>>
      OBVIOUS
    <2> QED
      BY <1>2, <2>1 DEF M!read_memory
  <1> QED
    BY <1>1, <1>2

\* write_memory changes those cells and no other.
LEMMA EfectoEscribir ==
    ASSUME MemoriaEnOrden, NEW p, NEW g, NEW d, NEW n, EnFila(p, g, d, n),
           NEW datos \in [1..n -> Valores], M!write_memory(g.base + d, datos)
    PROVE  segs' = segs /\ Escrito(mem, g.base + d, datos, mem') /\ MemoriaEnOrden'
  <1>0. /\ segs' = segs /\ ocupado' = ocupado /\ mem \in [M!Direcciones -> Valores]
        /\ Ordenada(segs, ocupado)
    BY DEF M!write_memory, MemoriaEnOrden
  <1>1. g.base \in Nat /\ g.base + d + n <= TamMemoria /\ TamMemoria \in Nat /\ d \in Nat /\ n \in Nat
    BY EnFilaCelda, TukiAssumption DEF EnFila
  <1>2. Len(datos) = n
    BY <1>1
  <1>3. ~(g.base + d + Len(datos) > TamMemoria)
    BY <1>1, <1>2
  <1> DEFINE nueva == [x \in M!Direcciones |-> IF x \in (g.base + d)..(g.base + d + Len(datos) - 1)
                                              THEN datos[x - (g.base + d) + 1] ELSE mem[x]]
  <1>4. Escrito(mem, g.base + d, datos, mem')
    <2>1. CASE n # 0
      <3>1. M!get_pid_by_address(g.base + d) # {}
        BY <2>1, EnFilaCelda
      <3>2. mem' = nueva
        BY <1>3, <3>1 DEF M!write_memory
      <3> QED
        BY <3>2 DEF Escrito
    <2>2. CASE n = 0
      <3>1. nueva = mem
        <4>1. \A x \in M!Direcciones : x \notin (g.base + d)..(g.base + d + Len(datos) - 1)
          BY <1>1, <1>2, <2>2
        <4>2. nueva = [x \in M!Direcciones |-> mem[x]]
          BY <4>1
        <4> QED
          BY <1>0, <4>2
      <3>2. mem' = nueva
        BY <3>1 DEF M!write_memory
      <3> QED
        BY <3>2 DEF Escrito
    <2> QED
      BY <2>1, <2>2
  <1>5. mem' \in [M!Direcciones -> Valores]
    <2>1. ASSUME NEW x \in M!Direcciones, x \in (g.base + d)..(g.base + d + Len(datos) - 1)
          PROVE  datos[x - (g.base + d) + 1] \in Valores
      <3>1. x - (g.base + d) + 1 \in 1..n
        BY <1>1, <1>2, <2>1
      <3> QED
        BY <3>1
    <2> QED
      BY <1>0, <1>4, <2>1 DEF Escrito
  <1> QED
    BY <1>0, <1>4, <1>5 DEF MemoriaEnOrden, Ordenada

-----------------------------------------------------------------------------
(* Registers and instructions                                              *)

\* A register file: cells of each register.
EsRegs(f) == DOMAIN f = Registros /\ \A r \in Registros : f[r] \in [1..TamRegistro[r] -> Valores]

\* The access is inside a row of the table of S.
Alcanza(S, i) ==
    \E g : Nombra(g, i.dir, S) /\ C!Tamanio(i) + C!get_desplazamiento_segmento(i.dir) <= g.size

\* The registers of a new process.
LEMMA EnCeros == EsRegs(C!registros_en_cero) /\ C!registros_en_cero = Maquina!Ceros
  <1>1. 0 \in Valores /\ TamRegistro \in [Registros -> Nat \ {0}]
    BY TukiAssumption
  <1> QED
    BY <1>1 DEF EsRegs, C!registros_en_cero, Maquina!Ceros

\* A value over the start of a register.
LEMMA PisarInicio ==
    ASSUME NEW n \in Nat, NEW v \in [1..n -> Valores], NEW datos \in Seq(Valores), Len(datos) <= n
    PROVE  /\ datos \o SubSeq(v, Len(datos) + 1, Len(v)) = Maquina!Pisar(v, 0, datos)
           /\ Maquina!Pisar(v, 0, datos) \in [1..n -> Valores]
           /\ Len(datos) = n => Maquina!Pisar(v, 0, datos) = datos
  <1>1. v \in Seq(Valores) /\ Len(v) = n /\ Len(datos) \in Nat
    OBVIOUS
  <1> DEFINE m == Len(datos)
             cola == SubSeq(v, m + 1, n)
  <1>2. cola \in Seq(Valores) /\ Len(cola) = n - m /\ \A i \in 1..(n - m) : cola[i] = v[m + i]
    <2>1. m + (n - m) = n /\ n - m \in Nat /\ m + (n - m) <= Len(v)
      BY <1>1
    <2>2. SubSeq(v, m + 1, m + (n - m)) = [i \in 1..(n - m) |-> v[m + i]]
      BY <1>1, <2>1, Tramo
    <2>3. cola = [i \in 1..(n - m) |-> v[m + i]]
      BY <2>1, <2>2
    <2>4. \A i \in 1..(n - m) : m + i \in 1..n
      BY <1>1
    <2>5. cola \in [1..(n - m) -> Valores]
      BY <2>3, <2>4
    <2> HIDE DEF cola
    <2> QED
      BY <2>1, <2>3, <2>5
  <1>3. datos \in [1..m -> Valores]
    OBVIOUS
  <1>4. Maquina!Pisar(v, 0, datos) = [i \in 1..n |-> IF i \in 1..m THEN datos[i] ELSE v[i]]
    BY <1>1 DEF Maquina!Pisar
  <1> HIDE DEF cola, m
  <1>m. m \in Nat /\ m <= n /\ m = Len(datos)
    BY DEF m
  <1>5. datos \o cola \in Seq(Valores) /\ Len(datos \o cola) = n
    BY <1>2, <1>m
  <1>6. ASSUME NEW i \in 1..n
        PROVE  (datos \o cola)[i] = IF i \in 1..m THEN datos[i] ELSE v[i]
    <2>1. CASE i \in 1..m
      BY <1>2, <1>m, <2>1
    <2>2. CASE i \notin 1..m
      <3>1. i - m \in 1..(n - m) /\ m + (i - m) = i
        BY <1>m, <2>2
      <3>2. cola[i - m] = v[i]
        BY <1>2, <3>1
      <3>3. (datos \o cola)[i] = cola[i - m]
        BY <1>2, <1>m, <2>2
      <3> QED
        BY <2>2, <3>2, <3>3
    <2> QED
      BY <2>1, <2>2
  <1>7. datos \o cola = [i \in 1..n |-> (datos \o cola)[i]]
    <2>1. PICK w : w = datos \o cola
      OBVIOUS
    <2>2. w \in Seq(Valores) /\ Len(w) = n
      BY <1>5, <2>1
    <2>3. w \in [1..n -> Valores]
      BY <2>2
    <2> QED
      BY <2>1, <2>3
  <1>8. datos \o cola = Maquina!Pisar(v, 0, datos)
    BY <1>4, <1>6, <1>7
  <1>9. Maquina!Pisar(v, 0, datos) \in [1..n -> Valores]
    BY <1>3, <1>4
  <1>10. ASSUME m = n PROVE Maquina!Pisar(v, 0, datos) = datos
    BY <1>3, <1>4, <1>10
  <1> QED
    BY <1>1, <1>8, <1>9, <1>10, <1>m DEF cola

\* What SET and MOV_IN do to the registers of the CPU.
LEMMA CopiarEs ==
    ASSUME EsRegs(cpu_registers), NEW r \in Registros, NEW datos \in Seq(Valores),
           Len(datos) <= TamRegistro[r]
    PROVE  /\ C!Copiar(r, datos) = [cpu_registers EXCEPT ![r] = Maquina!Pisar(@, 0, datos)]
           /\ EsRegs(C!Copiar(r, datos))
           /\ Len(datos) = TamRegistro[r] => C!Copiar(r, datos) = [cpu_registers EXCEPT ![r] = datos]
  <1>1. TamRegistro[r] \in Nat /\ cpu_registers[r] \in [1..TamRegistro[r] -> Valores]
    BY TukiAssumption DEF EsRegs
  <1> DEFINE v == cpu_registers[r]
             w == Maquina!Pisar(v, 0, datos)
  <1>2. /\ datos \o SubSeq(v, Len(datos) + 1, Len(v)) = w
        /\ w \in [1..TamRegistro[r] -> Valores]
        /\ Len(datos) = TamRegistro[r] => w = datos
    BY <1>1, PisarInicio
  <1>3. C!Copiar(r, datos) = [cpu_registers EXCEPT ![r] = w]
    BY <1>2 DEF C!Copiar
  <1> HIDE DEF w
  <1>4. EsRegs([cpu_registers EXCEPT ![r] = w])
    BY <1>2 DEF EsRegs
  <1> QED
    BY <1>2, <1>3, <1>4 DEF w

\* How many cells, and where, an access is.
LEMMA TamanioEs ==
    ASSUME ProgramasTipados, NEW i \in Instrucciones, i.op \in Accesos
    PROVE  /\ i.dir \in Nat /\ C!Tamanio(i) \in Nat /\ Maquina!Cant(i) = C!Tamanio(i)
           /\ i.op \in {"MOV_IN", "MOV_OUT"} =>
                i.reg \in Registros /\ C!Tamanio(i) = TamRegistro[i.reg] /\ TamRegistro[i.reg] \in Nat \ {0}
           /\ i.op \in {"F_READ", "F_WRITE"} => C!Tamanio(i) = i.cant
  BY TukiAssumption DEF ProgramasTipados, Accesos, C!Tamanio, C!Movs, Maquina!Cant

\* The abstract machine and the table allow the same accesses.
LEMMA ValidaEs ==
    ASSUME ProgramasTipados, MemoriaEnOrden, NEW p, NEW i \in Instrucciones, orden[p] = i
    PROVE  Maquina!Valida(p) <=> (i.op \in Accesos => Alcanza(De(segs, p), i))
  <1>1. Maquina!Valida(p) <=> (i.op \in Accesos => Maquina!Dentro(p, i.dir, Maquina!Cant(i)))
    BY DEF Maquina!Valida, Maquina!Accede, Accesos
  <1>2. ASSUME i.op \in Accesos
        PROVE  Maquina!Dentro(p, i.dir, Maquina!Cant(i)) <=> Alcanza(De(segs, p), i)
    <2>1. i.dir \in Nat /\ C!Tamanio(i) \in Nat /\ Maquina!Cant(i) = C!Tamanio(i)
      BY <1>2, TamanioEs
    <2> QED
      BY <2>1, DentroEs DEF Alcanza
  <1> QED
    BY <1>1, <1>2

\* decode and the table allow the same accesses.
LEMMA DecodificaEs ==
    ASSUME ProgramasTipados, MemoriaEnOrden, NEW p, contexto.tabla = Tabla(De(segs, p)),
           NEW i \in Instrucciones, i.op \in Accesos
    PROVE  /\ C!Decodificada(i) => Alcanza(De(segs, p), i)
           /\ C!SegmentoNulo(i) \/ C!seg_fault(i) => ~Alcanza(De(segs, p), i)
  <1>1. i.dir \in Nat /\ C!Tamanio(i) \in Nat /\ Ordenada(segs, ocupado)
    BY TamanioEs DEF MemoriaEnOrden
  <1>2. C!get_desplazamiento_segmento(i.dir) \in Nat
    BY <1>1, Direccion
  <1> DEFINE t == C!Tamanio(i) + C!get_desplazamiento_segmento(i.dir)
  <1>3. t \in Nat
    BY <1>1, <1>2
  <1> DEFINE G == C!get_by_num_segmento(C!get_num_segmento(i.dir), contexto.tabla)
  <1>4. \A g : g \in G <=> Nombra(g, i.dir, De(segs, p))
    BY DEF C!get_by_num_segmento, Nombra
  <1>5. \A g, h \in G : g = h
    BY <1>1, <1>4, EnTabla DEF Nombra
  <1>6. \A g \in G : g.size \in Nat
    BY <1>1, <1>4, FilaEnMemoria DEF Nombra
  <1>7. C!SegmentoNulo(i) <=> G = {}
    BY DEF C!SegmentoNulo, C!Movs, C!Files, Accesos
  <1>8. C!seg_fault(i) <=> \E g \in G : t > g.size
    BY DEF C!seg_fault, C!chequear_seg_fault, C!Movs, C!Files, Accesos
  <1>9. Alcanza(De(segs, p), i) <=> \E g \in G : t <= g.size
    BY <1>4 DEF Alcanza
  <1>10. C!Decodificada(i) <=> ~C!SegmentoNulo(i) /\ ~C!seg_fault(i)
    BY DEF C!Decodificada
  <1> HIDE DEF G, t
  <1>11. \A g \in G : t > g.size <=> ~(t <= g.size)
    BY <1>3, <1>6
  <1> QED
    BY <1>5, <1>7, <1>8, <1>9, <1>10, <1>11

-----------------------------------------------------------------------------
(* The instruction a process is executing                                  *)

\* The context of the CPU is of a process in EXEC, or of one that a dead CPU ended.
EnMarcha ==
    /\ cfase \in C!Fases
    /\ cfase # "espera" =>
        /\ contexto.pid \in Pid
        /\ pcb[contexto.pid].estado = "EXEC" \/ (cfase = "caida" /\ pcb[contexto.pid].estado = "EXIT")
    /\ cfase \in {"execute", "desalojo", "caida"} => instruccion \in Instrucciones

\* Why the instruction i came back with the status st.
Motivo(S, i, st) ==
    IF st = "SUCCESS"
    THEN /\ i.op \in Accesos => Alcanza(S, i)
         /\ i.op = "CREATE_SEGMENT" => i.size <= TamMaxSegmento
    ELSE \/ i.op \in Accesos /\ ~Alcanza(S, i)
         \/ i.op = "CREATE_SEGMENT" /\ i.size > TamMaxSegmento

\* What comes back is the instruction with the context, and its status tells whether
\* the access was inside the segments of its process.
Desalojado ==
    cfase = "desalojo" =>
        /\ desalojo.op = instruccion.op /\ desalojo.motivo = instruccion
        /\ desalojo.pc = contexto.pc /\ desalojo.registers = cpu_registers
        /\ Motivo(De(segs, contexto.pid), instruccion, desalojo.status)

\* Every register has its cells, in the CPU and in the PCBs.
Registrado == EsRegs(cpu_registers) /\ \A p \in Pid : EsRegs(pcb[p].registers)

\* A file operation that a thread has is inside the segments of its process.
Encargos ==
    \A p \in Pid : tarea[p] # nada =>
        /\ tarea[p].orden \in Instrucciones /\ tarea[p].op = tarea[p].orden.op
        /\ tarea[p].op \in {"F_READ", "F_WRITE"}
        /\ Alcanza(De(segs, p), tarea[p].orden)

\* The inductive invariant of the refinement.
Ejecucion ==
    /\ Copias /\ Tareas /\ Direccionado
    /\ MemoriaEnOrden /\ EnMarcha /\ Desalojado /\ Registrado /\ Encargos

\* The process the CPU has a context of is the one in EXEC.
LEMMA Corriendo ==
    ASSUME Ejecucion, cfase \in {"fetch", "execute", "desalojo"}, NEW p, p = contexto.pid
    PROVE  /\ p \in Pid /\ pcb[p].estado = "EXEC" /\ EnCpu(p) /\ tarea[p] = nada
           /\ tablas \in Seq(Pid) /\ Contains(tablas, p) /\ p \in vivos
           /\ cfase # "desalojo" => mfase = "libre" /\ contexto.tabla = Tabla(De(segs, p))
  <1>1. p \in Pid /\ pcb[p].estado = "EXEC"
    BY DEF Ejecucion, EnMarcha
  <1>2. EnCpu(p) /\ tarea[p] = nada /\ p \in vivos
    BY <1>1 DEF EnCpu, Ejecucion, Tareas, Bloqueados, vivos
  <1>3. tablas \in Seq(Pid) /\ Contains(tablas, p)
    BY <1>1 DEF Ejecucion, Copias, FormaMemoria, Conocidos, Vivos
  <1>4. cfase # "desalojo" => mfase = "libre" /\ contexto.tabla = Tabla(De(segs, p))
    BY DeEs DEF Ejecucion, Copias, Turno, TablaVigente
  <1> QED
    BY <1>1, <1>2, <1>3, <1>4

-----------------------------------------------------------------------------
(* What the abstract machine sees of a step                                *)

\* The views are functions of the processes,
LEMMA VistasForma ==
    /\ pc = [q \in Pid |-> pc[q]] /\ pc' = [q \in Pid |-> pc'[q]]
    /\ orden = [q \in Pid |-> orden[q]] /\ orden' = [q \in Pid |-> orden'[q]]
    /\ regs = [q \in Pid |-> regs[q]] /\ regs' = [q \in Pid |-> regs'[q]]
  BY DEF pc, orden, regs

\* with these values before a step
LEMMA VistaDe ==
    ASSUME NEW q \in Pid
    PROVE  /\ pc[q] = IF EnCpu(q) THEN contexto.pc ELSE pcb[q].pc
           /\ orden[q] = IF EnCpu(q) /\ cfase # "fetch" THEN instruccion
                         ELSE IF tarea[q] # nada THEN tarea[q].orden ELSE nada
           /\ regs[q] = IF ~EnCpu(q) THEN pcb[q].registers
                        ELSE IF cfase = "desalojo" THEN desalojo.registers ELSE cpu_registers
  BY DEF pc, orden, regs

\* and these after it.
LEMMA VistaDePrima ==
    ASSUME NEW q \in Pid
    PROVE  /\ pc'[q] = IF EnCpu(q)' THEN contexto'.pc ELSE pcb'[q].pc
           /\ orden'[q] = IF EnCpu(q)' /\ cfase' # "fetch" THEN instruccion'
                          ELSE IF tarea'[q] # nada THEN tarea'[q].orden ELSE nada
           /\ regs'[q] = IF ~EnCpu(q)' THEN pcb'[q].registers
                         ELSE IF cfase' = "desalojo" THEN desalojo'.registers ELSE cpu_registers'
           /\ EnCpu(q)' <=> cfase' # "espera" /\ contexto'.pid = q /\ pcb'[q].estado = "EXEC"
  BY DEF pc, orden, regs, EnCpu

\* A function that differs from another at one place.
SoloCambia(f, g, p) == g = [f EXCEPT ![p] = g[p]]

\* A step that changes no more than p.
PasoSolo(p) == SoloCambia(pc, pc', p) /\ SoloCambia(orden, orden', p) /\ SoloCambia(regs, regs', p)

\* PasoSolo from the views of the others.
LEMMA UnSoloCambio ==
    ASSUME NEW p \in Pid,
           \A q \in Pid \ {p} : pc'[q] = pc[q] /\ orden'[q] = orden[q] /\ regs'[q] = regs[q]
    PROVE  PasoSolo(p)
  <1>1. ASSUME NEW f, NEW g, f = [q \in Pid |-> f[q]], g = [q \in Pid |-> g[q]],
               \A q \in Pid \ {p} : g[q] = f[q]
        PROVE  SoloCambia(f, g, p)
    BY <1>1 DEF SoloCambia
  <1>2. SoloCambia(pc, pc', p)
    BY <1>1, VistasForma
  <1>3. SoloCambia(orden, orden', p)
    BY <1>1, VistasForma
  <1>4. SoloCambia(regs, regs', p)
    BY <1>1, VistasForma
  <1> QED
    BY <1>2, <1>3, <1>4 DEF PasoSolo

\* A step of the CPU.
LEMMA CpuVistas ==
    ASSUME Ejecucion, CpuPaso, NEW p, p = contexto.pid
    PROVE  /\ PasoSolo(p) /\ vivos' = vivos
           /\ pc[p] = contexto.pc /\ regs[p] = cpu_registers
           /\ orden[p] = IF cfase = "execute" THEN instruccion ELSE nada
           /\ pc'[p] = contexto'.pc
           /\ orden'[p] = IF cfase' = "fetch" THEN nada ELSE instruccion'
           /\ regs'[p] = IF cfase' = "desalojo" THEN desalojo'.registers ELSE cpu_registers'
  <1>1. p \in Pid /\ EnCpu(p) /\ pcb[p].estado = "EXEC" /\ tarea[p] = nada
    BY Corriendo DEF CpuPaso
  <1>2. /\ cfase \in {"fetch", "execute"} /\ cfase' \in {"fetch", "execute", "desalojo", "caida"}
        /\ contexto'.pid = p /\ pcb' = pcb /\ tarea' = tarea
    BY DEF CpuPaso
  <1>3. EnCpu(p)'
    BY <1>1, <1>2 DEF EnCpu
  <1>4. ASSUME NEW q \in Pid \ {p}
        PROVE  pc'[q] = pc[q] /\ orden'[q] = orden[q] /\ regs'[q] = regs[q]
    <2>1. ~EnCpu(q) /\ ~EnCpu(q)'
      BY <1>2 DEF EnCpu
    <2> QED
      BY <1>2, <2>1, VistaDe, VistaDePrima
  <1>5. PasoSolo(p)
    BY <1>1, <1>4, UnSoloCambio
  <1>6. vivos' = vivos
    BY <1>2 DEF vivos
  <1>7. /\ pc[p] = contexto.pc /\ regs[p] = cpu_registers
        /\ orden[p] = IF cfase = "execute" THEN instruccion ELSE nada
    BY <1>1, <1>2, VistaDe
  <1>8. /\ pc'[p] = contexto'.pc
        /\ orden'[p] = IF cfase' = "fetch" THEN nada ELSE instruccion'
        /\ regs'[p] = IF cfase' = "desalojo" THEN desalojo'.registers ELSE cpu_registers'
    BY <1>1, <1>2, <1>3, VistaDePrima
  <1> QED
    BY <1>5, <1>6, <1>7, <1>8

\* The CPU keeps what it has, or leaves p for p or nothing.
Cede(p) ==
    \/ UNCHANGED cvars
    \/ /\ \A q \in Pid \ {p} : ~EnCpu(q)
       /\ cfase' = "espera" \/ contexto'.pid = p

\* A step of the kernel with the PCB of p.
LEMMA KernelVistas ==
    ASSUME FormaPcb, NEW p \in Pid, NEW b, pcb' = [pcb EXCEPT ![p] = b],
           \A q \in Pid \ {p} : tarea'[q] = tarea[q], Cede(p)
    PROVE  /\ PasoSolo(p)
           /\ vivos' = IF b.estado \in {"NEW", "EXIT"} THEN vivos \ {p} ELSE vivos \cup {p}
           /\ pcb'[p] = b
  <1>1. pcb'[p] = b /\ \A q \in Pid \ {p} : pcb'[q] = pcb[q]
    BY DEF FormaPcb
  <1>2. ASSUME NEW q \in Pid \ {p}
        PROVE  pc'[q] = pc[q] /\ orden'[q] = orden[q] /\ regs'[q] = regs[q]
    <2>1. pcb'[q] = pcb[q] /\ tarea'[q] = tarea[q]
      BY <1>1
    <2>2. CASE UNCHANGED cvars
      BY <2>1, <2>2, VistaDe, VistaDePrima DEF cvars, EnCpu
    <2>3. CASE ~EnCpu(q) /\ (cfase' = "espera" \/ contexto'.pid = p)
      <3>1. ~EnCpu(q)'
        BY <2>3 DEF EnCpu
      <3> QED
        BY <2>1, <2>3, <3>1, VistaDe, VistaDePrima
    <2> QED
      BY <2>2, <2>3 DEF Cede
  <1>3. PasoSolo(p)
    BY <1>2, UnSoloCambio
  <1>4. vivos' = IF b.estado \in {"NEW", "EXIT"} THEN vivos \ {p} ELSE vivos \cup {p}
    BY <1>1 DEF vivos
  <1> QED
    BY <1>1, <1>3, <1>4

-----------------------------------------------------------------------------
(* The instructions the CPU does                                           *)

\* The parts of Ejecucion in the state after a step.
LEMMA DespuesDesalojado ==
    ASSUME cfase' = "desalojo" =>
             /\ desalojo'.op = instruccion'.op /\ desalojo'.motivo = instruccion'
             /\ desalojo'.pc = contexto'.pc /\ desalojo'.registers = cpu_registers'
             /\ Motivo(De(segs', contexto'.pid), instruccion', desalojo'.status)
    PROVE  Desalojado'
  BY DEF Desalojado, Motivo, Alcanza, Nombra, De, Tabla, segment_0, Accesos, C!Tamanio, C!Movs,
     C!get_num_segmento, C!get_desplazamiento_segmento

\* Encargos in the state after a step.
LEMMA DespuesEncargos ==
    ASSUME \A p \in Pid : tarea'[p] # nada =>
             /\ tarea'[p].orden \in Instrucciones /\ tarea'[p].op = tarea'[p].orden.op
             /\ tarea'[p].op \in {"F_READ", "F_WRITE"}
             /\ Alcanza(De(segs', p), tarea'[p].orden)
    PROVE  Encargos'
  BY DEF Encargos, Alcanza, Nombra, De, Tabla, segment_0, nada, C!Tamanio, C!Movs,
     C!get_num_segmento, C!get_desplazamiento_segmento

\* Registrado in the state after a step.
LEMMA DespuesRegistrado ==
    ASSUME EsRegs(cpu_registers'), \A p \in Pid : EsRegs(pcb'[p].registers)
    PROVE  Registrado'
  BY DEF Registrado, EsRegs

\* What the actions of Ejecucion need beside the parts that other lemmas give.
Sigue == MemoriaEnOrden /\ EnMarcha /\ Desalojado /\ Registrado /\ Encargos

\* A step of the CPU keeps the invariant.
LEMMA CpuSigue ==
    ASSUME Ejecucion, CpuPaso, NEW p, p = contexto.pid, MemoriaEnOrden', EsRegs(cpu_registers'),
           cfase' # "fetch" => instruccion' \in Instrucciones,
           cfase' = "desalojo" =>
             /\ desalojo'.op = instruccion'.op /\ desalojo'.motivo = instruccion'
             /\ desalojo'.pc = contexto'.pc /\ desalojo'.registers = cpu_registers'
             /\ Motivo(De(segs, p), instruccion', desalojo'.status)
    PROVE  Sigue'
  <1>1. /\ cfase \in {"fetch", "execute"} /\ cfase' \in {"fetch", "execute", "desalojo", "caida"}
        /\ contexto'.pid = p /\ pcb' = pcb /\ tarea' = tarea /\ segs' = segs
    BY DEF CpuPaso
  <1>2. p \in Pid /\ pcb[p].estado = "EXEC"
    BY <1>1, Corriendo
  <1>3. EnMarcha'
    BY <1>1, <1>2 DEF EnMarcha, C!Fases
  <1>4. Desalojado'
    BY <1>1, DespuesDesalojado
  <1>5. Registrado'
    BY <1>1, DespuesRegistrado DEF Ejecucion, Registrado
  <1>6. Encargos'
    BY <1>1, DespuesEncargos DEF Ejecucion, Encargos
  <1> QED
    BY <1>3, <1>4, <1>5, <1>6 DEF Sigue

\* No cell and no segment changes: the contents do not either,
LEMMA MemoriaQuieta ==
    ASSUME UNCHANGED <<segs, mem>>
    PROVE  contenido' = contenido /\ comun' = comun
  <1>1. contenido' = contenido
    BY ContenidoVista
  <1>2. comun' = comun
    BY DEF comun, Celdas, segment_0
  <1> QED
    BY <1>1, <1>2

\* nor does the order of memoria.
LEMMA OrdenQuieto ==
    ASSUME MemoriaEnOrden, UNCHANGED <<segs, ocupado, mem>>
    PROVE  MemoriaEnOrden'
  BY DEF MemoriaEnOrden, Ordenada

\* fetch is Tomar.
LEMMA FetchRefina ==
    ASSUME Ejecucion, ProgramasTipados, Fetch
    PROVE  Sigue' /\ \E p \in Pid : \E i \in Instrucciones : Maquina!Tomar(p, i)
  <1>1. PICK i \in Instrucciones : C!fetch(i)
    BY DEF Fetch
  <1>2. PICK p : p = contexto.pid
    OBVIOUS
  <1>3. /\ cfase = "fetch" /\ cfase' = "execute" /\ instruccion' = i
        /\ contexto' = [contexto EXCEPT !.pc = @ + 1] /\ UNCHANGED <<cpu_registers, desalojo>>
        /\ UNCHANGED <<segs, ocupado, mem>> /\ archivo' = <<>>
    BY <1>1 DEF C!fetch, Fetch, mvars
  <1>4. CpuPaso
    BY CpuEfecto DEF Ejecucion, Copias
  <1>5. p \in Pid /\ p \in vivos
    BY <1>2, <1>3, Corriendo
  <1>6. contexto'.pc = contexto.pc + 1
    BY <1>3 DEF Ejecucion, Copias, FormaContexto
  <1>7. /\ PasoSolo(p) /\ vivos' = vivos
        /\ pc[p] = contexto.pc /\ regs[p] = cpu_registers /\ orden[p] = nada
        /\ pc'[p] = contexto'.pc /\ orden'[p] = i /\ regs'[p] = cpu_registers'
    BY <1>2, <1>3, <1>4, CpuVistas
  <1>8. /\ pc' = [pc EXCEPT ![p] = @ + 1] /\ orden' = [orden EXCEPT ![p] = i]
    BY <1>6, <1>7 DEF PasoSolo, SoloCambia
  <1>9. regs' = regs
    BY <1>3, <1>7, VistasForma DEF PasoSolo, SoloCambia
  <1>10. contenido' = contenido /\ comun' = comun
    BY <1>3, MemoriaQuieta
  <1>11. rota = FALSE /\ rota' = FALSE
    BY <1>3 DEF rota
  <1>12. Maquina!Tomar(p, i)
    BY <1>3, <1>5, <1>7, <1>8, <1>9, <1>10, <1>11 DEF Maquina!Tomar, Maquina!ninguna, nada
  <1>13. Sigue'
    <2>1. MemoriaEnOrden'
      BY <1>3, OrdenQuieto DEF Ejecucion
    <2>2. EsRegs(cpu_registers')
      BY <1>3 DEF Ejecucion, Registrado
    <2> QED
      BY <1>2, <1>3, <1>4, <2>1, <2>2, CpuSigue
  <1> QED
    BY <1>5, <1>12, <1>13

\* Where the CPU is in execute.
LEMMA EnEjecucion ==
    ASSUME Ejecucion, ProgramasTipados, cfase = "execute", Ciclo \/ Leer \/ Escribir,
           NEW p, p = contexto.pid
    PROVE  /\ CpuPaso /\ p \in Pid /\ p \in vivos /\ instruccion \in Instrucciones
           /\ PasoSolo(p) /\ vivos' = vivos /\ orden[p] = instruccion
           /\ pc[p] = contexto.pc /\ regs[p] = cpu_registers /\ pc'[p] = contexto'.pc
           /\ orden'[p] = IF cfase' = "fetch" THEN nada ELSE instruccion'
           /\ regs'[p] = IF cfase' = "desalojo" THEN desalojo'.registers ELSE cpu_registers'
           /\ Maquina!Valida(p) <=> (instruccion.op \in Accesos => Alcanza(De(segs, p), instruccion))
  <1>1. CpuPaso
    BY CpuEfecto DEF Ejecucion, Copias
  <1>2. p \in Pid /\ p \in vivos /\ instruccion \in Instrucciones
    BY Corriendo DEF Ejecucion, EnMarcha
  <1>3. /\ PasoSolo(p) /\ vivos' = vivos /\ orden[p] = instruccion
        /\ pc[p] = contexto.pc /\ regs[p] = cpu_registers /\ pc'[p] = contexto'.pc
        /\ orden'[p] = IF cfase' = "fetch" THEN nada ELSE instruccion'
        /\ regs'[p] = IF cfase' = "desalojo" THEN desalojo'.registers ELSE cpu_registers'
    BY <1>1, CpuVistas
  <1>4. Maquina!Valida(p) <=> (instruccion.op \in Accesos => Alcanza(De(segs, p), instruccion))
    BY <1>2, <1>3, ValidaEs DEF Ejecucion
  <1> QED
    BY <1>1, <1>2, <1>3, <1>4

\* The instruction is over: the CPU goes on with the next and only the registers change.
LEMMA Hecho ==
    ASSUME Ejecucion, ProgramasTipados, cfase = "execute", Ciclo \/ Leer \/ Escribir,
           NEW p, p = contexto.pid, cfase' = "fetch", contexto' = contexto,
           instruccion.op \in Accesos => Alcanza(De(segs, p), instruccion)
    PROVE  Maquina!Hecha(p, instruccion.op)
  <1>1. /\ p \in Pid /\ p \in vivos /\ PasoSolo(p) /\ vivos' = vivos /\ orden[p] = instruccion
        /\ pc'[p] = pc[p] /\ orden'[p] = nada /\ Maquina!Valida(p)
    BY EnEjecucion
  <1>2. pc' = pc
    BY <1>1, VistasForma DEF PasoSolo, SoloCambia
  <1>3. orden' = [orden EXCEPT ![p] = Maquina!ninguna]
    BY <1>1 DEF PasoSolo, SoloCambia, nada, Maquina!ninguna
  <1>4. rota' = rota
    BY DEF rota
  <1> QED
    BY <1>1, <1>2, <1>3, <1>4 DEF Maquina!Hecha

\* SET is Set.
LEMMA SetRefina ==
    ASSUME Ejecucion, ProgramasTipados, C!SET, UNCHANGED <<mvars, kvars>>
    PROVE  Sigue' /\ \E p \in Pid : Maquina!Set(p)
  <1>1. PICK p : p = contexto.pid
    OBVIOUS
  <1>2. /\ cfase = "execute" /\ cfase' = "fetch" /\ instruccion.op = "SET"
        /\ cpu_registers' = C!Copiar(instruccion.reg, instruccion.datos)
        /\ contexto' = contexto /\ UNCHANGED <<segs, ocupado, mem>> /\ archivo' = archivo
        /\ Ciclo
    BY DEF C!SET, mvars, kvars, Ciclo
  <1>3. /\ CpuPaso /\ p \in Pid /\ instruccion \in Instrucciones /\ orden[p] = instruccion
        /\ PasoSolo(p) /\ regs[p] = cpu_registers /\ regs'[p] = cpu_registers'
    BY <1>1, <1>2, EnEjecucion
  <1>4. /\ instruccion.reg \in Registros /\ instruccion.datos \in Seq(Valores)
        /\ Len(instruccion.datos) <= TamRegistro[instruccion.reg]
    BY <1>2, <1>3 DEF ProgramasTipados
  <1>5. /\ cpu_registers' = [cpu_registers EXCEPT ![instruccion.reg] = Maquina!Pisar(@, 0, instruccion.datos)]
        /\ EsRegs(cpu_registers')
    BY <1>2, <1>4, CopiarEs DEF Ejecucion, Registrado
  <1>6. Maquina!Hecha(p, "SET")
    BY <1>1, <1>2, Hecho DEF Accesos
  <1>7. regs' = [regs EXCEPT ![p][orden[p].reg] = Maquina!Pisar(@, 0, orden[p].datos)]
    <2>1. regs' = [regs EXCEPT ![p] = cpu_registers']
      BY <1>3 DEF PasoSolo, SoloCambia
    <2> QED
      BY <2>1, <1>3, <1>5
  <1>8. contenido' = contenido /\ comun' = comun
    BY <1>2, MemoriaQuieta
  <1>9. Maquina!Set(p)
    BY <1>2, <1>6, <1>7, <1>8 DEF Maquina!Set
  <1>10. Sigue'
    <2>1. MemoriaEnOrden'
      BY <1>2, OrdenQuieto DEF Ejecucion
    <2> QED
      BY <1>1, <1>2, <1>3, <1>5, <2>1, CpuSigue
  <1> QED
    BY <1>3, <1>9, <1>10

\* The context goes back: nothing that a program sees.
LEMMA StopRefina ==
    ASSUME Ejecucion, ProgramasTipados, cfase = "execute", Ciclo \/ Leer \/ Escribir,
           NEW st, C!stop_exec(instruccion, st), UNCHANGED <<segs, ocupado, mem, archivo>>,
           Motivo(De(segs, contexto.pid), instruccion, st)
    PROVE  Sigue' /\ UNCHANGED Maquina!vars
  <1>1. PICK p : p = contexto.pid
    OBVIOUS
  <1>2. /\ cfase' = "desalojo" /\ UNCHANGED <<contexto, cpu_registers, instruccion>>
        /\ desalojo'.op = instruccion.op /\ desalojo'.motivo = instruccion
        /\ desalojo'.status = st /\ desalojo'.pc = contexto.pc /\ desalojo'.registers = cpu_registers
    BY DEF C!stop_exec
  <1>3. /\ CpuPaso /\ p \in Pid /\ instruccion \in Instrucciones /\ PasoSolo(p) /\ vivos' = vivos
        /\ pc'[p] = pc[p] /\ orden'[p] = orden[p] /\ regs'[p] = regs[p]
    BY <1>1, <1>2, EnEjecucion
  <1>4. pc' = pc /\ orden' = orden /\ regs' = regs
    BY <1>3, VistasForma DEF PasoSolo, SoloCambia
  <1>5. contenido' = contenido /\ comun' = comun
    BY MemoriaQuieta
  <1>6. rota' = rota
    BY <1>2 DEF rota
  <1>7. UNCHANGED Maquina!vars
    BY <1>3, <1>4, <1>5, <1>6 DEF Maquina!vars
  <1>8. MemoriaEnOrden' /\ EsRegs(cpu_registers')
    BY <1>2, OrdenQuieto DEF Ejecucion, Registrado
  <1>9. Sigue'
    BY <1>1, <1>2, <1>3, <1>8, CpuSigue
  <1> QED
    BY <1>7, <1>9

\* Giving the context back shows nothing.
LEMMA EntregarRefina ==
    ASSUME Ejecucion, ProgramasTipados, C!Entregar \/ C!DesalojarPorFalla, UNCHANGED <<mvars, kvars>>
    PROVE  Sigue' /\ UNCHANGED Maquina!vars
  <1> DEFINE i == instruccion
             S == De(segs, contexto.pid)
  <1>1. cfase = "execute" /\ Ciclo /\ UNCHANGED <<segs, ocupado, mem, archivo>>
    BY DEF C!Entregar, C!DesalojarPorFalla, Ciclo, mvars, kvars
  <1>2. i \in Instrucciones /\ contexto.tabla = Tabla(S) /\ MemoriaEnOrden
    BY <1>1, Corriendo DEF Ejecucion, EnMarcha
  <1>3. i.op \in Accesos => /\ C!Decodificada(i) => Alcanza(S, i)
                            /\ C!SegmentoNulo(i) \/ C!seg_fault(i) => ~Alcanza(S, i)
    BY <1>2, DecodificaEs
  <1>t. i.op = "CREATE_SEGMENT" => i.size \in Nat /\ TamMaxSegmento \in Nat
    BY <1>2, TukiAssumption DEF ProgramasTipados
  <1>4. CASE C!Entregar
    <2>1. C!stop_exec(i, "SUCCESS") /\ C!Decodificada(i)
      BY <1>4 DEF C!Entregar
    <2>2. i.op = "CREATE_SEGMENT" => i.size <= TamMaxSegmento
      BY <2>1, <1>t DEF C!Decodificada, C!seg_fault, C!chequear_seg_fault_segment_size
    <2>3. Motivo(S, i, "SUCCESS")
      BY <1>3, <2>1, <2>2 DEF Motivo
    <2> QED
      BY <1>1, <2>1, <2>3, StopRefina
  <1>5. CASE C!DesalojarPorFalla
    <2>1. PICK st : st # "SUCCESS" /\ C!stop_exec(i, st)
      BY <1>5 DEF C!DesalojarPorFalla
    <2>2. C!seg_fault(i)
      BY <1>5 DEF C!DesalojarPorFalla
    <2>3. \/ i.op \in Accesos
          \/ i.op = "CREATE_SEGMENT" /\ i.size > TamMaxSegmento
      BY <2>2 DEF C!seg_fault, C!chequear_seg_fault_segment_size, C!Movs, C!Files, Accesos
    <2>4. Motivo(S, i, st)
      BY <1>3, <2>1, <2>2, <2>3 DEF Motivo
    <2> QED
      BY <1>1, <2>1, <2>4, StopRefina
  <1> QED
    BY <1>4, <1>5

\* The CPU that dies breaks the machine.
LEMMA CaerRefina ==
    ASSUME Ejecucion, ProgramasTipados, C!Caer, UNCHANGED <<mvars, kvars>>
    PROVE  Sigue' /\ \E p \in Pid : Maquina!Romper(p)
  <1>1. PICK p : p = contexto.pid
    OBVIOUS
  <1>2. /\ cfase = "execute" /\ cfase' = "caida" /\ Ciclo
        /\ UNCHANGED <<contexto, cpu_registers, instruccion>>
        /\ UNCHANGED <<segs, ocupado, mem, archivo>>
        /\ C!SegmentoNulo(instruccion) \/ (instruccion.op \in C!Files /\ C!seg_fault(instruccion))
    BY DEF C!Caer, Ciclo, mvars, kvars
  <1>3. /\ CpuPaso /\ p \in Pid /\ p \in vivos /\ instruccion \in Instrucciones
        /\ PasoSolo(p) /\ vivos' = vivos
        /\ pc'[p] = pc[p] /\ orden'[p] = orden[p] /\ regs'[p] = regs[p]
        /\ Maquina!Valida(p) <=> (instruccion.op \in Accesos => Alcanza(De(segs, p), instruccion))
    BY <1>1, <1>2, EnEjecucion
  <1>4. instruccion.op \in Accesos
    BY <1>2 DEF C!SegmentoNulo, C!Files, C!Movs, Accesos
  <1>5. ~Alcanza(De(segs, p), instruccion)
    <2>1. contexto.tabla = Tabla(De(segs, p)) /\ MemoriaEnOrden
      BY <1>1, <1>2, Corriendo DEF Ejecucion
    <2> QED
      BY <1>2, <1>3, <1>4, <2>1, DecodificaEs
  <1>6. pc' = pc /\ orden' = orden /\ regs' = regs
    BY <1>3, VistasForma DEF PasoSolo, SoloCambia
  <1>7. contenido' = contenido /\ comun' = comun
    BY <1>2, MemoriaQuieta
  <1>8. ~rota /\ rota' = TRUE
    BY <1>2 DEF rota
  <1>9. Maquina!Romper(p)
    BY <1>2, <1>3, <1>4, <1>5, <1>6, <1>7, <1>8 DEF Maquina!Romper
  <1>10. MemoriaEnOrden' /\ EsRegs(cpu_registers')
    BY <1>2, OrdenQuieto DEF Ejecucion, Registrado
  <1>11. Sigue'
    BY <1>1, <1>2, <1>3, <1>10, CpuSigue
  <1> QED
    BY <1>3, <1>9, <1>11

\* The row, the offset and the address of the MOV that the CPU is doing.
LEMMA FilaDelMov ==
    ASSUME Ejecucion, ProgramasTipados, cfase = "execute", NEW p, p = contexto.pid,
           instruccion.op \in {"MOV_IN", "MOV_OUT"}, C!Decodificada(instruccion)
    PROVE  /\ Alcanza(De(segs, p), instruccion)
           /\ instruccion.reg \in Registros /\ instruccion.dir \in Nat
           /\ TamRegistro[instruccion.reg] \in Nat \ {0}
           /\ \E g : /\ Nombra(g, instruccion.dir, De(segs, p))
                     /\ EnFila(p, g, C!get_desplazamiento_segmento(instruccion.dir), TamRegistro[instruccion.reg])
                     /\ C!Fisica(instruccion) = g.base + C!get_desplazamiento_segmento(instruccion.dir)
  <1> DEFINE i == instruccion
             d == C!get_desplazamiento_segmento(i.dir)
  <1>1. /\ p \in Pid /\ i \in Instrucciones /\ contexto.tabla = Tabla(De(segs, p))
        /\ tablas \in Seq(Pid) /\ Contains(tablas, p) /\ MemoriaEnOrden
    BY Corriendo DEF Ejecucion, EnMarcha
  <1>2. i.op \in Accesos
    BY DEF Accesos
  <1>3. Alcanza(De(segs, p), i)
    BY <1>1, <1>2, DecodificaEs
  <1>4. /\ i.dir \in Nat /\ i.reg \in Registros /\ C!Tamanio(i) = TamRegistro[i.reg]
        /\ TamRegistro[i.reg] \in Nat \ {0}
    BY <1>1, <1>2, TamanioEs
  <1>5. PICK g : Nombra(g, i.dir, De(segs, p)) /\ TamRegistro[i.reg] + d <= g.size
    BY <1>3, <1>4 DEF Alcanza
  <1>6. d \in Nat
    BY <1>4, Direccion
  <1>7. EnFila(p, g, d, TamRegistro[i.reg])
    BY <1>1, <1>4, <1>5, <1>6 DEF EnFila, Nombra
  <1>8. C!Fisica(i) = g.base + d
    <2>1. C!get_direccion_fisica(i.dir, Tabla(De(segs, p))) = g.base + d
      BY <1>1, <1>5, FisicaEs DEF MemoriaEnOrden
    <2> QED
      BY <1>1, <2>1 DEF C!Fisica
  <1> QED
    BY <1>3, <1>4, <1>5, <1>7, <1>8

\* What is read from a row are values.
LEMMA LeidoTipo ==
    ASSUME MemoriaEnOrden, NEW p, NEW g, NEW d, NEW n, EnFila(p, g, d, n)
    PROVE  [i \in 1..n |-> mem[g.base + d + i - 1]] \in [1..n -> Valores]
  <1>1. g.base \in Nat /\ g.base + d + n <= TamMemoria
    BY EnFilaCelda
  <1>2. d \in Nat /\ n \in Nat /\ TamMemoria \in Nat
    BY TukiAssumption DEF EnFila
  <1>3. ASSUME NEW i \in 1..n PROVE mem[g.base + d + i - 1] \in Valores
    <2>1. g.base + d + i - 1 \in 0..(TamMemoria - 1)
      BY <1>1, <1>2
    <2> QED
      BY <2>1 DEF MemoriaEnOrden, M!Direcciones
  <1> QED
    BY <1>3

\* MOV_IN.
LEMMA LeerRefina ==
    ASSUME Ejecucion, ProgramasTipados, Leer
    PROVE  Sigue' /\ \E p \in Pid : Maquina!MovIn(p)
  <1>1. PICK p : p = contexto.pid
    OBVIOUS
  <1> DEFINE r == instruccion.reg
             n == TamRegistro[r]
             dir == instruccion.dir
             d == C!get_desplazamiento_segmento(dir)
             leido == M!read_memory(C!Fisica(instruccion), n)
  <1>2. /\ C!MOV_IN(leido) /\ cfase = "execute" /\ instruccion.op = "MOV_IN"
        /\ C!Decodificada(instruccion) /\ UNCHANGED <<segs, ocupado, mem, archivo>>
    BY DEF Leer, C!MOV_IN, mvars, kvars
  <1>3. /\ Alcanza(De(segs, p), instruccion) /\ r \in Registros /\ dir \in Nat /\ n \in Nat \ {0}
    BY <1>1, <1>2, FilaDelMov
  <1>4. PICK g : /\ Nombra(g, dir, De(segs, p)) /\ EnFila(p, g, d, n)
                 /\ C!Fisica(instruccion) = g.base + d
    BY <1>1, <1>2, FilaDelMov
  <1>5. leido = [i \in 1..n |-> mem[g.base + d + i - 1]]
    BY <1>4, EfectoLeer DEF Ejecucion
  <1>6. leido \in [1..n -> Valores]
    BY <1>4, <1>5, LeidoTipo DEF Ejecucion
  <1>7. Maquina!Leer(p, dir, n) = leido
    <2>1. n + d <= g.size
      BY <1>4 DEF EnFila
    <2>2. Maquina!Leer(p, dir, n) = [i \in 1..n |-> mem[g.base + d + i - 1]]
      <3>1. MemoriaEnOrden /\ n \in Nat /\ dir \in Nat /\ Nombra(g, dir, De(segs, p))
        BY <1>3, <1>4 DEF Ejecucion
      <3> HIDE DEF n, dir
      <3> QED
        BY ONLY <3>1, <2>1, LeerEs DEF d
    <2> QED
      BY <1>5, <2>2
  <1> HIDE DEF leido
  <1>8. leido \in Seq(Valores) /\ Len(leido) = n /\ leido # <<>>
    BY <1>3, <1>6
  <1>9. /\ cpu_registers' = C!Copiar(r, leido) /\ cfase' = "fetch" /\ contexto' = contexto
    BY <1>2, <1>8 DEF C!MOV_IN
  <1>10. /\ CpuPaso /\ p \in Pid /\ orden[p] = instruccion /\ PasoSolo(p)
         /\ regs[p] = cpu_registers /\ regs'[p] = cpu_registers'
    BY <1>1, <1>2, <1>9, EnEjecucion
  <1>11. Len(leido) <= TamRegistro[r]
    BY <1>3, <1>8
  <1>12. cpu_registers' = [cpu_registers EXCEPT ![r] = leido] /\ EsRegs(cpu_registers')
    BY <1>3, <1>8, <1>9, <1>11, CopiarEs DEF Ejecucion, Registrado
  <1>13. Maquina!Hecha(p, "MOV_IN")
    BY <1>1, <1>2, <1>3, <1>9, Hecho
  <1>14. Len(cpu_registers[r]) = n
    <2>1. cpu_registers[r] \in [1..n -> Valores]
      BY <1>3 DEF Ejecucion, Registrado, EsRegs
    <2> QED
      BY <1>3, <2>1
  <1>15. regs' = [regs EXCEPT ![p][orden[p].reg] = Maquina!Leer(p, orden[p].dir, Len(@))]
    <2>1. regs' = [regs EXCEPT ![p] = cpu_registers']
      BY <1>10 DEF PasoSolo, SoloCambia
    <2>2. [regs EXCEPT ![p][r] = Maquina!Leer(p, dir, Len(@))] =
            [regs EXCEPT ![p] = [regs[p] EXCEPT ![r] = Maquina!Leer(p, dir, Len(regs[p][r]))]]
      BY <1>10
    <2>3. Maquina!Leer(p, dir, Len(regs[p][r])) = leido
      BY <1>7, <1>10, <1>14
    <2>4. [regs EXCEPT ![p][r] = Maquina!Leer(p, dir, Len(@))] = [regs EXCEPT ![p] = cpu_registers']
      BY <1>10, <1>12, <2>2, <2>3
    <2> QED
      BY <1>10, <2>1, <2>4
  <1>16. contenido' = contenido /\ comun' = comun
    BY <1>2, MemoriaQuieta
  <1>17. Maquina!MovIn(p)
    BY <1>2, <1>13, <1>15, <1>16 DEF Maquina!MovIn
  <1>18. Sigue'
    <2>1. MemoriaEnOrden'
      BY <1>2, OrdenQuieto DEF Ejecucion
    <2> QED
      BY <1>1, <1>9, <1>10, <1>12, <2>1, CpuSigue
  <1> QED
    BY <1>10, <1>17, <1>18

\* MOV_OUT.
LEMMA EscribirRefina ==
    ASSUME Ejecucion, ProgramasTipados, Escribir
    PROVE  Sigue' /\ \E p \in Pid : Maquina!MovOut(p)
  <1>1. PICK p : p = contexto.pid
    OBVIOUS
  <1> DEFINE r == instruccion.reg
             n == TamRegistro[r]
             dir == instruccion.dir
             d == C!get_desplazamiento_segmento(dir)
             datos == cpu_registers[r]
  <1>2. /\ C!MOV_OUT(M!get_pid_by_address(C!Fisica(instruccion)) # {})
        /\ M!write_memory(C!Fisica(instruccion), datos)
        /\ cfase = "execute" /\ instruccion.op = "MOV_OUT"
        /\ C!Decodificada(instruccion) /\ archivo' = archivo
    BY DEF Escribir, C!MOV_OUT, kvars
  <1>3. /\ Alcanza(De(segs, p), instruccion) /\ r \in Registros /\ dir \in Nat /\ n \in Nat \ {0}
    BY <1>1, <1>2, FilaDelMov
  <1>4. PICK g : /\ Nombra(g, dir, De(segs, p)) /\ EnFila(p, g, d, n)
                 /\ C!Fisica(instruccion) = g.base + d
    BY <1>1, <1>2, FilaDelMov
  <1>5. datos \in [1..n -> Valores] /\ Len(datos) = n
    <2>1. datos \in [1..n -> Valores]
      BY <1>3 DEF Ejecucion, Registrado, EsRegs
    <2> QED
      BY <1>3, <2>1
  <1>6. p \in M!get_pid_by_address(C!Fisica(instruccion))
    BY <1>3, <1>4, EnFilaCelda DEF Ejecucion
  <1>7. cfase' = "fetch" /\ contexto' = contexto /\ cpu_registers' = cpu_registers
    BY <1>2, <1>6 DEF C!MOV_OUT
  <1>8. /\ CpuPaso /\ p \in Pid /\ orden[p] = instruccion /\ PasoSolo(p)
        /\ regs[p] = cpu_registers /\ regs'[p] = cpu_registers'
    BY <1>1, <1>2, <1>7, EnEjecucion
  <1>9. M!write_memory(g.base + d, datos)
    BY <1>2, <1>4
  <1> HIDE DEF datos
  <1>10. segs' = segs /\ Escrito(mem, g.base + d, datos, mem') /\ MemoriaEnOrden'
    BY <1>4, <1>5, <1>9, EfectoEscribir DEF Ejecucion
  <1>11. Maquina!Escribir(p, dir, datos)
    <2>1. d \in Nat /\ n \in Nat /\ n + d <= g.size
      BY <1>4 DEF EnFila
    <2>2. g.size \in Nat
      BY <1>4, EnFilaCelda DEF Ejecucion
    <2>3. Len(datos) \in Nat /\ d + Len(datos) <= g.size
      BY ONLY <1>5, <2>1, <2>2
    <2> QED
      BY <1>3, <1>4, <1>10, <2>3, EscribirEs DEF Ejecucion
  <1>12. Maquina!Hecha(p, "MOV_OUT")
    BY <1>1, <1>2, <1>3, <1>7, Hecho
  <1>13. regs' = regs
    BY <1>7, <1>8, VistasForma DEF PasoSolo, SoloCambia
  <1>14. regs[p][orden[p].reg] = datos /\ orden[p].dir = dir
    BY <1>8 DEF datos
  <1>15. Maquina!MovOut(p)
    BY <1>2, <1>11, <1>12, <1>13, <1>14 DEF Maquina!MovOut
  <1>16. Sigue'
    <2>1. EsRegs(cpu_registers')
      BY <1>7 DEF Ejecucion, Registrado
    <2> QED
      BY <1>1, <1>7, <1>8, <1>10, <2>1, CpuSigue
  <1> QED
    BY <1>8, <1>15, <1>16

-----------------------------------------------------------------------------
(* What the kernel does with contexts                                      *)

\* A step of the kernel with the PCB of p keeps the invariant.
LEMMA KernelSigue ==
    ASSUME Ejecucion, NEW p \in Pid, NEW b, pcb' = [pcb EXCEPT ![p] = b], EsRegs(b.registers),
           MemoriaEnOrden',
           \A q \in Pid \ {p} : tarea'[q] = tarea[q] /\ De(segs', q) = De(segs, q),
           tarea'[p] # nada =>
             /\ tarea'[p].orden \in Instrucciones /\ tarea'[p].op = tarea'[p].orden.op
             /\ tarea'[p].op \in {"F_READ", "F_WRITE"}
             /\ Alcanza(De(segs', p), tarea'[p].orden),
           \/ /\ UNCHANGED cvars
              /\ cfase # "espera" /\ contexto.pid = p =>
                   b.estado = "EXEC" \/ (cfase = "caida" /\ b.estado = "EXIT")
              /\ cfase = "desalojo" => De(segs', contexto.pid) = De(segs, contexto.pid)
           \/ C!recibir_contexto(p, b.pc, b.registers, b.tabla) /\ b.estado = "EXEC"
           \/ C!esperar_contexto
    PROVE  Sigue'
  <1>1. pcb'[p] = b /\ \A q \in Pid \ {p} : pcb'[q] = pcb[q]
    BY DEF Ejecucion, Copias, FormaPcb
  <1>2. ASSUME UNCHANGED cvars,
               cfase # "espera" /\ contexto.pid = p =>
                  b.estado = "EXEC" \/ (cfase = "caida" /\ b.estado = "EXIT"),
               cfase = "desalojo" => De(segs', contexto.pid) = De(segs, contexto.pid)
        PROVE  EnMarcha' /\ Desalojado' /\ (cpu_registers' = cpu_registers \/ cpu_registers' = b.registers)
    <2>1. /\ cfase' = cfase /\ contexto' = contexto /\ cpu_registers' = cpu_registers
          /\ instruccion' = instruccion /\ desalojo' = desalojo
      BY <1>2 DEF cvars
    <2>2. EnMarcha'
      BY <1>1, <1>2, <2>1 DEF Ejecucion, EnMarcha, C!Fases
    <2>3. Desalojado'
      BY <1>2, <2>1, DespuesDesalojado DEF Ejecucion, Desalojado
    <2> QED
      BY <2>1, <2>2, <2>3
  <1>3. ASSUME C!recibir_contexto(p, b.pc, b.registers, b.tabla), b.estado = "EXEC"
        PROVE  EnMarcha' /\ Desalojado' /\ (cpu_registers' = cpu_registers \/ cpu_registers' = b.registers)
    <2>1. cfase' = "fetch" /\ contexto'.pid = p /\ cpu_registers' = b.registers
      BY <1>3 DEF C!recibir_contexto
    <2>2. EnMarcha' /\ Desalojado'
      BY <1>1, <1>3, <2>1 DEF EnMarcha, C!Fases, Desalojado
    <2> QED
      BY <2>1, <2>2
  <1>4. ASSUME C!esperar_contexto
        PROVE  EnMarcha' /\ Desalojado' /\ (cpu_registers' = cpu_registers \/ cpu_registers' = b.registers)
    <2>1. cfase' = "espera" /\ cpu_registers' = cpu_registers
      BY <1>4 DEF C!esperar_contexto
    <2>2. EnMarcha' /\ Desalojado'
      BY <2>1 DEF EnMarcha, C!Fases, Desalojado
    <2> QED
      BY <2>1, <2>2
  <1>5. EnMarcha' /\ Desalojado' /\ (cpu_registers' = cpu_registers \/ cpu_registers' = b.registers)
    BY <1>2, <1>3, <1>4
  <1>6. Registrado'
    BY <1>1, <1>5, DespuesRegistrado DEF Ejecucion, Registrado
  <1>7. Encargos'
    <2>1. ASSUME NEW q \in Pid, tarea'[q] # nada
          PROVE  /\ tarea'[q].orden \in Instrucciones /\ tarea'[q].op = tarea'[q].orden.op
                 /\ tarea'[q].op \in {"F_READ", "F_WRITE"}
                 /\ Alcanza(De(segs', q), tarea'[q].orden)
      BY <2>1 DEF Ejecucion, Encargos
    <2> QED
      BY <2>1, DespuesEncargos
  <1> QED
    BY <1>5, <1>6, <1>7 DEF Sigue

\* p sees nothing.
LEMMA NadaCambia ==
    ASSUME NEW p \in Pid, PasoSolo(p)
    PROVE  /\ pc'[p] = pc[p] => pc' = pc
           /\ orden'[p] = orden[p] => orden' = orden
           /\ regs'[p] = regs[p] => regs' = regs
  BY VistasForma DEF PasoSolo, SoloCambia

\* To admit a process is Nuevo.
LEMMA AdmitirRefina ==
    ASSUME Ejecucion, NEW p \in Pid, Admitir(p)
    PROVE  Sigue' /\ Maquina!Nuevo(p)
  <1>1. /\ pcb[p].estado = "NEW" /\ pcb' = [pcb EXCEPT ![p].estado = "READY", ![p].tabla = Tabla({})]
        /\ UNCHANGED cvars /\ tarea' = tarea /\ archivo' = archivo
        /\ UNCHANGED <<segs, ocupado, mem>>
    BY DEF Admitir, En, M!create_segments_table
  <1>2. PICK b : b = [pcb[p] EXCEPT !.estado = "READY", !.tabla = Tabla({})]
    OBVIOUS
  <1>3. DOMAIN pcb[p] = Campos /\ DOMAIN pcb = Pid /\ FormaPcb /\ EsRegs(pcb[p].registers)
    BY DEF Ejecucion, Copias, FormaPcb, Registrado
  <1>4. b.estado = "READY" /\ b.pc = pcb[p].pc /\ b.registers = pcb[p].registers
    BY <1>2, <1>3 DEF Campos
  <1>5. pcb' = [pcb EXCEPT ![p] = b]
    BY <1>1, <1>2, <1>3
  <1>6. tarea[p] = nada /\ ~(cfase # "espera" /\ contexto.pid = p)
    BY <1>1 DEF Ejecucion, Tareas, Bloqueados, EnMarcha
  <1>7. MemoriaEnOrden'
    BY <1>1, OrdenQuieto DEF Ejecucion
  <1>8. Sigue'
    BY <1>1, <1>3, <1>4, <1>5, <1>6, <1>7, KernelSigue
  <1>9. PasoSolo(p) /\ vivos' = vivos \cup {p} /\ pcb'[p] = b
    BY <1>1, <1>3, <1>4, <1>5, KernelVistas DEF Cede
  <1>10. pc' = pc /\ orden' = orden /\ regs' = regs
    <2>1. ~EnCpu(p) /\ ~EnCpu(p)'
      BY <1>1, <1>6 DEF EnCpu, cvars
    <2>2. pc'[p] = pc[p] /\ orden'[p] = orden[p] /\ regs'[p] = regs[p]
      <3>1. pc'[p] = pcb'[p].pc /\ pc[p] = pcb[p].pc
        BY <2>1, VistaDe, VistaDePrima
      <3>2. orden'[p] = orden[p]
        BY <1>1, <2>1, VistaDe, VistaDePrima
      <3>3. regs'[p] = pcb'[p].registers /\ regs[p] = pcb[p].registers
        BY <2>1, VistaDe, VistaDePrima
      <3> QED
        BY <1>4, <1>9, <3>1, <3>2, <3>3
    <2> QED
      BY <1>9, <2>2, NadaCambia
  <1>11. contenido' = contenido /\ comun' = comun /\ rota' = rota
    BY <1>1, MemoriaQuieta DEF rota, cvars
  <1>12. p \notin vivos
    BY <1>1 DEF vivos
  <1> QED
    BY <1>1, <1>8, <1>9, <1>10, <1>11, <1>12 DEF Maquina!Nuevo

\* To dispatch it shows nothing.
LEMMA DespacharRefina ==
    ASSUME Ejecucion, NEW p \in Pid, Despachar(p)
    PROVE  Sigue' /\ UNCHANGED Maquina!vars
  <1>1. /\ En("EXEC") = {} /\ pcb[p].estado = "READY" /\ pcb' = [pcb EXCEPT ![p].estado = "EXEC"]
        /\ send_pcb_to_cpu(p, pcb[p])
        /\ tarea' = tarea /\ archivo' = archivo /\ UNCHANGED <<segs, ocupado, mem>>
    BY DEF Despachar, En, mvars
  <1>2. PICK b : b = [pcb[p] EXCEPT !.estado = "EXEC"]
    OBVIOUS
  <1>3. DOMAIN pcb[p] = Campos /\ DOMAIN pcb = Pid /\ FormaPcb /\ EsRegs(pcb[p].registers)
    BY DEF Ejecucion, Copias, FormaPcb, Registrado
  <1>4. /\ b.estado = "EXEC" /\ b.pc = pcb[p].pc /\ b.registers = pcb[p].registers
        /\ b.tabla = pcb[p].tabla
    BY <1>2, <1>3 DEF Campos
  <1>5. pcb' = [pcb EXCEPT ![p] = b]
    BY <1>1, <1>2, <1>3
  <1>6. /\ tarea[p] = nada /\ ~(cfase # "espera" /\ contexto.pid = p)
        /\ \A q \in Pid : ~EnCpu(q)
    BY <1>1 DEF Ejecucion, Tareas, Bloqueados, EnMarcha, EnCpu, En
  <1>7. \/ cfase = "caida" /\ UNCHANGED cvars
        \/ C!recibir_contexto(p, b.pc, b.registers, b.tabla) /\ cfase # "caida"
    BY <1>1, <1>4 DEF send_pcb_to_cpu
  <1>8. MemoriaEnOrden'
    BY <1>1, OrdenQuieto DEF Ejecucion
  <1>9. Sigue'
    BY <1>1, <1>3, <1>4, <1>5, <1>6, <1>7, <1>8, KernelSigue
  <1>10. PasoSolo(p) /\ vivos' = vivos \cup {p} /\ pcb'[p] = b
    <2>1. Cede(p)
      BY <1>6, <1>7 DEF Cede, C!recibir_contexto
    <2> QED
      BY <1>1, <1>3, <1>4, <1>5, <2>1, KernelVistas
  <1>11. vivos' = vivos
    BY <1>1, <1>10 DEF vivos
  <1>12. pc' = pc /\ orden' = orden /\ regs' = regs
    <2>1. pc[p] = pcb[p].pc /\ orden[p] = nada /\ regs[p] = pcb[p].registers
      BY <1>6, VistaDe
    <2>2. CASE cfase = "caida" /\ UNCHANGED cvars
      <3>1. ~EnCpu(p)'
        BY <1>6, <2>2 DEF EnCpu, cvars
      <3>2. pc'[p] = b.pc /\ orden'[p] = nada /\ regs'[p] = b.registers
        BY <1>1, <1>6, <1>10, <3>1, VistaDePrima
      <3> QED
        BY <1>4, <1>10, <2>1, <3>2, NadaCambia
    <2>3. CASE C!recibir_contexto(p, b.pc, b.registers, b.tabla)
      <3>1. /\ cfase' = "fetch" /\ contexto'.pid = p /\ contexto'.pc = b.pc /\ cpu_registers' = b.registers
        BY <2>3 DEF C!recibir_contexto
      <3>2. pc'[p] = b.pc /\ orden'[p] = nada /\ regs'[p] = b.registers
        BY <1>1, <1>4, <1>6, <1>10, <3>1, VistaDePrima
      <3> QED
        BY <1>4, <1>10, <2>1, <3>2, NadaCambia
    <2> QED
      BY <1>7, <2>2, <2>3
  <1>13. contenido' = contenido /\ comun' = comun
    BY <1>1, MemoriaQuieta
  <1>14. rota' = rota
    BY <1>7 DEF rota, cvars, C!recibir_contexto
  <1> QED
    BY <1>1, <1>9, <1>11, <1>12, <1>13, <1>14 DEF Maquina!vars

\* A process that is ended loses its segments and what it had.
LEMMA FinContenido ==
    ASSUME MemoriaEnOrden, NEW p, segs' = segs \ De(segs, p), mem' = mem
    PROVE  /\ contenido' = [k \in DOMAIN contenido \ Maquina!De(p) |-> contenido[k]]
           /\ comun' = comun
  <1>1. contenido = Vista(segs, mem) /\ contenido' = Vista(segs \ De(segs, p), mem)
    BY ContenidoVista
  <1>2. DOMAIN contenido = Claves(segs)
    BY <1>1 DEF Vista
  <1>3. Claves(segs) \ Claves(De(segs, p)) = Claves(segs) \ Maquina!De(p)
    <2>1. \A s \in segs : Clave(s)[1] = s.pid
      BY DEF Clave
    <2>2. \A k \in Claves(segs) : k \in Claves(De(segs, p)) <=> k[1] = p
      BY <2>1 DEF Claves, De
    <2> QED
      BY <1>2, <2>2 DEF Maquina!De
  <1>4. Vista(segs \ De(segs, p), mem) = [k \in Claves(segs) \ Claves(De(segs, p)) |-> Vista(segs, mem)[k]]
    <2>1. De(segs, p) \subseteq segs /\ Ordenada(segs, ocupado)
      BY DEF De, MemoriaEnOrden
    <2> QED
      BY ONLY <2>1, VistaQuita
  <1>5. comun' = comun
    BY DEF comun, Celdas, segment_0
  <1> QED
    BY <1>1, <1>2, <1>3, <1>4, <1>5

\* Terminar is Fin, when there is a reason.
LEMMA FinRefina ==
    ASSUME Ejecucion, NEW p \in Pid, pcb[p].estado = "EXEC", Terminar(p), tarea' = tarea,
           archivo' = archivo,
           \/ cfase = "caida" /\ UNCHANGED cvars
           \/ cfase = "desalojo" /\ C!esperar_contexto,
           Maquina!Termina(p)
    PROVE  Sigue' /\ Maquina!Fin(p)
  <1>1. pcb' = [pcb EXCEPT ![p] = [pcb_create EXCEPT !.estado = "EXIT"]] /\ M!delete_segments_table(p)
    BY DEF Terminar
  <1>2. PICK b : b = [pcb_create EXCEPT !.estado = "EXIT"]
    OBVIOUS
  <1>3. b.estado = "EXIT" /\ b.pc = 0 /\ b.registers = C!registros_en_cero
    BY <1>2 DEF pcb_create
  <1>4. tarea[p] = nada /\ FormaPcb
    BY DEF Ejecucion, Tareas, Bloqueados, Copias
  <1>5. mem' = mem /\ segs' = segs \ De(segs, p) /\ MemoriaEnOrden'
    BY <1>1, EfectoTerminar DEF Ejecucion
  <1>6. /\ EsRegs(b.registers) /\ b.registers = Maquina!Ceros
        /\ \A q \in Pid \ {p} : tarea'[q] = tarea[q] /\ De(segs', q) = De(segs, q)
    BY <1>3, <1>5, EnCeros DEF De
  <1>7. Sigue'
    BY <1>1, <1>2, <1>3, <1>4, <1>5, <1>6, KernelSigue
  <1>8. PasoSolo(p) /\ vivos' = vivos \ {p} /\ pcb'[p] = b
    <2>1. Cede(p)
      <3>1. cfase = "desalojo" => \A q \in Pid \ {p} : ~EnCpu(q)
        BY DEF Ejecucion, Direccionado, UnoEnCpu, ConContexto, EnCpu
      <3> QED
        BY <3>1 DEF Cede, C!esperar_contexto
    <2> QED
      BY <1>1, <1>2, <1>3, <1>4, <2>1, KernelVistas
  <1>9. pc'[p] = 0 /\ orden'[p] = nada /\ regs'[p] = Maquina!Ceros
    <2>1. ~EnCpu(p)'
      BY <1>3, <1>8 DEF EnCpu
    <2> QED
      BY <1>3, <1>4, <1>6, <1>8, <2>1, VistaDePrima
  <1>10. /\ pc' = [pc EXCEPT ![p] = 0] /\ orden' = [orden EXCEPT ![p] = Maquina!ninguna]
         /\ regs' = [regs EXCEPT ![p] = Maquina!Ceros]
    BY <1>8, <1>9 DEF PasoSolo, SoloCambia, nada, Maquina!ninguna
  <1>11. /\ contenido' = [k \in DOMAIN contenido \ Maquina!De(p) |-> contenido[k]]
         /\ comun' = comun
    BY <1>5, FinContenido DEF Ejecucion
  <1>12. p \in vivos
    BY DEF vivos
  <1>13. rota' = rota
    BY DEF rota, cvars, C!esperar_contexto
  <1> QED
    BY <1>7, <1>8, <1>10, <1>11, <1>12, <1>13 DEF Maquina!Fin

\* What came back from the CPU.
LEMMA Devuelto ==
    ASSUME Ejecucion, ProgramasTipados, NEW p \in Pid, pcb[p].estado = "EXEC", cfase = "desalojo"
    PROVE  /\ p = contexto.pid /\ p \in vivos /\ tarea[p] = nada /\ \A q \in Pid \ {p} : ~EnCpu(q)
           /\ instruccion \in Instrucciones /\ orden[p] = instruccion
           /\ desalojo.op = instruccion.op /\ desalojo.motivo = instruccion
           /\ pc[p] = desalojo.pc /\ regs[p] = desalojo.registers /\ EsRegs(desalojo.registers)
           /\ Motivo(De(segs, p), instruccion, desalojo.status)
           /\ Maquina!Valida(p) <=> (instruccion.op \in Accesos => Alcanza(De(segs, p), instruccion))
           /\ rota = FALSE
  <1>1. p = contexto.pid /\ \A q \in Pid \ {p} : ~EnCpu(q)
    BY DEF Ejecucion, Direccionado, UnoEnCpu, ConContexto, EnCpu
  <1>2. EnCpu(p) /\ tarea[p] = nada /\ p \in vivos
    BY <1>1, Corriendo
  <1>3. /\ instruccion \in Instrucciones
        /\ desalojo.op = instruccion.op /\ desalojo.motivo = instruccion
        /\ desalojo.pc = contexto.pc /\ desalojo.registers = cpu_registers
        /\ Motivo(De(segs, p), instruccion, desalojo.status)
    BY <1>1 DEF Ejecucion, EnMarcha, Desalojado
  <1>4. pc[p] = contexto.pc /\ orden[p] = instruccion /\ regs[p] = desalojo.registers
    BY <1>2, VistaDe
  <1>5. EsRegs(desalojo.registers)
    BY <1>3 DEF Ejecucion, Registrado
  <1>6. Maquina!Valida(p) <=> (instruccion.op \in Accesos => Alcanza(De(segs, p), instruccion))
    BY <1>3, <1>4, ValidaEs DEF Ejecucion
  <1>7. rota = FALSE
    BY DEF rota
  <1> QED
    BY <1>1, <1>2, <1>3, <1>4, <1>5, <1>6, <1>7

\* execute_exit is Fin.
LEMMA SalirRefina ==
    ASSUME Ejecucion, ProgramasTipados, NEW p \in Pid, execute_exit(p)
    PROVE  Sigue' /\ Maquina!Fin(p)
  <1>1. /\ pcb[p].estado = "EXEC" /\ cfase = "desalojo" /\ Terminar(p) /\ C!esperar_contexto
        /\ desalojo.status # "SUCCESS" \/ desalojo.op = "EXIT"
        /\ tarea' = tarea /\ archivo' = archivo
    BY DEF execute_exit, En
  <1>2. /\ orden[p] = instruccion /\ desalojo.op = instruccion.op
        /\ Motivo(De(segs, p), instruccion, desalojo.status)
        /\ Maquina!Valida(p) <=> (instruccion.op \in Accesos => Alcanza(De(segs, p), instruccion))
    BY <1>1, Devuelto
  <1>3. Maquina!Termina(p)
    BY <1>1, <1>2 DEF Maquina!Termina, Motivo
  <1> QED
    BY <1>1, <1>3, FinRefina

\* So is the end of a process whose CPU is gone.
LEMMA SinCpuRefina ==
    ASSUME Ejecucion, NEW p \in Pid, SinCpu(p)
    PROVE  Sigue' /\ Maquina!Fin(p)
  <1>1. /\ pcb[p].estado = "EXEC" /\ cfase = "caida" /\ Terminar(p) /\ UNCHANGED cvars
        /\ tarea' = tarea /\ archivo' = archivo
    BY DEF SinCpu, En
  <1>2. Maquina!Termina(p)
    BY <1>1 DEF Maquina!Termina, rota
  <1> QED
    BY <1>1, <1>2, FinRefina

\* update_pcb takes over the context that came back.
LEMMA ActualizaTodo ==
    ASSUME NEW p \in Pid, DOMAIN pcb[p] = Campos
    PROVE  /\ DOMAIN update_pcb(p) = Campos
           /\ update_pcb(p).pc = desalojo.pc /\ update_pcb(p).registers = desalojo.registers
           /\ update_pcb(p).estado = pcb[p].estado
  BY DEF update_pcb, Campos

\* The process goes to another queue with the context it had.
LEMMA SoltarRefina ==
    ASSUME Ejecucion, ProgramasTipados, NEW p \in Pid, pcb[p].estado = "EXEC", cfase = "desalojo",
           NEW cola \in {"READY", "BLOCK"}, Soltar(p, update_pcb(p), cola),
           UNCHANGED <<segs, ocupado, mem>>, \A q \in Pid \ {p} : tarea'[q] = tarea[q],
           tarea'[p] # nada =>
             /\ tarea'[p].orden = instruccion /\ tarea'[p].op = instruccion.op
             /\ instruccion.op \in {"F_READ", "F_WRITE"}
             /\ Alcanza(De(segs, p), instruccion)
    PROVE  /\ Sigue' /\ PasoSolo(p) /\ vivos' = vivos /\ pc' = pc /\ regs' = regs
           /\ orden'[p] = IF tarea'[p] # nada THEN instruccion ELSE nada
           /\ contenido' = contenido /\ comun' = comun /\ rota' = rota
  <1>1. PICK b : b = [update_pcb(p) EXCEPT !.estado = cola, !.next_queue = cola]
    OBVIOUS
  <1>2. FormaPcb /\ DOMAIN pcb[p] = Campos
    BY DEF Ejecucion, Copias, FormaPcb
  <1>3. /\ DOMAIN update_pcb(p) = Campos
        /\ update_pcb(p).pc = desalojo.pc /\ update_pcb(p).registers = desalojo.registers
    BY <1>2, ActualizaTodo
  <1>4. b.estado = cola /\ b.pc = desalojo.pc /\ b.registers = desalojo.registers
    BY <1>1, <1>3 DEF Campos
  <1>5. pcb' = [pcb EXCEPT ![p] = b] /\ C!esperar_contexto
    BY <1>1 DEF Soltar
  <1>6. /\ p \in vivos /\ \A q \in Pid \ {p} : ~EnCpu(q)
        /\ instruccion \in Instrucciones
        /\ pc[p] = desalojo.pc /\ regs[p] = desalojo.registers /\ EsRegs(desalojo.registers)
    BY Devuelto
  <1>7. MemoriaEnOrden'
    BY OrdenQuieto DEF Ejecucion
  <1>8. Sigue'
    BY <1>4, <1>5, <1>6, <1>7, KernelSigue
  <1>9. PasoSolo(p) /\ vivos' = vivos \cup {p} /\ pcb'[p] = b
    <2>1. Cede(p)
      BY <1>5, <1>6 DEF Cede, C!esperar_contexto
    <2> QED
      BY <1>2, <1>4, <1>5, <2>1, KernelVistas
  <1>10. vivos' = vivos
    BY <1>6, <1>9
  <1>11. /\ pc'[p] = desalojo.pc /\ regs'[p] = desalojo.registers
         /\ orden'[p] = IF tarea'[p] # nada THEN instruccion ELSE nada
    <2>1. ~EnCpu(p)'
      BY <1>5 DEF EnCpu, C!esperar_contexto
    <2> QED
      BY <1>4, <1>9, <2>1, VistaDePrima
  <1>12. pc' = pc /\ regs' = regs
    BY <1>6, <1>9, <1>11, NadaCambia
  <1>13. contenido' = contenido /\ comun' = comun
    BY MemoriaQuieta
  <1>14. rota' = rota
    BY <1>5 DEF rota, C!esperar_contexto
  <1> QED
    BY <1>8, <1>9, <1>10, <1>11, <1>12, <1>13, <1>14

\* YIELD does nothing to its process.
LEMMA YieldRefina ==
    ASSUME Ejecucion, ProgramasTipados, NEW p \in Pid, execute_yield(p)
    PROVE  Sigue' /\ Maquina!Omitir(p)
  <1>1. /\ pcb[p].estado = "EXEC" /\ cfase = "desalojo" /\ desalojo.op = "YIELD"
        /\ Soltar(p, update_pcb(p), "READY") /\ tarea' = tarea /\ archivo' = archivo
        /\ UNCHANGED <<segs, ocupado, mem>>
    BY DEF execute_yield, Recibido, En, mvars
  <1>2. /\ tarea[p] = nada /\ orden[p] = instruccion /\ instruccion.op = "YIELD" /\ p \in vivos
        /\ Maquina!Valida(p)
    BY <1>1, Devuelto DEF Accesos
  <1>3. /\ Sigue' /\ PasoSolo(p) /\ vivos' = vivos /\ pc' = pc /\ regs' = regs
        /\ orden'[p] = nada
        /\ contenido' = contenido /\ comun' = comun /\ rota' = rota
    BY <1>1, <1>2, SoltarRefina
  <1>4. orden' = [orden EXCEPT ![p] = Maquina!ninguna]
    BY <1>3 DEF PasoSolo, SoloCambia, nada, Maquina!ninguna
  <1>5. Maquina!Hecha(p, "YIELD")
    BY <1>2, <1>3, <1>4 DEF Maquina!Hecha
  <1> QED
    BY <1>1, <1>3, <1>5 DEF Maquina!Omitir

\* The thread of a file operation keeps the instruction for its process.
LEMMA ArchivoRefina ==
    ASSUME Ejecucion, ProgramasTipados, NEW p \in Pid, execute_file(p)
    PROVE  Sigue' /\ UNCHANGED Maquina!vars
  <1>1. /\ pcb[p].estado = "EXEC" /\ cfase = "desalojo" /\ desalojo.op \in {"F_READ", "F_WRITE"}
        /\ desalojo.status = "SUCCESS"
        /\ Soltar(p, update_pcb(p), "BLOCK") /\ archivo' = archivo
        /\ UNCHANGED <<segs, ocupado, mem>>
        /\ tarea' = [tarea EXCEPT ![p] = [op |-> desalojo.op, fase |-> "pendiente",
                                          orden |-> desalojo.motivo, fisica |-> desalojo.fisica]]
    BY DEF execute_file, Recibido, En, mvars
  <1>2. PICK t : t = [op |-> desalojo.op, fase |-> "pendiente",
                      orden |-> desalojo.motivo, fisica |-> desalojo.fisica]
    OBVIOUS
  <1>3. t.op = desalojo.op /\ t.orden = desalojo.motivo
    BY <1>2
  <1>4. tarea'[p] = t /\ \A q \in Pid \ {p} : tarea'[q] = tarea[q]
    BY <1>1, <1>2 DEF Ejecucion, Tareas, FormaTarea
  <1>5. t # nada
    BY <1>1, <1>3 DEF nada
  <1>6. /\ orden[p] = instruccion /\ desalojo.op = instruccion.op /\ desalojo.motivo = instruccion
        /\ Alcanza(De(segs, p), instruccion)
    BY <1>1, Devuelto DEF Motivo, Accesos
  <1>7. /\ Sigue' /\ PasoSolo(p) /\ vivos' = vivos /\ pc' = pc /\ regs' = regs
        /\ orden'[p] = instruccion
        /\ contenido' = contenido /\ comun' = comun /\ rota' = rota
    BY <1>1, <1>3, <1>4, <1>5, <1>6, SoltarRefina
  <1>8. orden' = orden
    BY <1>6, <1>7, NadaCambia
  <1> QED
    BY <1>1, <1>7, <1>8 DEF Maquina!vars

-----------------------------------------------------------------------------
(* How many segments and cells                                             *)

\* The three modules count alike.
LEMMA MismaCardinalidad ==
    ASSUME NEW S
    PROVE  M!Cardinality(S) = Cardinality(S) /\ Maquina!Cardinality(S) = Cardinality(S)
  BY DEF M!Cardinality, Maquina!Cardinality, Cardinality

\* There are TAM_MEMORIA cells.
LEMMA DireccionesFinitas ==
    IsFiniteSet(M!Direcciones) /\ Cardinality(M!Direcciones) = TamMemoria
  <1>1. TamMemoria \in Nat
    BY TukiAssumption
  <1>2. 0 \in Int /\ TamMemoria - 1 \in Int
    BY <1>1
  <1>3. IsFiniteSet(0..(TamMemoria - 1))
    BY <1>2, FS_Interval
  <1>4. Cardinality(0..(TamMemoria - 1)) =
          IF 0 > TamMemoria - 1 THEN 0 ELSE (TamMemoria - 1) - 0 + 1
    BY <1>2, FS_Interval
  <1> QED
    BY <1>1, <1>3, <1>4 DEF M!Direcciones

\* Segments with cells of their own are finitely many.
LEMMA SegmentosFinitos ==
    ASSUME NEW S, NEW occ, Ordenada(S, occ)
    PROVE  IsFiniteSet(S)
  <1> DEFINE f == [s \in S |-> s.base]
  <1>1. ASSUME NEW s \in S PROVE s.base \in M!Rango(s) /\ s.base \in M!Direcciones
    <2>1. s.base \in Nat /\ s.size \in Nat /\ s.size > 0 /\ M!Rango(s) \subseteq M!Direcciones
      BY Numeros DEF Ordenada
    <2>2. s.base \in M!Rango(s)
      BY <2>1 DEF M!Rango
    <2> QED
      BY <2>1, <2>2
  <1>2. f \in Injection(S, M!Direcciones)
    <2>1. \A s, t \in S : f[s] = f[t] => s = t
      BY <1>1 DEF Ordenada
    <2>2. f \in [S -> M!Direcciones]
      BY <1>1
    <2> QED
      BY <2>1, <2>2 DEF Injection, IsInjective
  <1> HIDE DEF f
  <1> QED
    BY <1>2, DireccionesFinitas, FS_Injection DEF ExistsInjection

\* A process has as many segments here as in the abstract machine.
LEMMA CuantosDe ==
    ASSUME MemoriaEnOrden, NEW p
    PROVE  Maquina!Cardinality(Maquina!De(p)) = M!Cardinality(M!DeProceso(p))
  <1> DEFINE A == De(segs, p)
             B == Maquina!De(p)
             f == [s \in A |-> Clave(s)]
  <1>1. B = {k \in Claves(segs) : k[1] = p}
    <2>1. DOMAIN contenido = Claves(segs)
      BY ContenidoVista DEF Vista
    <2> QED
      BY <2>1 DEF Maquina!De
  <1>2. \A s \in segs : Clave(s)[1] = s.pid
    BY DEF Clave
  <1>3. \A s, t \in segs : Clave(s) = Clave(t) => s = t
    BY DEF Clave, MemoriaEnOrden, Ordenada
  <1>4. IsFiniteSet(A)
    BY SegmentosFinitos, FS_Subset DEF De, MemoriaEnOrden
  <1>5. f \in Bijection(A, B)
    <2>1. f \in [A -> B]
      BY <1>1, <1>2 DEF De, Claves
    <2>2. \A s, t \in A : f[s] = f[t] => s = t
      BY <1>3 DEF De
    <2>3. \A k \in B : \E s \in A : f[s] = k
      BY <1>1, <1>2 DEF De, Claves
    <2> QED
      BY <2>1, <2>2, <2>3 DEF Bijection, Injection, Surjection, IsInjective
  <1> HIDE DEF A, B, f
  <1>6. Cardinality(A) = Cardinality(B)
    BY <1>4, <1>5, FS_Bijection DEF ExistsBijection
  <1> QED
    BY <1>6, MismaCardinalidad, DeEs DEF A, B

\* The cells that are free here are the ones the abstract machine has left.
LEMMA LibreEs ==
    ASSUME MemoriaEnOrden
    PROVE  M!Cardinality(M!Direcciones \ ocupado) = Maquina!Libre
  <1> DEFINE U == ocupado \ M!Segmento0
             duenio(a) == CHOOSE s \in segs : a \in M!Rango(s)
             f == [a \in U |-> <<Clave(duenio(a)), a - duenio(a).base + 1>>]
             V == Maquina!Usadas
  <1>0. Ordenada(segs, ocupado)
    BY DEF MemoriaEnOrden
  <1>1. ASSUME NEW s \in segs
        PROVE  /\ s.base \in Nat /\ s.size \in Nat /\ M!Rango(s) \subseteq U
               /\ M!Rango(s) = s.base..(s.base + s.size - 1)
    <2>1. s \in M!Segmento /\ M!Rango(s) \cap M!Segmento0 = {}
      BY <1>0 DEF Ordenada
    <2>2. M!Rango(s) \subseteq ocupado
      BY <1>0, OrdenadaCeldas
    <2> QED
      BY <2>1, <2>2, Numeros DEF M!Rango
  <1>2. ASSUME NEW a \in U PROVE duenio(a) \in segs /\ a \in M!Rango(duenio(a)) /\ a \in Nat
    <2>1. \E s \in segs : a \in M!Rango(s)
      BY <1>0, OrdenadaCeldas
    <2>2. duenio(a) \in segs /\ a \in M!Rango(duenio(a))
      BY <2>1
    <2> HIDE DEF duenio
    <2>3. a \in Nat
      BY <1>1, <2>2
    <2> QED
      BY <2>2, <2>3
  <1>3. ASSUME NEW s \in segs, NEW a \in M!Rango(s) PROVE duenio(a) = s
    BY <1>0, <1>3 DEF Ordenada
  <1>4. V = UNION {{Clave(s)} \X (1..s.size) : s \in segs}
    <2>1. DOMAIN contenido = Claves(segs)
      BY ContenidoVista DEF Vista
    <2>2. \A s \in segs : Len(contenido[Clave(s)]) = s.size
      <3>1. \A s \in segs : contenido[Clave(s)] = Celdas(mem, s)
        BY <1>0, ContenidoVista, VistaVale
      <3> QED
        BY <1>1, <3>1, CeldasForma
    <2>3. V = UNION {{k} \X (1..Len(contenido[k])) : k \in Claves(segs)}
      BY <2>1 DEF Maquina!Usadas
    <2> QED
      BY <2>2, <2>3 DEF Claves
  <1> HIDE DEF duenio, V
  <1>5. ASSUME NEW a \in U PROVE f[a] \in V
    <2>1. /\ duenio(a) \in segs /\ a \in M!Rango(duenio(a)) /\ a \in Nat
      BY <1>2
    <2>2. PICK s \in segs : s = duenio(a)
      BY <2>1
    <2>3. a - s.base + 1 \in 1..s.size
      BY <1>1, <2>1, <2>2
    <2>4. f[a] = <<Clave(s), a - s.base + 1>>
      BY <2>2
    <2>5. <<Clave(s), a - s.base + 1>> \in {Clave(s)} \X (1..s.size)
      BY <2>3
    <2> QED
      BY <1>4, <2>4, <2>5
  <1>6. ASSUME NEW a \in U, NEW c \in U, f[a] = f[c] PROVE a = c
    <2>1. /\ duenio(a) \in segs /\ a \in Nat /\ duenio(c) \in segs /\ c \in Nat
      BY <1>2
    <2>2. Clave(duenio(a)) = Clave(duenio(c)) /\ a - duenio(a).base + 1 = c - duenio(c).base + 1
      BY <1>6
    <2>3. duenio(a) = duenio(c)
      BY <1>0, <2>1, <2>2 DEF Clave, Ordenada
    <2>4. PICK s \in segs : s = duenio(a)
      BY <2>1
    <2>5. s.base \in Nat /\ a - s.base + 1 = c - s.base + 1
      BY <1>1, <2>2, <2>3, <2>4
    <2> QED
      BY <2>1, <2>5
  <1>7. ASSUME NEW u \in V PROVE \E a \in U : f[a] = u
    <2>1. PICK s \in segs : u \in {Clave(s)} \X (1..s.size)
      BY <1>4
    <2>2. PICK i \in 1..s.size : u = <<Clave(s), i>>
      BY <2>1
    <2>3. s.base + i - 1 \in M!Rango(s) /\ (s.base + i - 1) - s.base + 1 = i
      BY <1>1
    <2>4. s.base + i - 1 \in U /\ duenio(s.base + i - 1) = s
      BY <1>1, <1>3, <2>3
    <2>5. f[s.base + i - 1] = u
      BY <2>2, <2>3, <2>4
    <2> QED
      BY <2>4, <2>5
  <1>8. f \in Bijection(U, V)
    <2>1. f \in [U -> V]
      BY <1>5
    <2>2. \A a, c \in U : f[a] = f[c] => a = c
      BY <1>6
    <2> HIDE DEF f, U
    <2> QED
      BY <1>7, <2>1, <2>2 DEF Bijection, Injection, Surjection, IsInjective
  <1> HIDE DEF f
  <1>9. /\ M!Segmento0 \subseteq ocupado /\ ocupado \subseteq M!Direcciones
        /\ IsFiniteSet(M!Segmento0) /\ Cardinality(M!Segmento0) = TamSegmento0
    <2>1. TamSegmento0 \in Nat \ {0} /\ TamMemoria \in Nat /\ TamSegmento0 <= TamMemoria
      BY TukiAssumption
    <2>2. M!Segmento0 \subseteq ocupado
      BY <1>0, OrdenadaCeldas
    <2>3. M!Segmento0 \subseteq M!Direcciones
      BY <2>1 DEF M!Segmento0, M!Direcciones
    <2>4. \A s \in segs : M!Rango(s) \subseteq M!Direcciones
      BY <1>0 DEF Ordenada
    <2>5. ocupado \subseteq M!Direcciones
      BY <1>0, <2>3, <2>4, OrdenadaCeldas
    <2>6. 0 \in Int /\ TamSegmento0 - 1 \in Int
      BY <2>1
    <2>7. IsFiniteSet(0..(TamSegmento0 - 1))
      BY <2>6, FS_Interval
    <2>8. Cardinality(0..(TamSegmento0 - 1)) =
            IF 0 > TamSegmento0 - 1 THEN 0 ELSE (TamSegmento0 - 1) - 0 + 1
      BY <2>6, FS_Interval
    <2> QED
      BY <2>1, <2>2, <2>5, <2>7, <2>8 DEF M!Segmento0
  <1>10. IsFiniteSet(ocupado) /\ IsFiniteSet(M!Direcciones) /\ Cardinality(M!Direcciones) = TamMemoria
    BY <1>9, DireccionesFinitas, FS_Subset
  <1>11. Cardinality(M!Direcciones \ ocupado) = Cardinality(M!Direcciones) - Cardinality(M!Direcciones \cap ocupado)
    BY <1>10, FS_Difference
  <1>12. Cardinality(U) = Cardinality(ocupado) - Cardinality(ocupado \cap M!Segmento0)
    BY <1>9, <1>10, FS_Difference
  <1>13. M!Direcciones \cap ocupado = ocupado /\ ocupado \cap M!Segmento0 = M!Segmento0
    BY <1>9
  <1>14. IsFiniteSet(U)
    BY <1>10, FS_Subset
  <1> HIDE DEF U
  <1>15. Cardinality(U) = Cardinality(V)
    BY <1>8, <1>14, FS_Bijection DEF ExistsBijection
  <1>16. /\ Cardinality(ocupado) \in Nat /\ Cardinality(U) \in Nat
         /\ TamMemoria \in Nat /\ TamSegmento0 \in Nat
    BY <1>10, <1>14, FS_CardinalityType, TukiAssumption
  <1>17. Maquina!Libre = TamMemoria - TamSegmento0 - Cardinality(V)
    BY MismaCardinalidad DEF Maquina!Libre, V
  <1>18. Cardinality(M!Direcciones \ ocupado) = TamMemoria - TamSegmento0 - Cardinality(U)
    <2>1. Cardinality(M!Direcciones \ ocupado) = TamMemoria - Cardinality(ocupado)
      BY <1>10, <1>11, <1>13
    <2>2. Cardinality(U) = Cardinality(ocupado) - TamSegmento0
      BY <1>9, <1>12, <1>13
    <2> QED
      BY ONLY <1>16, <2>1, <2>2
  <1> QED
    BY <1>15, <1>17, <1>18, MismaCardinalidad

-----------------------------------------------------------------------------
(* What the kernel asks of memoria                                         *)

\* The process goes on with the context that came back.
LEMMA SeguirRefina ==
    ASSUME Ejecucion, ProgramasTipados, NEW p \in Pid, pcb[p].estado = "EXEC", cfase = "desalojo",
           NEW b, Seguir(p, b), b.estado = "EXEC",
           b.pc = desalojo.pc, b.registers = desalojo.registers, tarea' = tarea,
           MemoriaEnOrden', \A q \in Pid \ {p} : De(segs', q) = De(segs, q)
    PROVE  /\ Sigue' /\ PasoSolo(p) /\ vivos' = vivos /\ pc' = pc /\ regs' = regs
           /\ orden'[p] = nada /\ rota' = rota
  <1>1. pcb' = [pcb EXCEPT ![p] = b] /\ C!recibir_contexto(p, b.pc, b.registers, b.tabla)
    BY DEF Seguir, send_pcb_to_cpu
  <1>2. /\ cfase' = "fetch" /\ contexto'.pid = p /\ contexto'.pc = b.pc /\ cpu_registers' = b.registers
    BY <1>1 DEF C!recibir_contexto
  <1>3. /\ p \in vivos /\ tarea[p] = nada /\ \A q \in Pid \ {p} : ~EnCpu(q)
        /\ pc[p] = desalojo.pc /\ regs[p] = desalojo.registers /\ EsRegs(desalojo.registers)
        /\ FormaPcb
    BY Devuelto DEF Ejecucion, Copias
  <1>4. Sigue'
    BY <1>1, <1>3, KernelSigue
  <1>5. PasoSolo(p) /\ vivos' = vivos \cup {p} /\ pcb'[p] = b
    <2>1. Cede(p)
      BY <1>2, <1>3 DEF Cede
    <2> QED
      BY <1>1, <1>3, <2>1, KernelVistas
  <1>6. vivos' = vivos
    BY <1>3, <1>5
  <1>7. pc'[p] = b.pc /\ orden'[p] = nada /\ regs'[p] = b.registers
    BY <1>2, <1>3, <1>5, VistaDePrima
  <1>8. pc' = pc /\ regs' = regs
    BY <1>3, <1>5, <1>7, NadaCambia
  <1>9. rota' = rota
    BY <1>2 DEF rota
  <1> QED
    BY <1>4, <1>5, <1>6, <1>7, <1>8, <1>9

\* What came back is of the kind op, and the machine is done with it.
LEMMA Cumplida ==
    ASSUME Ejecucion, ProgramasTipados, NEW p \in Pid, NEW op \in {"CREATE_SEGMENT", "DELETE_SEGMENT"},
           Recibido(p, op), PasoSolo(p), vivos' = vivos, pc' = pc, orden'[p] = nada, rota' = rota
    PROVE  Maquina!Hecha(p, op)
  <1>1. /\ p \in vivos /\ orden[p] = instruccion /\ instruccion.op = op /\ Maquina!Valida(p)
    BY Devuelto DEF Recibido, En, Accesos
  <1>2. orden' = [orden EXCEPT ![p] = Maquina!ninguna]
    BY DEF PasoSolo, SoloCambia, nada, Maquina!ninguna
  <1> QED
    BY <1>1, <1>2 DEF Maquina!Hecha

\* DELETE_SEGMENT.
LEMMA BorrarRefina ==
    ASSUME Ejecucion, ProgramasTipados, NEW p \in Pid, execute_delete_segment(p)
    PROVE  Sigue' /\ Maquina!Borrar(p)
  <1>1. /\ Recibido(p, "DELETE_SEGMENT") /\ pcb[p].estado = "EXEC" /\ cfase = "desalojo"
        /\ tarea' = tarea /\ archivo' = archivo
        /\ M!delete_segment(p, desalojo.motivo.id)
    BY DEF execute_delete_segment, Recibido, En
  <1>2. PICK s \in segs : s.pid = p /\ s.id = desalojo.motivo.id /\ segs' = segs \ {s}
    BY <1>1, EfectoBorrar DEF Ejecucion
  <1>3. mem' = mem /\ MemoriaEnOrden'
    BY <1>1, EfectoBorrar DEF Ejecucion
  <1>4. PICK t : t = Tabla({u \in segs' : u.pid = p})
    OBVIOUS
  <1>5. PICK b : b = [update_pcb(p) EXCEPT !.tabla = t]
    OBVIOUS
  <1>6. Seguir(p, b)
    BY <1>4, <1>5 DEF execute_delete_segment
  <1>7. b.estado = "EXEC" /\ b.pc = desalojo.pc /\ b.registers = desalojo.registers
    <2>1. DOMAIN pcb[p] = Campos
      BY DEF Ejecucion, Copias, FormaPcb
    <2>2. /\ DOMAIN update_pcb(p) = Campos /\ update_pcb(p).estado = "EXEC"
          /\ update_pcb(p).pc = desalojo.pc /\ update_pcb(p).registers = desalojo.registers
      BY <1>1, <2>1, ActualizaTodo
    <2> QED
      BY <1>5, <2>2 DEF Campos
  <1>8. \A q \in Pid \ {p} : De(segs', q) = De(segs, q)
    BY <1>2 DEF De
  <1>9. /\ Sigue' /\ PasoSolo(p) /\ vivos' = vivos /\ pc' = pc /\ regs' = regs
        /\ orden'[p] = nada /\ rota' = rota
    BY <1>1, <1>3, <1>6, <1>7, <1>8, SeguirRefina
  <1>10. Maquina!Hecha(p, "DELETE_SEGMENT")
    BY <1>1, <1>9, Cumplida
  <1>11. orden[p] = desalojo.motivo
    BY <1>1, Devuelto
  <1>12. contenido' = [k \in DOMAIN contenido \ {<<p, orden[p].id>>} |-> contenido[k]]
    <2>1. contenido = Vista(segs, mem) /\ contenido' = Vista(segs \ {s}, mem)
      BY <1>2, <1>3, ContenidoVista
    <2>2. Vista(segs \ {s}, mem) = [k \in Claves(segs) \ Claves({s}) |-> Vista(segs, mem)[k]]
      <3>1. Ordenada(segs, ocupado) /\ {s} \subseteq segs
        BY DEF Ejecucion, MemoriaEnOrden
      <3> QED
        BY ONLY <3>1, VistaQuita
    <2>3. Claves({s}) = {<<p, orden[p].id>>}
      BY <1>2, <1>11 DEF Claves, Clave
    <2>4. DOMAIN contenido = Claves(segs)
      BY <2>1 DEF Vista
    <2> QED
      BY <2>1, <2>2, <2>3, <2>4
  <1>13. comun' = comun
    BY <1>3 DEF comun, Celdas, segment_0
  <1> QED
    BY <1>1, <1>9, <1>10, <1>12, <1>13 DEF Maquina!Borrar

\* The segment that CREATE_SEGMENT asks for.
LEMMA LoPedido ==
    ASSUME Ejecucion, ProgramasTipados, NEW p \in Pid, Recibido(p, "CREATE_SEGMENT")
    PROVE  /\ pcb[p].estado = "EXEC" /\ cfase = "desalojo" /\ tarea[p] = nada
           /\ orden[p] = desalojo.motivo /\ orden[p].op = "CREATE_SEGMENT"
           /\ desalojo.motivo.id \in Ids /\ desalojo.motivo.size \in Sizes
           /\ desalojo.motivo.size \in Nat
  <1>1. pcb[p].estado = "EXEC" /\ cfase = "desalojo" /\ desalojo.op = "CREATE_SEGMENT" /\ desalojo.status = "SUCCESS"
    BY DEF Recibido, En
  <1>2. /\ orden[p] = desalojo.motivo /\ tarea[p] = nada /\ desalojo.motivo \in Instrucciones
        /\ desalojo.motivo.op = "CREATE_SEGMENT" /\ desalojo.motivo.size <= TamMaxSegmento
    BY <1>1, Devuelto DEF Motivo
  <1> QED
    BY <1>1, <1>2 DEF ProgramasTipados

\* A new segment.
LEMMA CrearSegmentoRefina ==
    ASSUME Ejecucion, ProgramasTipados, IdsPropios, NEW p \in Pid, execute_create_segment(p),
           respuesta' = "SEGMENTO"
    PROVE  Sigue' /\ Maquina!Crear(p)
  <1>1. PICK q : q = [pid |-> p, id |-> desalojo.motivo.id, size |-> desalojo.motivo.size]
    OBVIOUS
  <1>2. /\ Recibido(p, "CREATE_SEGMENT") /\ M!create_segment(q)
        /\ Seguir(p, ConSegmento(p, update_pcb(p)))
        /\ tarea' = tarea /\ archivo' = archivo
    BY <1>1 DEF execute_create_segment
  <1>3. q.pid = p /\ q.id = desalojo.motivo.id /\ q.size = desalojo.motivo.size
    BY <1>1
  <1>4. /\ pcb[p].estado = "EXEC" /\ cfase = "desalojo"
        /\ orden[p] = desalojo.motivo /\ q.id \in Ids /\ q.size \in Sizes /\ q.size \in Nat
    BY <1>2, <1>3, LoPedido
  <1>5. /\ mem' = mem /\ MemoriaEnOrden'
        /\ \E t : /\ t \in M!Segmento /\ segs' = segs \cup {t}
                  /\ t.pid = q.pid /\ t.id = q.id /\ t.size = q.size
    BY <1>2, <1>3, <1>4, EfectoCrear DEF Ejecucion
  <1>6. PICK t : t \in M!Segmento /\ segs' = segs \cup {t} /\ t.pid = p /\ t.id = q.id /\ t.size = q.size
    BY <1>3, <1>5
  <1>7. PICK b : b = ConSegmento(p, update_pcb(p))
    OBVIOUS
  <1>8. b.estado = "EXEC" /\ b.pc = desalojo.pc /\ b.registers = desalojo.registers
    <2>1. DOMAIN pcb[p] = Campos
      BY DEF Ejecucion, Copias, FormaPcb
    <2>2. /\ DOMAIN update_pcb(p) = Campos /\ update_pcb(p).estado = "EXEC"
          /\ update_pcb(p).pc = desalojo.pc /\ update_pcb(p).registers = desalojo.registers
      BY <1>4, <2>1, ActualizaTodo
    <2>3. PICK f : b = [update_pcb(p) EXCEPT !.tabla = f]
      BY <1>7 DEF ConSegmento
    <2> QED
      BY <2>2, <2>3 DEF Campos
  <1>9. \A r \in Pid \ {p} : De(segs', r) = De(segs, r)
    BY <1>6 DEF De
  <1>10. /\ Sigue' /\ PasoSolo(p) /\ vivos' = vivos /\ pc' = pc /\ regs' = regs
         /\ orden'[p] = nada /\ rota' = rota
    BY <1>2, <1>4, <1>5, <1>7, <1>8, <1>9, SeguirRefina
  <1>11. Maquina!Hecha(p, "CREATE_SEGMENT")
    BY <1>2, <1>10, Cumplida
  <1>12. Clave(t) = <<p, orden[p].id>> /\ t.size = orden[p].size
    BY <1>3, <1>4, <1>6 DEF Clave
  <1>13. /\ DOMAIN contenido' = DOMAIN contenido \cup {Clave(t)}
         /\ contenido'[Clave(t)] = Celdas(mem, t)
         /\ \A k \in DOMAIN contenido : contenido'[k] = contenido[k]
    <2>1. contenido = Vista(segs, mem) /\ contenido' = Vista(segs \cup {t}, mem)
      BY <1>5, <1>6, ContenidoVista
    <2>2. Ordenada(segs, ocupado) /\ Ordenada(segs \cup {t}, ocupado')
      BY <1>5, <1>6 DEF Ejecucion, MemoriaEnOrden, Ordenada
    <2>3. Agrega(contenido, contenido', Clave(t), Celdas(mem, t))
      BY <2>1, <2>2, VistaAgrega
    <2> QED
      BY <2>3 DEF Agrega
  <1>14. Celdas(mem, t) \in [1..orden[p].size -> Valores]
    <2>1. Ordenada(segs \cup {t}, ocupado')
      BY <1>5, <1>6 DEF MemoriaEnOrden, Ordenada
    <2>2. t.base \in Nat /\ t.size \in Nat /\ t.base..(t.base + t.size - 1) \subseteq M!Direcciones
      BY <2>1, FilaBuena
    <2>3. Celdas(mem, t) \in [1..t.size -> Valores]
      BY <2>2, CeldasTipo DEF Ejecucion
    <2> QED
      BY <1>12, <2>3
  <1>15. comun' = comun
    BY <1>5 DEF comun, Celdas, segment_0
  <1> QED
    BY <1>2, <1>10, <1>11, <1>12, <1>13, <1>14, <1>15 DEF Maquina!Crear

\* No segment: the process has all it may have, or the memory has to be compacted.
LEMMA CrearNadaRefina ==
    ASSUME Ejecucion, ProgramasTipados, IdsPropios, NEW p \in Pid, execute_create_segment(p),
           respuesta' # "SEGMENTO"
    PROVE  Sigue' /\ (Maquina!Omitir(p) \/ UNCHANGED Maquina!vars)
  <1>1. PICK q : q = [pid |-> p, id |-> desalojo.motivo.id, size |-> desalojo.motivo.size]
    OBVIOUS
  <1>2. /\ Recibido(p, "CREATE_SEGMENT") /\ M!create_segment(q)
        /\ tarea' = tarea /\ archivo' = archivo
    BY <1>1 DEF execute_create_segment
  <1>3. q.pid = p /\ q.id = desalojo.motivo.id /\ q.size = desalojo.motivo.size
    BY <1>1
  <1>4. /\ pcb[p].estado = "EXEC" /\ cfase = "desalojo" /\ tarea[p] = nada
        /\ orden[p] = desalojo.motivo /\ q.id \in Ids /\ q.size \in Sizes
    BY <1>2, <1>3, LoPedido
  <1>5. mem' = mem /\ MemoriaEnOrden' /\ segs' = segs
    BY <1>2, <1>3, <1>4, EfectoCrear DEF Ejecucion
  <1>6. contenido' = contenido /\ comun' = comun
    BY <1>5, MemoriaQuieta
  <1>7. CASE respuesta' = "MAX_SEG_QUANTITY_REACHED"
    <2>1. Soltar(p, update_pcb(p), pcb[p].next_queue)
      BY <1>7 DEF execute_create_segment
    <2>2. pcb[p].next_queue \in {"READY", "BLOCK"}
      BY DEF Ejecucion, Copias, FormaPcb
    <2>3. M!Cardinality(M!DeProceso(p)) + 1 >= CantSegmentos
      BY <1>2, <1>3, <1>7 DEF M!create_segment, M!Asignar
    <2>4. ocupado' = ocupado
      BY <1>2, <1>3, <2>3 DEF M!create_segment
    <2>5. /\ Sigue' /\ PasoSolo(p) /\ vivos' = vivos /\ pc' = pc /\ regs' = regs
          /\ orden'[p] = nada /\ rota' = rota
      BY <1>2, <1>4, <1>5, <2>1, <2>2, <2>4, SoltarRefina
    <2>6. Maquina!Hecha(p, "CREATE_SEGMENT")
      BY <1>2, <2>5, Cumplida
    <2>7. Maquina!Cardinality(Maquina!De(p)) + 1 >= CantSegmentos
      BY <2>3, CuantosDe DEF Ejecucion
    <2> QED
      BY <1>2, <1>6, <2>5, <2>6, <2>7 DEF Maquina!Omitir
  <1>8. CASE respuesta' = "COMPACTATION_REQUIRED"
    <2>1. pcb' = [pcb EXCEPT ![p] = update_pcb(p)] /\ UNCHANGED cvars
      BY <1>8 DEF execute_create_segment
    <2>2. PICK b : b = update_pcb(p)
      OBVIOUS
    <2>3. b.estado = "EXEC" /\ b.pc = desalojo.pc /\ b.registers = desalojo.registers
      BY <1>4, <2>2, ActualizaTodo DEF Ejecucion, Copias, FormaPcb
    <2>4. /\ p \in vivos /\ p = contexto.pid /\ EsRegs(desalojo.registers) /\ FormaPcb
          /\ \A r \in Pid \ {p} : ~EnCpu(r)
      BY <1>4, Devuelto DEF Ejecucion, Copias
    <2>5. Sigue'
      BY <1>2, <1>4, <1>5, <2>1, <2>2, <2>3, <2>4, KernelSigue
    <2>6. PasoSolo(p) /\ vivos' = vivos \cup {p} /\ pcb'[p] = b
      BY <1>2, <2>1, <2>2, <2>3, <2>4, KernelVistas DEF Cede
    <2>7. pc'[p] = pc[p] /\ orden'[p] = orden[p] /\ regs'[p] = regs[p]
      <3>1. EnCpu(p) /\ EnCpu(p)'
        BY <1>4, <2>1, <2>3, <2>4, <2>6 DEF EnCpu, cvars
      <3> QED
        BY <1>2, <1>4, <2>1, <3>1, VistaDe, VistaDePrima DEF cvars
    <2>8. pc' = pc /\ orden' = orden /\ regs' = regs
      BY <2>6, <2>7, NadaCambia
    <2>9. vivos' = vivos /\ rota' = rota
      BY <2>1, <2>4, <2>6 DEF rota, cvars
    <2> QED
      BY <1>2, <1>6, <2>5, <2>8, <2>9 DEF Maquina!vars
  <1> QED
    BY <1>7, <1>8 DEF execute_create_segment

\* OUT_OF_MEMORY.
LEMMA SinMemoriaRefina ==
    ASSUME Ejecucion, ProgramasTipados, NEW p \in Pid, SinMemoria(p)
    PROVE  Sigue' /\ Maquina!Fin(p)
  <1>1. /\ Recibido(p, "CREATE_SEGMENT") /\ ~M!is_malloc_possible(desalojo.motivo.size)
        /\ Terminar(p) /\ C!esperar_contexto /\ tarea' = tarea /\ archivo' = archivo
    BY DEF SinMemoria
  <1>2. /\ pcb[p].estado = "EXEC" /\ cfase = "desalojo" /\ orden[p] = desalojo.motivo
        /\ orden[p].op = "CREATE_SEGMENT" /\ desalojo.motivo.size \in Nat
    BY <1>1, LoPedido
  <1>3. ~(M!Cardinality(M!Direcciones \ ocupado) >= orden[p].size)
    BY <1>1, <1>2 DEF M!is_malloc_possible
  <1>4. M!Cardinality(M!Direcciones \ ocupado) = Maquina!Libre
    BY LibreEs DEF Ejecucion
  <1>5. M!Cardinality(M!Direcciones \ ocupado) \in Nat
    <2>1. IsFiniteSet(M!Direcciones \ ocupado)
      BY DireccionesFinitas, FS_Subset
    <2> QED
      BY <2>1, FS_CardinalityType, MismaCardinalidad
  <1>6. orden[p].size > Maquina!Libre
    <2>1. PICK x : x = orden[p].size
      OBVIOUS
    <2>2. PICK y : y = Maquina!Libre
      OBVIOUS
    <2>3. x \in Nat /\ y \in Nat /\ ~(y >= x)
      BY <1>2, <1>3, <1>4, <1>5, <2>1, <2>2
    <2>4. x > y
      BY ONLY <2>3
    <2> QED
      BY <2>1, <2>2, <2>4
  <1>7. Maquina!Termina(p)
    BY <1>2, <1>6 DEF Maquina!Termina
  <1> QED
    BY <1>1, <1>2, <1>7, FinRefina

-----------------------------------------------------------------------------
(* What the threads of files do                                            *)

\* A thread takes the filesystem: nothing a process sees.
LEMMA TomarRefina ==
    ASSUME Ejecucion, NEW p \in Pid, TomarFS(p)
    PROVE  Sigue' /\ UNCHANGED Maquina!vars
  <1>1. /\ tarea[p] # nada /\ tarea' = [tarea EXCEPT ![p].fase = "enFS"]
        /\ UNCHANGED cvars /\ pcb' = pcb /\ archivo' = archivo /\ UNCHANGED <<segs, ocupado, mem>>
    BY DEF TomarFS, mvars
  <1>2. DOMAIN tarea = Pid /\ DOMAIN tarea[p] = CamposTarea
    BY <1>1 DEF Ejecucion, Tareas, FormaTarea
  <1>3. PICK t : t = [tarea[p] EXCEPT !.fase = "enFS"]
    OBVIOUS
  <1>4. t.op = tarea[p].op /\ t.orden = tarea[p].orden
    BY <1>2, <1>3 DEF CamposTarea
  <1>5. tarea'[p] = t /\ \A q \in Pid \ {p} : tarea'[q] = tarea[q]
    BY <1>1, <1>2, <1>3
  <1>6. /\ t.orden \in Instrucciones /\ t.op = t.orden.op /\ t.op \in {"F_READ", "F_WRITE"}
        /\ Alcanza(De(segs, p), t.orden)
    BY <1>1, <1>4 DEF Ejecucion, Encargos
  <1>7. t # nada
    BY <1>6 DEF nada
  <1>8. \A q \in Pid : tarea'[q] # nada =>
             /\ tarea[q] # nada /\ tarea'[q].orden = tarea[q].orden /\ tarea'[q].op = tarea[q].op
    BY <1>1, <1>4, <1>5
  <1>9. Encargos'
    BY <1>1, <1>8, DespuesEncargos DEF Ejecucion, Encargos
  <1>10. MemoriaEnOrden' /\ Registrado'
    BY <1>1, OrdenQuieto, DespuesRegistrado DEF Ejecucion, Registrado, cvars
  <1>11. EnMarcha' /\ Desalojado'
    BY <1>1, DespuesDesalojado DEF Ejecucion, EnMarcha, Desalojado, C!Fases, cvars
  <1>12. ASSUME NEW q \in Pid
         PROVE  pc'[q] = pc[q] /\ orden'[q] = orden[q] /\ regs'[q] = regs[q]
    <2>1. EnCpu(q)' <=> EnCpu(q)
      BY <1>1 DEF EnCpu, cvars
    <2>2. tarea'[q] # nada <=> tarea[q] # nada
      BY <1>1, <1>5, <1>7
    <2>3. tarea[q] # nada => tarea'[q].orden = tarea[q].orden
      BY <1>4, <1>5
    <2> QED
      BY <1>1, <2>1, <2>2, <2>3, VistaDe, VistaDePrima DEF cvars
  <1>13. pc' = pc /\ orden' = orden /\ regs' = regs
    BY <1>12, VistasForma
  <1>14. vivos' = vivos /\ rota' = rota
    BY <1>1 DEF vivos, rota, cvars
  <1>15. contenido' = contenido /\ comun' = comun
    BY <1>1, MemoriaQuieta
  <1> QED
    BY <1>1, <1>9, <1>10, <1>11, <1>13, <1>14, <1>15 DEF Sigue, Maquina!vars

\* The operation a thread has: what it is, and where in memory it is done.
LEMMA DelHilo ==
    ASSUME Ejecucion, ProgramasTipados, NEW p \in Pid, tarea[p] # nada
    PROVE  /\ p \in vivos /\ ~EnCpu(p) /\ pcb[p].estado = "BLOCK" /\ orden[p] = tarea[p].orden
           /\ tarea[p].op = orden[p].op /\ tarea[p].op \in {"F_READ", "F_WRITE"}
           /\ Maquina!Valida(p) /\ orden[p].dir \in Nat /\ orden[p].cant \in Nat
           /\ \E g : /\ Nombra(g, orden[p].dir, De(segs, p))
                     /\ EnFila(p, g, C!get_desplazamiento_segmento(orden[p].dir), orden[p].cant)
                     /\ tarea[p].fisica = g.base + C!get_desplazamiento_segmento(orden[p].dir)
  <1>1. pcb[p].estado = "BLOCK"
    BY DEF Ejecucion, Tareas, Bloqueados
  <1>2. p \in vivos /\ ~EnCpu(p)
    BY <1>1 DEF vivos, EnCpu
  <1>3. orden[p] = tarea[p].orden
    BY <1>2, VistaDe
  <1>4. PICK i \in Instrucciones : i = tarea[p].orden
    BY DEF Ejecucion, Encargos
  <1>5. tarea[p].op = i.op /\ tarea[p].op \in {"F_READ", "F_WRITE"} /\ Alcanza(De(segs, p), i)
    BY <1>4 DEF Ejecucion, Encargos
  <1>6. i.op \in Accesos
    BY <1>5 DEF Accesos
  <1>7. i.dir \in Nat /\ C!Tamanio(i) = i.cant /\ i.cant \in Nat
    BY <1>5, <1>6, TamanioEs
  <1>8. Maquina!Valida(p)
    BY <1>3, <1>4, <1>5, ValidaEs DEF Ejecucion
  <1>9. PICK g : Nombra(g, i.dir, De(segs, p)) /\ i.cant + C!get_desplazamiento_segmento(i.dir) <= g.size
    BY <1>5, <1>7 DEF Alcanza
  <1>10. C!get_desplazamiento_segmento(i.dir) \in Nat
    BY <1>7, Direccion
  <1>11. tablas \in Seq(Pid) /\ Contains(tablas, p)
    BY <1>1 DEF Ejecucion, Copias, FormaMemoria, Conocidos, Vivos
  <1>12. EnFila(p, g, C!get_desplazamiento_segmento(i.dir), i.cant)
    BY <1>7, <1>9, <1>10, <1>11 DEF EnFila, Nombra
  <1>13. tarea[p].fisica = g.base + C!get_desplazamiento_segmento(i.dir)
    <2>1. tarea[p].fisica = C!get_direccion_fisica(i.dir, Tabla(De(segs, p)))
      BY <1>4 DEF Ejecucion, Direccionado, Guardadas, Apunta
    <2>2. Ordenada(segs, ocupado)
      BY DEF Ejecucion, MemoriaEnOrden
    <2> QED
      BY <1>9, <2>1, <2>2, FisicaEs
  <1> QED
    BY <1>1, <1>2, <1>3, <1>4, <1>5, <1>7, <1>8, <1>9, <1>12, <1>13

\* The thread is done: its process is READY with what it had.
LEMMA TerminarHilo ==
    ASSUME Ejecucion, ProgramasTipados, NEW p \in Pid, TerminarFS(p), MemoriaEnOrden', segs' = segs
    PROVE  Sigue' /\ regs' = regs /\ \A op : orden[p].op = op => Maquina!Hecha(p, op)
  <1>1. /\ tarea[p] # nada /\ tarea' = [tarea EXCEPT ![p] = nada] /\ UNCHANGED cvars
        /\ pcb' = [pcb EXCEPT ![p].estado = "READY"]
    BY DEF TerminarFS, EnFS
  <1>2. /\ p \in vivos /\ ~EnCpu(p) /\ pcb[p].estado = "BLOCK" /\ Maquina!Valida(p)
    BY <1>1, DelHilo
  <1>3. PICK b : b = [pcb[p] EXCEPT !.estado = "READY"]
    OBVIOUS
  <1>4. /\ DOMAIN pcb[p] = Campos /\ DOMAIN pcb = Pid /\ FormaPcb /\ EsRegs(pcb[p].registers)
        /\ DOMAIN tarea = Pid
    BY DEF Ejecucion, Copias, FormaPcb, Registrado, Tareas, FormaTarea
  <1>5. b.estado = "READY" /\ b.pc = pcb[p].pc /\ b.registers = pcb[p].registers
    BY <1>3, <1>4 DEF Campos
  <1>6. pcb' = [pcb EXCEPT ![p] = b]
    BY <1>1, <1>3, <1>4
  <1>7. tarea'[p] = nada /\ \A q \in Pid \ {p} : tarea'[q] = tarea[q] /\ De(segs', q) = De(segs, q)
    BY <1>1, <1>4
  <1>8. ~(cfase # "espera" /\ contexto.pid = p)
    BY <1>2 DEF Ejecucion, EnMarcha
  <1>9. Sigue'
    BY <1>1, <1>4, <1>5, <1>6, <1>7, <1>8, KernelSigue
  <1>10. PasoSolo(p) /\ vivos' = vivos \cup {p} /\ pcb'[p] = b
    BY <1>1, <1>4, <1>5, <1>6, <1>7, KernelVistas DEF Cede
  <1>11. pc'[p] = pc[p] /\ orden'[p] = nada /\ regs'[p] = regs[p]
    <2>1. ~EnCpu(p)'
      BY <1>1, <1>8 DEF EnCpu, cvars
    <2> QED
      BY <1>2, <1>5, <1>7, <1>10, <2>1, VistaDe, VistaDePrima
  <1>12. pc' = pc /\ regs' = regs /\ vivos' = vivos /\ rota' = rota
    BY <1>1, <1>2, <1>10, <1>11, NadaCambia DEF rota, cvars
  <1>13. orden' = [orden EXCEPT ![p] = Maquina!ninguna]
    BY <1>10, <1>11 DEF PasoSolo, SoloCambia, nada, Maquina!ninguna
  <1>14. ASSUME NEW op, orden[p].op = op PROVE Maquina!Hecha(p, op)
    BY <1>2, <1>12, <1>13, <1>14 DEF Maquina!Hecha
  <1> QED
    BY <1>9, <1>12, <1>14

\* F_READ writes in the segment the process named, and F_WRITE reads from it.
LEMMA TerminarFSRefina ==
    ASSUME Ejecucion, ProgramasTipados, NEW p \in Pid, TerminarFS(p)
    PROVE  Sigue' /\ (Maquina!DelArchivo(p) \/ Maquina!AlArchivo(p))
  <1>1. tarea[p] # nada
    BY DEF TerminarFS, EnFS
  <1>2. PICK i : i = tarea[p].orden
    OBVIOUS
  <1>3. PICK d : d = C!get_desplazamiento_segmento(i.dir)
    OBVIOUS
  <1>4. /\ orden[p] = i /\ tarea[p].op = i.op /\ i.dir \in Nat /\ i.cant \in Nat
        /\ \E g : /\ Nombra(g, i.dir, De(segs, p)) /\ EnFila(p, g, d, i.cant)
                  /\ tarea[p].fisica = g.base + d
    BY <1>1, <1>2, <1>3, DelHilo
  <1>5. PICK g : /\ Nombra(g, i.dir, De(segs, p)) /\ EnFila(p, g, d, i.cant)
                 /\ tarea[p].fisica = g.base + d
    BY <1>4
  <1>6. d \in Nat /\ i.cant + d <= g.size /\ g.size \in Nat
    BY <1>5, EnFilaCelda DEF EnFila, Ejecucion
  <1>7. CASE i.op = "F_READ"
    <2>1. PICK datos \in [1..i.cant -> Valores] : M!write_memory(g.base + d, datos) /\ archivo' = archivo
      BY <1>2, <1>4, <1>5, <1>7 DEF TerminarFS
    <2>2. segs' = segs /\ Escrito(mem, g.base + d, datos, mem') /\ MemoriaEnOrden'
      BY <1>5, <2>1, EfectoEscribir DEF Ejecucion
    <2>3. Len(datos) = i.cant
      BY <1>4
    <2>4. d + Len(datos) <= g.size
      BY ONLY <1>4, <1>6, <2>3
    <2>5. Maquina!Escribir(p, i.dir, datos)
      BY <1>3, <1>4, <1>5, <2>2, <2>3, <2>4, EscribirEs DEF Ejecucion
    <2>6. Sigue' /\ regs' = regs /\ Maquina!Hecha(p, "F_READ")
      BY <1>4, <1>7, <2>2, TerminarHilo
    <2> QED
      BY <1>4, <2>1, <2>5, <2>6 DEF Maquina!DelArchivo
  <1>8. CASE i.op = "F_WRITE"
    <2>1. archivo' = M!read_memory(g.base + d, i.cant) /\ UNCHANGED <<segs, ocupado, mem>>
      BY <1>2, <1>4, <1>5, <1>8 DEF TerminarFS, mvars
    <2>2. M!read_memory(g.base + d, i.cant) = [k \in 1..i.cant |-> mem[g.base + d + k - 1]]
      BY <1>5, EfectoLeer DEF Ejecucion
    <2>3. Maquina!Leer(p, i.dir, i.cant) = [k \in 1..i.cant |-> mem[g.base + d + k - 1]]
      <3>1. MemoriaEnOrden /\ i.cant + C!get_desplazamiento_segmento(i.dir) <= g.size
        BY <1>3, <1>6 DEF Ejecucion
      <3>2. PICK dir \in Nat : dir = i.dir
        BY <1>4
      <3>3. PICK n \in Nat : n = i.cant
        BY <1>4
      <3>4. n + C!get_desplazamiento_segmento(dir) <= g.size /\ Nombra(g, dir, De(segs, p))
        BY <1>5, <3>1, <3>2, <3>3
      <3>5. Maquina!Leer(p, dir, n) =
              [k \in 1..n |-> mem[g.base + C!get_desplazamiento_segmento(dir) + k - 1]]
        BY ONLY <3>1, <3>4, LeerEs
      <3> QED
        BY <1>3, <3>2, <3>3, <3>5
    <2>4. MemoriaEnOrden'
      BY <2>1, OrdenQuieto DEF Ejecucion
    <2>5. Sigue' /\ regs' = regs /\ Maquina!Hecha(p, "F_WRITE")
      BY <1>4, <1>8, <2>1, <2>4, TerminarHilo
    <2>6. contenido' = contenido /\ comun' = comun
      BY <2>1, MemoriaQuieta
    <2> QED
      BY <1>4, <2>1, <2>2, <2>3, <2>5, <2>6 DEF Maquina!AlArchivo
  <1>9. i.op \in {"F_READ", "F_WRITE"}
    BY <1>1, <1>4, DelHilo
  <1> QED
    BY <1>7, <1>8, <1>9

-----------------------------------------------------------------------------
(* What no process sees                                                    *)

\* Of a PCB no more than its table changes.
MismosPcb == \A q \in Pid : /\ pcb'[q].estado = pcb[q].estado /\ pcb'[q].pc = pcb[q].pc
                             /\ pcb'[q].registers = pcb[q].registers

\* Steps that leave the CPU and the threads alone, and of a PCB change no more than its table.
LEMMA QuietoRefina ==
    ASSUME Ejecucion, UNCHANGED cvars, UNCHANGED <<tarea, archivo>>, MemoriaEnOrden',
           MismosPcb, contenido' = contenido, comun' = comun,
           segs' = segs \/ (mfase # "libre" /\ SinPendientes)
    PROVE  Sigue' /\ UNCHANGED Maquina!vars
  <1>1. /\ cfase' = cfase /\ contexto' = contexto /\ cpu_registers' = cpu_registers
        /\ instruccion' = instruccion /\ desalojo' = desalojo
    BY DEF cvars
  <1> USE DEF MismosPcb
  <1>2. EnMarcha'
    BY <1>1 DEF Ejecucion, EnMarcha, C!Fases
  <1>3. Desalojado'
    <2>1. CASE segs' = segs
      BY <1>1, <2>1, DespuesDesalojado DEF Ejecucion, Desalojado
    <2>2. ASSUME mfase # "libre", cfase = "desalojo"
          PROVE  Motivo(De(segs', contexto.pid), instruccion, desalojo.status)
      <3>1. desalojo.status = "SUCCESS" /\ desalojo.op = "CREATE_SEGMENT"
        BY <2>2 DEF Ejecucion, Copias, Turno
      <3>2. /\ instruccion.op = "CREATE_SEGMENT"
            /\ Motivo(De(segs, contexto.pid), instruccion, desalojo.status)
        BY <2>2, <3>1 DEF Ejecucion, Desalojado
      <3> QED
        BY <3>1, <3>2 DEF Motivo, Accesos
    <2>3. CASE mfase # "libre"
      BY <1>1, <2>2, <2>3, DespuesDesalojado DEF Ejecucion, Desalojado
    <2> QED
      BY <2>1, <2>3
  <1>4. Registrado'
    BY <1>1, DespuesRegistrado DEF Ejecucion, Registrado
  <1>5. Encargos'
    <2>1. CASE segs' = segs
      BY <2>1, DespuesEncargos DEF Ejecucion, Encargos
    <2>2. CASE mfase # "libre" /\ SinPendientes
      <3>1. \A q \in Pid : tarea'[q] = nada
        BY <2>2 DEF SinPendientes
      <3> QED
        BY <3>1, DespuesEncargos
    <2> QED
      BY <2>1, <2>2
  <1>6. ASSUME NEW q \in Pid
        PROVE  pc'[q] = pc[q] /\ orden'[q] = orden[q] /\ regs'[q] = regs[q]
    <2>1. EnCpu(q)' <=> EnCpu(q)
      BY <1>1 DEF EnCpu
    <2> QED
      BY <1>1, <2>1, VistaDe, VistaDePrima
  <1>7. pc' = pc /\ orden' = orden /\ regs' = regs
    BY <1>6, VistasForma
  <1>8. vivos' = vivos /\ rota' = rota
    BY <1>1 DEF vivos, rota
  <1> QED
    BY <1>2, <1>3, <1>4, <1>5, <1>7, <1>8 DEF Sigue, Maquina!vars

\* A stutter.
LEMMA NadaRefina ==
    ASSUME Ejecucion, UNCHANGED vars
    PROVE  Sigue' /\ UNCHANGED Maquina!vars
  <1>1. /\ UNCHANGED cvars /\ UNCHANGED <<tarea, archivo>> /\ pcb' = pcb
        /\ UNCHANGED <<segs, ocupado, mem>>
    BY DEF vars, mvars, kvars
  <1>2. MemoriaEnOrden'
    BY <1>1, OrdenQuieto DEF Ejecucion
  <1>3. contenido' = contenido /\ comun' = comun
    BY <1>1, MemoriaQuieta
  <1>5. segs' = segs
    BY <1>1
  <1>4. MismosPcb
    BY <1>1 DEF MismosPcb
  <1> QED
    BY <1>1, <1>2, <1>3, <1>4, <1>5, QuietoRefina

\* A compaction: when it begins, each turn of its loop, and when the tables arrive.
LEMMA CompactarRefina ==
    ASSUME Ejecucion, Compactar \/ Mover \/ FinCompactar
    PROVE  Sigue' /\ UNCHANGED Maquina!vars
  <1>1. CASE Compactar
    <2>1. /\ UNCHANGED cvars /\ UNCHANGED <<tarea, archivo>> /\ pcb' = pcb
          /\ UNCHANGED <<segs, ocupado, mem>>
      BY <1>1 DEF Compactar, M!EmpezarCompactacion, kvars
    <2>2. MemoriaEnOrden' /\ contenido' = contenido /\ comun' = comun
      BY <2>1, OrdenQuieto, MemoriaQuieta DEF Ejecucion
    <2>3. MismosPcb
      BY <2>1 DEF MismosPcb
    <2> QED
      BY <2>1, <2>2, <2>3, QuietoRefina
  <1>2. CASE Mover
    <2>1. /\ UNCHANGED cvars /\ UNCHANGED <<tarea, archivo>> /\ pcb' = pcb
          /\ M!compact_memory /\ mfase = "compactando"
      BY <1>2 DEF Mover, M!compact_memory, kvars
    <2>2. MemoriaEnOrden' /\ contenido' = contenido /\ comun' = comun
      BY <2>1, EfectoMover DEF Ejecucion
    <2>3. SinPendientes
      BY DEF Ejecucion, Direccionado
    <2>4. MismosPcb
      BY <2>1 DEF MismosPcb
    <2> QED
      BY <2>1, <2>2, <2>3, <2>4, QuietoRefina
  <1>3. CASE FinCompactar
    <2>1. /\ UNCHANGED cvars /\ UNCHANGED <<tarea, archivo>> /\ pcb' = actualizar_tablas
          /\ UNCHANGED <<segs, ocupado, mem>>
      BY <1>3 DEF FinCompactar, M!FinCompactacion
    <2>2. ASSUME NEW q \in Pid
          PROVE  /\ pcb'[q].estado = pcb[q].estado /\ pcb'[q].pc = pcb[q].pc
                 /\ pcb'[q].registers = pcb[q].registers
      <3>1. DOMAIN pcb[q] = Campos
        BY DEF Ejecucion, Copias, FormaPcb
      <3>2. pcb'[q] = IF Contains(tablas, q) THEN [pcb[q] EXCEPT !.tabla = Tabla(M!DeProceso(q))] ELSE pcb[q]
        BY <2>1 DEF actualizar_tablas
      <3> QED
        BY <3>1, <3>2 DEF Campos
    <2>3. MemoriaEnOrden' /\ contenido' = contenido /\ comun' = comun
      BY <2>1, OrdenQuieto, MemoriaQuieta DEF Ejecucion
    <2>4. MismosPcb
      BY <2>2 DEF MismosPcb
    <2> QED
      BY <2>1, <2>3, <2>4, QuietoRefina
  <1> QED
    BY <1>1, <1>2, <1>3

-----------------------------------------------------------------------------
(* Together                                                                *)

\* At the start, nothing is loaded anywhere.
LEMMA InitEjecucion == Init => Ejecucion /\ Maquina!Init
  <1> SUFFICES ASSUME Init PROVE Ejecucion /\ Maquina!Init
    OBVIOUS
  <1>1. /\ pcb = [p \in Pid |-> pcb_create] /\ tarea = [p \in Pid |-> nada] /\ archivo = <<>>
        /\ segs = {} /\ mfase = "libre" /\ cfase = "espera"
        /\ ocupado = M!Segmento0 /\ mem = [a \in M!Direcciones |-> 0]
        /\ cpu_registers = C!registros_en_cero
    BY DEF Init, M!Init, C!Init
  <1>2. Copias /\ Tareas /\ Direccionado
    BY <1>1, InitCopias DEF Direccionado, UnoEnCpu, ConContexto, SinPendientes, Traducida, Guardadas
  <1>3. pcb_create.estado = "NEW" /\ pcb_create.pc = 0 /\ pcb_create.registers = C!registros_en_cero
    BY DEF pcb_create
  <1>4. MemoriaEnOrden
    BY <1>1, TukiAssumption DEF MemoriaEnOrden, Ordenada
  <1>5. EnMarcha /\ Desalojado /\ Encargos
    BY <1>1 DEF EnMarcha, Desalojado, Encargos, C!Fases
  <1>6. Registrado
    BY <1>1, <1>3, EnCeros DEF Registrado
  <1>7. \A q \in Pid : ~EnCpu(q)
    BY <1>1 DEF EnCpu
  <1>8. vivos = {} /\ rota = FALSE
    BY <1>1, <1>3 DEF vivos, rota
  <1>9. \A q \in Pid : pc[q] = 0 /\ orden[q] = Maquina!ninguna /\ regs[q] = Maquina!Ceros
    BY <1>1, <1>3, <1>7, EnCeros, VistaDe DEF nada, Maquina!ninguna
  <1>10. /\ pc = [q \in Pid |-> 0] /\ orden = [q \in Pid |-> Maquina!ninguna]
         /\ regs = [q \in Pid |-> Maquina!Ceros]
    BY <1>9, VistasForma
  <1>11. contenido = [k \in {} |-> <<>>]
    BY <1>1 DEF contenido
  <1>12. comun = [i \in 1..TamSegmento0 |-> 0]
    <2>1. ASSUME NEW i \in 1..TamSegmento0 PROVE mem[0 + i - 1] = 0
      <3>1. 0 + i - 1 \in M!Direcciones
        BY TukiAssumption DEF M!Direcciones
      <3> QED
        BY <1>1, <3>1
    <2>2. segment_0.size = TamSegmento0 /\ segment_0.base = 0
      BY DEF segment_0
    <2>3. comun = [i \in 1..TamSegmento0 |-> mem[0 + i - 1]]
      BY <2>2 DEF comun, Celdas
    <2> QED
      BY <2>1, <2>3
  <1> QED
    BY <1>1, <1>2, <1>4, <1>5, <1>6, <1>8, <1>10, <1>11, <1>12 DEF Ejecucion, Maquina!Init

\* The steps of the CPU.
LEMMA CpuRefina ==
    ASSUME Ejecucion, ProgramasTipados, Fetch \/ Ciclo \/ Leer \/ Escribir
    PROVE  Sigue' /\ [Maquina!Next]_(Maquina!vars)
  <1>1. CASE Fetch
    BY <1>1, FetchRefina DEF Maquina!Next
  <1>2. CASE Ciclo
    <2>1. UNCHANGED <<mvars, kvars>>
      BY <1>2 DEF Ciclo
    <2>2. CASE C!SET
      BY <2>1, <2>2, SetRefina DEF Maquina!Next
    <2>3. CASE C!Entregar \/ C!DesalojarPorFalla
      BY <2>1, <2>3, EntregarRefina
    <2>4. CASE C!Caer
      BY <2>1, <2>4, CaerRefina DEF Maquina!Next
    <2> QED
      BY <1>2, <2>2, <2>3, <2>4 DEF Ciclo
  <1>3. CASE Leer
    BY <1>3, LeerRefina DEF Maquina!Next
  <1>4. CASE Escribir
    BY <1>4, EscribirRefina DEF Maquina!Next
  <1> QED
    BY <1>1, <1>2, <1>3, <1>4

\* The steps of the kernel for p.
LEMMA KernelRefina ==
    ASSUME Ejecucion, ProgramasTipados, IdsPropios, NEW p \in Pid,
           \/ Admitir(p) \/ Despachar(p) \/ SinCpu(p)
           \/ execute_yield(p) \/ execute_exit(p) \/ execute_file(p)
           \/ execute_create_segment(p) \/ SinMemoria(p) \/ execute_delete_segment(p)
           \/ TomarFS(p) \/ TerminarFS(p)
    PROVE  Sigue' /\ [Maquina!Next]_(Maquina!vars)
  <1>1. CASE Admitir(p)
    BY <1>1, AdmitirRefina DEF Maquina!Next
  <1>2. CASE Despachar(p)
    BY <1>2, DespacharRefina
  <1>3. CASE SinCpu(p)
    BY <1>3, SinCpuRefina DEF Maquina!Next
  <1>4. CASE execute_yield(p)
    BY <1>4, YieldRefina DEF Maquina!Next
  <1>5. CASE execute_exit(p)
    BY <1>5, SalirRefina DEF Maquina!Next
  <1>6. CASE execute_file(p)
    BY <1>6, ArchivoRefina
  <1>7. CASE execute_create_segment(p) /\ respuesta' = "SEGMENTO"
    BY <1>7, CrearSegmentoRefina DEF Maquina!Next
  <1>8. CASE execute_create_segment(p) /\ respuesta' # "SEGMENTO"
    BY <1>8, CrearNadaRefina DEF Maquina!Next
  <1>9. CASE SinMemoria(p)
    BY <1>9, SinMemoriaRefina DEF Maquina!Next
  <1>10. CASE execute_delete_segment(p)
    BY <1>10, BorrarRefina DEF Maquina!Next
  <1>11. CASE TomarFS(p)
    BY <1>11, TomarRefina
  <1>12. CASE TerminarFS(p)
    BY <1>12, TerminarFSRefina DEF Maquina!Next
  <1> QED
    BY <1>1, <1>2, <1>3, <1>4, <1>5, <1>6, <1>7, <1>8, <1>9, <1>10, <1>11, <1>12

\* Every step keeps the invariant and is one of the abstract machine, or none.
LEMMA NextRefina ==
    ASSUME Ejecucion, ProgramasTipados, IdsPropios, EsperaArchivos, [Next]_vars
    PROVE  Ejecucion' /\ [Maquina!Next]_(Maquina!vars)
  <1>1. Sigue' /\ [Maquina!Next]_(Maquina!vars)
    <2>1. CASE UNCHANGED vars
      BY <2>1, NadaRefina
    <2>2. CASE Fetch \/ Ciclo \/ Leer \/ Escribir
      BY <2>2, CpuRefina
    <2>3. CASE Compactar \/ Mover \/ FinCompactar
      BY <2>3, CompactarRefina
    <2>4. ASSUME NEW p \in Pid,
                 \/ Admitir(p) \/ Despachar(p) \/ SinCpu(p)
                 \/ execute_yield(p) \/ execute_exit(p) \/ execute_file(p)
                 \/ execute_create_segment(p) \/ SinMemoria(p) \/ execute_delete_segment(p)
                 \/ TomarFS(p) \/ TerminarFS(p)
          PROVE  Sigue' /\ [Maquina!Next]_(Maquina!vars)
      BY <2>4, KernelRefina
    <2> QED
      BY <2>1, <2>2, <2>3, <2>4 DEF Next
  <1>2. Copias' /\ Tareas'
    BY NextCopias, NextTareas DEF Ejecucion
  <1>3. Direccionado'
    BY QuienEjecuta, NadiePendiente, NextTraducida, NextGuardadas DEF Ejecucion, Direccionado
  <1> QED
    BY <1>1, <1>2, <1>3 DEF Ejecucion, Sigue

\* Tuki implements MaquinaAbs: if no compaction begins while a file operation is
\* pending and ids of segments are not shared, contexts, tables, translation,
\* compactions and the other processes change nothing that a program can see.
THEOREM TukiImplementaMaquina ==
    ASSUME EsperaArchivos, IdsPropios, ProgramasTipados
    PROVE  Spec => ImplementaMaquina
  <1>1. Init => Ejecucion /\ Maquina!Init
    BY InitEjecucion
  <1>2. Ejecucion /\ [Next]_vars => Ejecucion' /\ [Maquina!Next]_(Maquina!vars)
    BY NextRefina
  <1> QED
    BY <1>1, <1>2, PTL DEF Spec, ImplementaMaquina, Maquina!Spec
=============================================================================
