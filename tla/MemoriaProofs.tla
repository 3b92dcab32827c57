--------------------------- MODULE MemoriaProofs ----------------------------
(***************************************************************************)
(* Proofs about Memoria for every memory size, set of processes, ids and   *)
(* sizes: while live segments have different ids, the bitmap is exactly    *)
(* what the tables say and no two segments overlap, through creation,      *)
(* deletion, process end and every turn of the compaction, under all three *)
(* placement algorithms; a compaction leaves room for the request it was   *)
(* made for; and memoria implements MemoriaAbs.                            *)
(***************************************************************************)
EXTENDS Memoria, Listas, FiniteSetTheorems, TLAPS

\* Ids tell live segments apart: what DELETE_SEGMENT needs, because it searches
\* the tables of all processes for the id.
IdsUnicos == \A s, t \in segs : s.id = t.id => s = t

\* The inductive invariant.
IInv == TypeOK /\ BitmapExacto /\ SegmentosDisjuntos /\ IdsUnicos

\* A hole an algorithm may choose: all its cells are free and inside the memory.
LEMMA HuecoLibre ==
    ASSUME NEW occ, NEW size, NEW b \in get_base_adress(occ, size)
    PROVE  /\ b \in Direcciones
           /\ \A a \in b..(b + size - 1) : a \in Direcciones /\ a \notin occ
  BY DEF get_base_adress, Huecos, Cabe

\* The bitmap, cell by cell.
LEMMA CeldaACelda ==
    BitmapExacto <=> \A a : a \in ocupado <=>
                        (a \in Segmento0 \/ \E s \in segs : a \in Rango(s))
  BY DEF BitmapExacto

\* The same after a step.
LEMMA CeldaACeldaPrima ==
    BitmapExacto' <=> \A a : a \in ocupado' <=>
                        (a \in Segmento0 \/ \E s \in segs' : a \in Rango(s))
  BY DEF BitmapExacto, Segmento0, Rango

\* The start: segment 0 alone is in the bitmap.
LEMMA InitIInv == Init => IInv
  <1> SUFFICES ASSUME Init PROVE IInv
    OBVIOUS
  <1>1. TypeOK
    BY MemoriaAssumption DEF Init, TypeOK, Direcciones, Segmento0, Respuestas
  <1>2. BitmapExacto
    BY CeldaACelda DEF Init
  <1>3. SegmentosDisjuntos /\ IdsUnicos
    BY DEF Init, SegmentosDisjuntos, IdsUnicos
  <1> QED
    BY <1>1, <1>2, <1>3 DEF IInv

\* Lifting segments out of the tables and their cells out of the bitmap keeps the
\* bitmap exact: R is what is taken away (one segment, or a process's).
LEMMA Levantar ==
    ASSUME NEW R, R \subseteq segs, BitmapExacto, SegmentosDisjuntos
    PROVE  \A a : a \in ocupado \ UNION {Rango(s) : s \in R} <=>
                    (a \in Segmento0 \/ \E s \in segs \ R : a \in Rango(s))
  <1> SUFFICES ASSUME NEW a
               PROVE  a \in ocupado \ UNION {Rango(s) : s \in R} <=>
                        (a \in Segmento0 \/ \E s \in segs \ R : a \in Rango(s))
    OBVIOUS
  <1>1. a \in UNION {Rango(s) : s \in R} <=> \E s \in R : a \in Rango(s)
    OBVIOUS
  <1>2. a \in ocupado <=> (a \in Segmento0 \/ \E s \in segs : a \in Rango(s))
    BY CeldaACelda
  <1>3. ASSUME NEW s \in R, a \in Rango(s)
        PROVE  a \notin Segmento0 /\ \A u \in segs \ R : a \notin Rango(u)
    BY <1>3 DEF SegmentosDisjuntos
  <1> QED
    BY <1>1, <1>2, <1>3

\* The same for one segment.
LEMMA LevantarUno ==
    ASSUME NEW s \in segs, BitmapExacto, SegmentosDisjuntos
    PROVE  \A a : a \in ocupado \ Rango(s) <=>
                    (a \in Segmento0 \/ \E u \in segs \ {s} : a \in Rango(u))
  <1> SUFFICES ASSUME NEW a
               PROVE  a \in ocupado \ Rango(s) <=>
                        (a \in Segmento0 \/ \E u \in segs \ {s} : a \in Rango(u))
    OBVIOUS
  <1>1. a \in ocupado <=> (a \in Segmento0 \/ \E u \in segs : a \in Rango(u))
    BY CeldaACelda
  <1>2. a \in Rango(s) => a \notin Segmento0 /\ \A u \in segs \ {s} : a \notin Rango(u)
    BY DEF SegmentosDisjuntos
  <1> QED
    BY <1>1, <1>2

\* PROCESS_NEW touches no segment.
LEMMA PasoTablaNueva ==
    ASSUME IInv, NEW p \in Pid, create_segments_table(p)
    PROVE  IInv'
  <1> USE DEF IInv
  <1>1. TypeOK'
    BY DEF create_segments_table, TypeOK, Respuestas
  <1>2. BitmapExacto'
    BY CeldaACelda, CeldaACeldaPrima DEF create_segments_table
  <1>3. SegmentosDisjuntos' /\ IdsUnicos'
    BY DEF create_segments_table, SegmentosDisjuntos, IdsUnicos, Rango
  <1> QED
    BY <1>1, <1>2, <1>3

\* PROCESS_END lifts the segments of one process.
LEMMA PasoTablaBorrada ==
    ASSUME IInv, NEW p \in Pid, delete_segments_table(p)
    PROVE  IInv'
  <1> USE DEF IInv
  <1>0. DeProceso(p) \subseteq segs
    BY DEF DeProceso
  <1>1. TypeOK'
    <2>1. RemoveFirst(tablas, p) \in Seq(Pid)
      BY QuitarTipo DEF TypeOK
    <2> QED
      BY <2>1 DEF delete_segments_table, TypeOK
  <1>2. BitmapExacto'
    <2>1. segs' = segs \ DeProceso(p)
          /\ ocupado' = ocupado \ UNION {Rango(s) : s \in DeProceso(p)}
      BY DEF delete_segments_table
    <2> QED
      BY <1>0, <2>1, Levantar, CeldaACeldaPrima
  <1>3. SegmentosDisjuntos' /\ IdsUnicos'
    <2>1. segs' \subseteq segs
      BY DEF delete_segments_table
    <2> QED
      BY <2>1 DEF SegmentosDisjuntos, IdsUnicos, Rango
  <1> QED
    BY <1>1, <1>2, <1>3

\* CREATE_SEGMENT, from the kernel's first request or from the repeated one.
LEMMA PasoCrear ==
    ASSUME IInv, IdsPropios, NEW q \in Pedido, create_segment(q)
    PROVE  IInv'
  <1> USE DEF IInv
  <1>1. CASE segs' = segs /\ ocupado' = ocupado
    <2>1. TypeOK'
      <3>1. pedido' \subseteq Pedido /\ respuesta' \in Respuestas
            /\ fase' \in {"libre", "compactar", "compactando", "reintento"}
        BY DEF create_segment, Asignar, TypeOK, Respuestas
      <3> QED
        BY <1>1, <3>1 DEF create_segment, TypeOK
    <2>2. BitmapExacto'
      BY <1>1, CeldaACelda, CeldaACeldaPrima
    <2>3. SegmentosDisjuntos' /\ IdsUnicos'
      BY <1>1 DEF SegmentosDisjuntos, IdsUnicos, Rango
    <2> QED
      BY <2>1, <2>2, <2>3
  <1>2. ASSUME NEW b \in get_base_adress(ocupado, q.size), NEW t,
               t = [pid |-> q.pid, id |-> q.id, base |-> b, size |-> q.size],
               segs' = segs \cup {t}, ocupado' = ocupado \cup Rango(t),
               fase' = "libre", pedido' = {}, respuesta' = "SEGMENTO",
               UNCHANGED <<algoritmo, tablas, mem>>, \A s \in segs : s.id # q.id
        PROVE  IInv'
    <2>1. t \in Segmento /\ t.base = b /\ t.size = q.size /\ t.id = q.id
      BY <1>2, HuecoLibre DEF Pedido, Segmento, Direcciones
    <2>2. \A a \in Rango(t) : a \in Direcciones
      BY <2>1, HuecoLibre DEF Rango
    <2>3. TypeOK'
      BY <1>2, <2>1, <2>2 DEF TypeOK, Respuestas
    <2>4. /\ \A a : a \in ocupado' <=> (a \in Segmento0 \/ \E s \in segs' : a \in Rango(s))
          /\ \A s, u \in segs' : s # u => Rango(s) \cap Rango(u) = {}
          /\ \A s \in segs' : Rango(s) \subseteq Direcciones \ Segmento0
      <3>1. \A s \in segs : s \in Segmento
        BY DEF TypeOK
      <3>2. /\ \A s, u \in segs : s # u => Rango(s) \cap Rango(u) = {}
            /\ \A s \in segs : Rango(s) \subseteq Direcciones \ Segmento0
        BY DEF SegmentosDisjuntos
      <3>3. \A a : a \in ocupado <=> (a \in Segmento0 \/ \E s \in segs : a \in Rango(s))
        BY CeldaACelda
      <3>4. t \in Segmento /\ t.base \in get_base_adress(ocupado, t.size)
        BY <2>1
      <3>5. /\ \A a : a \in ocupado \cup Rango(t) <=>
                        (a \in Segmento0 \/ \E s \in segs \cup {t} : a \in Rango(s))
            /\ \A s, u \in segs \cup {t} : s # u => Rango(s) \cap Rango(u) = {}
            /\ \A s \in segs \cup {t} : Rango(s) \subseteq Direcciones \ Segmento0
        <4>1. \A a \in Rango(t) : a \in Direcciones /\ a \notin ocupado
          BY <3>4, HuecoLibre DEF Rango
        <4>2. /\ \A s \in segs : Rango(s) \cap Rango(t) = {}
              /\ Rango(t) \subseteq Direcciones \ Segmento0
          BY <3>3, <4>1
        <4> QED
          BY <3>2, <3>3, <4>2
      <3> QED
        BY <1>2, <3>5
    <2>5. BitmapExacto' /\ SegmentosDisjuntos'
      BY <2>4, CeldaACeldaPrima DEF SegmentosDisjuntos, Rango, Direcciones, Segmento0
    <2>6. IdsUnicos'
      BY <1>2, <2>1 DEF IdsUnicos
    <2> QED
      BY <2>3, <2>5, <2>6
  <1> QED
    BY <1>1, <1>2 DEF create_segment, Asignar

\* DELETE_SEGMENT finds the segment of the process that asks, because no other
\* live segment has its id.
LEMMA PasoBorrar ==
    ASSUME IInv, NEW p \in Pid, NEW id \in Ids, delete_segment(p, id)
    PROVE  IInv'
  <1> USE DEF IInv
  <1>1. PICK s \in segs : /\ s.id = id
                          /\ segs' = IF s.pid = p THEN segs \ {s} ELSE segs
                          /\ ocupado' = ocupado \ Rango(s)
    BY DEF delete_segment, get_segment_by_id
  <1>2. s.pid = p
    BY <1>1 DEF delete_segment, DeProceso, IdsUnicos
  <1>3. TypeOK'
    BY <1>1, <1>2 DEF delete_segment, TypeOK, Respuestas
  <1>4. BitmapExacto'
    BY <1>1, <1>2, LevantarUno, CeldaACeldaPrima
  <1>5. SegmentosDisjuntos' /\ IdsUnicos'
    BY <1>1, <1>2 DEF SegmentosDisjuntos, IdsUnicos, Rango
  <1> QED
    BY <1>3, <1>4, <1>5

\* One turn of the compaction: a segment is lifted and placed again.
LEMMA PasoCompactar ==
    ASSUME IInv, compact_memory
    PROVE  IInv'
  <1> USE DEF IInv
  <1>1. PICK s \in segs : \E b \in get_base_adress(ocupado \ Rango(s), s.size) :
              LET t == [s EXCEPT !.base = b] IN
              /\ segs' = (segs \ {s}) \cup {t}
              /\ ocupado' = (ocupado \ Rango(s)) \cup Rango(t)
              /\ mem' = move_data(b, s.base, s.size)
    BY DEF compact_memory
  <1>2. PICK b \in get_base_adress(ocupado \ Rango(s), s.size) :
              LET t == [s EXCEPT !.base = b] IN
              /\ segs' = (segs \ {s}) \cup {t}
              /\ ocupado' = (ocupado \ Rango(s)) \cup Rango(t)
              /\ mem' = move_data(b, s.base, s.size)
    BY <1>1
  <1> DEFINE t == [s EXCEPT !.base = b]
  <1>3. s \in Segmento /\ t \in Segmento /\ t.base = b /\ t.size = s.size /\ t.id = s.id
    BY HuecoLibre DEF TypeOK, Segmento, Direcciones
  <1>4. segs' = (segs \ {s}) \cup {t} /\ ocupado' = (ocupado \ Rango(s)) \cup Rango(t)
    BY <1>2
  <1>5. \A a \in Rango(t) : a \in Direcciones
    BY <1>3, HuecoLibre DEF Rango
  <1>6. mem' \in [Direcciones -> Valores]
    <2>1. \A a \in b..(b + s.size - 1) : s.base + (a - b) \in Direcciones
      <3>1. Rango(s) \subseteq Direcciones
        BY DEF SegmentosDisjuntos
      <3>2. b \in Int /\ s.base \in Int /\ s.size \in Int
        BY <1>3, HuecoLibre, MemoriaAssumption DEF Segmento, Direcciones
      <3> QED
        BY <3>1, <3>2 DEF Rango
    <2> QED
      BY <1>2, <2>1 DEF move_data, TypeOK
  <1> HIDE DEF t
  <1>7. TypeOK'
    BY <1>3, <1>4, <1>5, <1>6 DEF compact_memory, TypeOK
  <1>8. /\ \A a : a \in ocupado' <=> (a \in Segmento0 \/ \E u \in segs' : a \in Rango(u))
        /\ \A u, v \in segs' : u # v => Rango(u) \cap Rango(v) = {}
        /\ \A u \in segs' : Rango(u) \subseteq Direcciones \ Segmento0
    <2>1. \A a : a \in ocupado \ Rango(s) <=>
                   (a \in Segmento0 \/ \E u \in segs \ {s} : a \in Rango(u))
      BY LevantarUno
    <2>2. /\ \A u \in segs \ {s} : u \in Segmento
          /\ \A u, v \in segs \ {s} : u # v => Rango(u) \cap Rango(v) = {}
          /\ \A u \in segs \ {s} : Rango(u) \subseteq Direcciones \ Segmento0
      BY DEF SegmentosDisjuntos, TypeOK
    <2>3. t.base \in get_base_adress(ocupado \ Rango(s), t.size)
      BY <1>3
    <2>4. /\ \A a : a \in (ocupado \ Rango(s)) \cup Rango(t) <=>
                      (a \in Segmento0 \/ \E u \in (segs \ {s}) \cup {t} : a \in Rango(u))
          /\ \A u, v \in (segs \ {s}) \cup {t} : u # v => Rango(u) \cap Rango(v) = {}
          /\ \A u \in (segs \ {s}) \cup {t} : Rango(u) \subseteq Direcciones \ Segmento0
      <3>1. \A a \in Rango(t) : a \in Direcciones /\ a \notin ocupado \ Rango(s)
        BY <1>3, <2>3, HuecoLibre DEF Rango
      <3>2. /\ \A u \in segs \ {s} : Rango(u) \cap Rango(t) = {}
            /\ Rango(t) \subseteq Direcciones \ Segmento0
        BY <2>1, <3>1
      <3> QED
        BY <2>1, <2>2, <3>2
    <2> QED
      BY <1>4, <2>4
  <1>9. BitmapExacto' /\ SegmentosDisjuntos'
    BY <1>8, CeldaACeldaPrima DEF SegmentosDisjuntos, Rango, Direcciones, Segmento0
  <1>10. IdsUnicos'
    BY <1>3, <1>4 DEF IdsUnicos
  <1> QED
    BY <1>7, <1>9, <1>10

\* A write leaves a memory of values, whatever its length and wherever it starts.
LEMMA PasoEscribir ==
    ASSUME TypeOK, NEW s \in segs, EscribirEn(s)
    PROVE  TypeOK'
  <1>1. PICK a \in Rango(s) : \E datos \in Bloques(s.base + s.size - a) : write_memory(a, datos)
    BY DEF EscribirEn
  <1>2. PICK datos \in Bloques(s.base + s.size - a) : write_memory(a, datos)
    BY <1>1
  <1>3. s.base \in Nat /\ s.size \in Nat /\ a \in Int
    <2>1. s \in Segmento
      BY DEF TypeOK
    <2>2. s.base \in Nat /\ s.size \in Nat
      BY <2>1, MemoriaAssumption DEF Segmento, MemoriaAssumption
    <2> QED
      BY <2>2 DEF Rango
  <1>4. PICK k \in 1..(s.base + s.size - a) : datos \in [1..k -> Valores]
    BY <1>2 DEF Bloques
  <1>5. k \in Nat /\ datos \in Seq(Valores) /\ Len(datos) = k
    BY <1>3, <1>4
  <1>6. \A x \in a..(a + Len(datos) - 1) : datos[x - a + 1] \in Valores
    BY <1>3, <1>4, <1>5
  <1>7. mem' \in [Direcciones -> Valores]
    BY <1>2, <1>6 DEF write_memory, TypeOK
  <1> QED
    BY <1>2, <1>7 DEF write_memory, TypeOK

\* The steps that touch neither tables nor bitmap.
LEMMA PasoQuieto ==
    ASSUME IInv,
           \/ EmpezarCompactacion \/ FinCompactacion \/ UNCHANGED vars
           \/ \E s \in segs : EscribirEn(s)
    PROVE  IInv'
  <1> USE DEF IInv
  <1>1. segs' = segs /\ ocupado' = ocupado
    BY DEF EmpezarCompactacion, FinCompactacion, vars, EscribirEn, write_memory
  <1>2. TypeOK'
    <2>1. CASE EmpezarCompactacion \/ FinCompactacion \/ UNCHANGED vars
      BY <2>1 DEF EmpezarCompactacion, FinCompactacion, vars, TypeOK, Respuestas
    <2>2. CASE \E s \in segs : EscribirEn(s)
      BY <2>2, PasoEscribir
    <2> QED
      BY <2>1, <2>2
  <1>3. BitmapExacto'
    BY <1>1, CeldaACelda, CeldaACeldaPrima
  <1>4. SegmentosDisjuntos' /\ IdsUnicos'
    BY <1>1 DEF SegmentosDisjuntos, IdsUnicos, Rango
  <1> QED
    BY <1>2, <1>3, <1>4

\* Every step keeps the inductive invariant.
LEMMA NextIInv == IdsPropios /\ IInv /\ [Next]_vars => IInv'
  <1> SUFFICES ASSUME IdsPropios, IInv, [Next]_vars PROVE IInv'
    OBVIOUS
  <1>1. CASE \E p \in Pid : create_segments_table(p) \/ delete_segments_table(p)
    BY <1>1, PasoTablaNueva, PasoTablaBorrada
  <1>2. CASE \E q \in Pedido : create_segment(q)
    BY <1>2, PasoCrear
  <1>3. CASE \E p \in Pid, id \in Ids : delete_segment(p, id)
    BY <1>3, PasoBorrar
  <1>4. CASE compact_memory
    BY <1>4, PasoCompactar
  <1>5. CASE \/ EmpezarCompactacion \/ FinCompactacion \/ UNCHANGED vars
             \/ \E s \in segs : EscribirEn(s)
    BY <1>5, PasoQuieto
  <1> QED
    BY <1>1, <1>2, <1>3, <1>4, <1>5 DEF Next

\* With ids that tell the live segments apart, the invariant holds for ever.
LEMMA SiempreIInv ==
    ASSUME IdsPropios
    PROVE  Spec => []IInv
  <1>1. Init => IInv
    BY InitIInv
  <1>2. IInv /\ [Next]_vars => IInv'
    BY NextIInv
  <1> QED
    BY <1>1, <1>2, PTL DEF Spec

\* The tables, the bitmap and the memory keep their types: no segment that an algorithm
\* or a compaction places leaves the memory.
THEOREM MemoriaTipos ==
    ASSUME IdsPropios
    PROVE  Spec => []TypeOK
  <1>1. IInv => TypeOK
    BY DEF IInv
  <1> QED
    BY <1>1, SiempreIInv, PTL

\* The bitmap is exactly what the tables say, also in the middle of a compaction.
THEOREM MemoriaBitmapExacto ==
    ASSUME IdsPropios
    PROVE  Spec => []BitmapExacto
  <1>1. IInv => BitmapExacto
    BY DEF IInv
  <1> QED
    BY <1>1, SiempreIInv, PTL

\* No two segments share a cell, also in the middle of a compaction.
THEOREM MemoriaSegmentosDisjuntos ==
    ASSUME IdsPropios
    PROVE  Spec => []SegmentosDisjuntos
  <1>1. IInv => SegmentosDisjuntos
    BY DEF IInv
  <1> QED
    BY <1>1, SiempreIInv, PTL



-----------------------------------------------------------------------------
(* The space for the repeated request                                      *)

\* What the kernel is owed from COMPACTATION_REQUIRED to its second request: the free
\* cells are enough and, once the compaction is over, the last ones of the memory are free.
LugarPara(q) ==
    /\ q.size <= Cardinality(Direcciones \ ocupado)
    /\ fase = "reintento" => \A a \in ocupado : a < TamMemoria - q.size

Espacio == \A q \in pedido : LugarPara(q)

\* The memory is a finite interval.
LEMMA MemoriaFinita ==
    /\ TamMemoria \in Nat /\ TamMemoria > 0
    /\ IsFiniteSet(Direcciones)
    /\ 0 \in Direcciones /\ 0 \in Segmento0
  <1>1. TamMemoria \in Nat /\ TamMemoria > 0 /\ TamSegmento0 \in Nat /\ TamSegmento0 > 0
    BY MemoriaAssumption
  <1>2. IsFiniteSet(Direcciones)
    BY <1>1, FS_Interval DEF Direcciones
  <1> QED
    BY <1>1, <1>2 DEF Direcciones, Segmento0

\* A program asks for some cells.
LEMMA TamanioPositivo ==
    ASSUME NEW n \in Sizes
    PROVE  n \in Nat /\ n \in Int /\ n > 0
  <1>1. Sizes \subseteq Nat \ {0}
    BY MemoriaAssumption
  <1> QED
    BY <1>1

\* A set of cells that is not empty has a last one.
LEMMA MaximoExiste ==
    ASSUME NEW T, T \subseteq Direcciones, T # {}
    PROVE  \E x \in T : \A y \in T : y <= x
  <1> DEFINE U == {TamMemoria - a : a \in T}
  <1>1. U \subseteq Nat /\ U # {}
    <2>1. \A a \in T : a \in Int /\ 0 <= a /\ a < TamMemoria /\ TamMemoria - a \in Nat
      BY MemoriaFinita DEF Direcciones
    <2> QED
      BY <2>1
  <1>2. PICK u \in U : \A v \in U : u <= v
    BY <1>1, MinimoExiste
  <1>3. PICK x \in T : u = TamMemoria - x
    BY <1>2
  <1>4. \A y \in T : TamMemoria - x <= TamMemoria - y
    BY <1>2, <1>3
  <1> QED
    BY <1>3, <1>4, MemoriaFinita DEF Direcciones

\* Min and Max of cells are what their names say.
LEMMA PrimeraYUltima ==
    ASSUME NEW T, T \subseteq Direcciones, T # {}
    PROVE  /\ Min(T) \in T /\ \A y \in T : Min(T) <= y
           /\ Max(T) \in T /\ \A y \in T : y <= Max(T)
  <1>1. T \subseteq Nat
    BY DEF Direcciones
  <1>2. \E x \in T : \A y \in T : x <= y
    BY <1>1, MinimoExiste
  <1>3. Min(T) \in T /\ \A y \in T : Min(T) <= y
    BY <1>2 DEF Min
  <1>4. \E x \in T : \A y \in T : x >= y
    BY <1>1, MaximoExiste
  <1>5. Max(T) \in T /\ \A y \in T : Max(T) >= y
    BY <1>4 DEF Max
  <1> QED
    BY <1>1, <1>3, <1>5

\* Free cells at the end of the memory are a hole the algorithms look at, whatever has
\* been freed before them.
LEMMA HuecoAlFinal ==
    ASSUME IInv, NEW n \in Nat, n > 0, \A a \in ocupado : a < TamMemoria - n
    PROVE  Huecos(ocupado, n) # {}
  <1>1. ocupado \subseteq Direcciones /\ 0 \in ocupado
    BY MemoriaFinita, CeldaACelda DEF IInv, TypeOK
  <1>2. PICK m \in ocupado : \A a \in ocupado : a <= m
    BY <1>1, MaximoExiste
  <1>3. m \in Nat /\ m < TamMemoria - n
    BY <1>1 DEF Direcciones
  <1>4. m + 1 \in Direcciones /\ (m + 1) - 1 \in ocupado
    BY <1>2, <1>3, MemoriaFinita DEF Direcciones
  <1>5. Cabe(ocupado, m + 1, n)
    BY <1>2, <1>3, MemoriaFinita DEF Cabe, Direcciones
  <1> QED
    BY <1>4, <1>5 DEF Huecos

\* A step that gives cells back and asks for nothing.
LEMMA EspacioCrece ==
    ASSUME IInv, Espacio, ocupado' \subseteq ocupado, pedido' \subseteq pedido, fase' = fase
    PROVE  Espacio'
  <1> SUFFICES ASSUME NEW q \in pedido' PROVE LugarPara(q)'
    BY DEF Espacio
  <1>1. LugarPara(q) /\ q \in Pedido
    BY DEF Espacio, IInv, TypeOK
  <1>2. Direcciones \ ocupado \subseteq Direcciones \ ocupado'
    OBVIOUS
  <1>3. IsFiniteSet(Direcciones \ ocupado) /\ IsFiniteSet(Direcciones \ ocupado')
    BY MemoriaFinita, FS_Difference
  <1>4. Cardinality(Direcciones \ ocupado) <= Cardinality(Direcciones \ ocupado')
    BY <1>2, <1>3, FS_Subset
  <1>5. Cardinality(Direcciones \ ocupado) \in Nat /\ Cardinality(Direcciones \ ocupado') \in Nat
    BY <1>3, FS_CardinalityType
  <1>6. q.size \in Int
    BY <1>1, TamanioPositivo DEF Pedido
  <1>7. q.size <= Cardinality(Direcciones \ ocupado')
    BY <1>1, <1>4, <1>5, <1>6 DEF LugarPara
  <1>8. fase' = "reintento" => \A a \in ocupado' : a < TamMemoria - q.size
    BY <1>1 DEF LugarPara
  <1> QED
    BY <1>7, <1>8 DEF LugarPara, Direcciones

\* CREATE_SEGMENT asks for a compaction only when the free cells are enough.
LEMMA EspacioCrear ==
    ASSUME IInv, Espacio, NEW q \in Pedido, create_segment(q)
    PROVE  Espacio'
  <1>1. \/ pedido' = {}
        \/ /\ pedido' = {q} /\ fase' = "compactar" /\ ocupado' = ocupado
           /\ is_malloc_possible(q.size)
    BY DEF create_segment, Asignar
  <1>2. q.size \in Int
    BY TamanioPositivo DEF Pedido
  <1>3. IsFiniteSet(Direcciones \ ocupado)
    BY MemoriaFinita, FS_Difference
  <1>4. Cardinality(Direcciones \ ocupado) \in Nat
    BY <1>3, FS_CardinalityType
  <1> QED
    BY <1>1, <1>2, <1>4 DEF Espacio, LugarPara, is_malloc_possible, Direcciones

\* Taking as many free cells as are given back leaves the same number of them.
LEMMA MismaCantidad ==
    ASSUME NEW L, NEW D, NEW T, IsFiniteSet(L), IsFiniteSet(D), IsFiniteSet(T),
           L \cap D = {}, T \subseteq L \cup D, Cardinality(T) = Cardinality(D)
    PROVE  Cardinality((L \cup D) \ T) = Cardinality(L)
  <1>1. IsFiniteSet(L \cup D) /\ Cardinality(L \cup D) = Cardinality(L) + Cardinality(D) - Cardinality(L \cap D)
    BY FS_Union
  <1>2. Cardinality(L \cap D) = 0
    BY FS_EmptySet
  <1>3. Cardinality((L \cup D) \ T) = Cardinality(L \cup D) - Cardinality((L \cup D) \cap T)
    BY <1>1, FS_Difference
  <1>4. (L \cup D) \cap T = T
    OBVIOUS
  <1>5. Cardinality(L) \in Nat /\ Cardinality(D) \in Nat
    BY FS_CardinalityType
  <1>6. Cardinality(L \cup D) = Cardinality(L) + Cardinality(D)
    BY <1>1, <1>2, <1>5
  <1>7. Cardinality((L \cup D) \cap T) = Cardinality(D)
    BY <1>4
  <1>8. Cardinality((L \cup D) \ T) = Cardinality(L) + Cardinality(D) - Cardinality(D)
    BY <1>3, <1>5, <1>6, <1>7
  <1> QED
    BY <1>5, <1>8

\* A turn of the compaction keeps the number of free cells.
LEMMA EspacioCompactar ==
    ASSUME IInv, Espacio, compact_memory
    PROVE  Espacio'
  <1>1. PICK s \in segs : \E b \in get_base_adress(ocupado \ Rango(s), s.size) :
              ocupado' = (ocupado \ Rango(s)) \cup Rango([s EXCEPT !.base = b])
    BY DEF compact_memory
  <1>2. PICK b \in get_base_adress(ocupado \ Rango(s), s.size) :
              ocupado' = (ocupado \ Rango(s)) \cup Rango([s EXCEPT !.base = b])
    BY <1>1
  <1>3. s \in Segmento /\ s.base \in Int /\ s.size \in Nat /\ s.size > 0 /\ b \in Int
    BY HuecoLibre, TamanioPositivo DEF IInv, TypeOK, Segmento, Direcciones
  <1> DEFINE T == b..(b + s.size - 1)
             L == Direcciones \ ocupado
  <1>4. Rango([s EXCEPT !.base = b]) = T
    BY <1>3 DEF Rango, Segmento
  <1>5. Rango(s) \subseteq ocupado /\ Rango(s) \subseteq Direcciones
    BY CeldaACelda DEF IInv, SegmentosDisjuntos
  <1>6. \A a \in T : a \in Direcciones /\ a \notin ocupado \ Rango(s)
    BY HuecoLibre
  <1>7. /\ IsFiniteSet(T) /\ Cardinality(T) = s.size
        /\ IsFiniteSet(Rango(s)) /\ Cardinality(Rango(s)) = s.size
    <2>1. b + s.size - 1 \in Int /\ ~(b > b + s.size - 1) /\ (b + s.size - 1) - b + 1 = s.size
      BY <1>3
    <2>2. /\ s.base + s.size - 1 \in Int /\ ~(s.base > s.base + s.size - 1)
          /\ (s.base + s.size - 1) - s.base + 1 = s.size
      BY <1>3
    <2>3. IsFiniteSet(T) /\ Cardinality(T) = s.size
      BY <1>3, <2>1, FS_Interval
    <2>4. IsFiniteSet(Rango(s)) /\ Cardinality(Rango(s)) = s.size
      BY <1>3, <2>2, FS_Interval DEF Rango
    <2> QED
      BY <2>3, <2>4
  <1>8. Direcciones \ ocupado' = (L \cup Rango(s)) \ T
    BY <1>2, <1>4, <1>5
  <1>9. IsFiniteSet(L)
    BY MemoriaFinita, FS_Difference
  <1>10. L \cap Rango(s) = {} /\ T \subseteq L \cup Rango(s)
    BY <1>5, <1>6
  <1> HIDE DEF T, L
  <1>11. Cardinality((L \cup Rango(s)) \ T) = Cardinality(L)
    BY <1>7, <1>9, <1>10, MismaCantidad
  <1>12. fase' = "compactando" /\ pedido' = pedido
    BY DEF compact_memory
  <1> QED
    BY <1>8, <1>11, <1>12 DEF Espacio, LugarPara, Direcciones, L

\* The compaction ends with every free cell behind every segment.
LEMMA EspacioFin ==
    ASSUME IInv, Espacio, FinCompactacion
    PROVE  Espacio'
  <1> SUFFICES ASSUME NEW q \in pedido PROVE LugarPara(q)'
    BY DEF Espacio, FinCompactacion
  <1>1. LugarPara(q) /\ q.size \in Nat /\ q.size > 0
    BY TamanioPositivo DEF Espacio, IInv, TypeOK, Pedido
  <1> DEFINE L == Direcciones \ ocupado
             z == Min(L)
  <1>2. IsFiniteSet(L) /\ Cardinality(L) \in Nat
    BY MemoriaFinita, FS_Difference, FS_CardinalityType
  <1>3. L # {}
    BY <1>1, <1>2, FS_EmptySet DEF LugarPara
  <1>4. ocupado \subseteq Direcciones /\ ocupado # {}
    BY MemoriaFinita, CeldaACelda DEF IInv, TypeOK
  <1>5. z \in L /\ \A y \in L : z <= y
    BY <1>3, PrimeraYUltima
  <1>6. Max(ocupado) \in ocupado /\ \A y \in ocupado : y <= Max(ocupado)
    BY <1>4, PrimeraYUltima
  <1>7. z > Max(ocupado)
    BY DEF FinCompactacion, find_first_zero, find_last_one
  <1>8. z \in Nat /\ z < TamMemoria /\ Max(ocupado) \in Nat
    <2>1. z \in Direcciones /\ Max(ocupado) \in Direcciones
      BY <1>4, <1>5, <1>6
    <2> HIDE DEF z
    <2> QED
      BY <2>1, MemoriaFinita DEF Direcciones
  <1>9. \A a \in ocupado : a \in Nat /\ a < z
    BY <1>4, <1>6, <1>7, <1>8 DEF Direcciones
  <1> HIDE DEF z
  <1>10. L \subseteq z..(TamMemoria - 1)
    BY <1>5, <1>8, MemoriaFinita DEF Direcciones
  <1>11. /\ IsFiniteSet(z..(TamMemoria - 1))
         /\ Cardinality(z..(TamMemoria - 1)) = TamMemoria - z
    <2>1. TamMemoria - 1 \in Int /\ ~(z > TamMemoria - 1) /\ (TamMemoria - 1) - z + 1 = TamMemoria - z
      BY <1>8, MemoriaFinita
    <2> QED
      BY <1>8, <2>1, FS_Interval
  <1>12. Cardinality(L) <= TamMemoria - z
    BY <1>10, <1>11, FS_Subset
  <1>13. q.size <= TamMemoria - z
    BY <1>1, <1>2, <1>8, <1>12, MemoriaFinita DEF LugarPara
  <1>14. \A a \in ocupado : a < TamMemoria - q.size
    BY <1>1, <1>8, <1>9, <1>13, MemoriaFinita
  <1> QED
    BY <1>1, <1>14 DEF FinCompactacion, LugarPara, Direcciones

\* Every step keeps the space the kernel is owed.
LEMMA NextEspacio == IInv /\ Espacio /\ [Next]_vars => Espacio'
  <1> SUFFICES ASSUME IInv, Espacio, [Next]_vars PROVE Espacio'
    OBVIOUS
  <1>1. CASE \E p \in Pid : create_segments_table(p) \/ delete_segments_table(p)
    BY <1>1, EspacioCrece DEF create_segments_table, delete_segments_table
  <1>2. CASE \E q \in Pedido : create_segment(q)
    BY <1>2, EspacioCrear
  <1>3. CASE \E p \in Pid, id \in Ids : delete_segment(p, id)
    BY <1>3, EspacioCrece DEF delete_segment
  <1>4. CASE compact_memory
    BY <1>4, EspacioCompactar
  <1>5. CASE EmpezarCompactacion
    BY <1>5 DEF EmpezarCompactacion, Espacio, LugarPara, Direcciones
  <1>6. CASE FinCompactacion
    BY <1>6, EspacioFin
  <1>7. CASE (\E s \in segs : EscribirEn(s)) \/ UNCHANGED vars
    BY <1>7, EspacioCrece DEF EscribirEn, write_memory, vars
  <1> QED
    BY <1>1, <1>2, <1>3, <1>4, <1>5, <1>6, <1>7 DEF Next

\* The CREATE_SEGMENT the kernel repeats after a compaction finds a hole.
THEOREM MemoriaReintentoAlcanza ==
    ASSUME IdsPropios
    PROVE  Spec => []ReintentoAlcanza
  <1>1. Init => IInv /\ Espacio
    BY InitIInv DEF Init, Espacio
  <1>2. IInv /\ Espacio /\ [Next]_vars => IInv' /\ Espacio'
    BY NextIInv, NextEspacio
  <1>3. IInv /\ Espacio => ReintentoAlcanza
    <2> SUFFICES ASSUME IInv, Espacio, fase = "reintento", NEW q \in pedido
                 PROVE  Huecos(ocupado, q.size) # {}
      BY DEF ReintentoAlcanza
    <2>1. q.size \in Nat /\ q.size > 0
      BY TamanioPositivo DEF IInv, TypeOK, Pedido
    <2> QED
      BY <2>1, HuecoAlFinal DEF Espacio, LugarPara
  <1> QED
    BY <1>1, <1>2, <1>3, PTL DEF Spec


-----------------------------------------------------------------------------
(* The refinement                                                          *)

Claves(S) == {Clave(s) : s \in S}

\* What a segment holds when the memory is m.
Vista(m, s) == [celda \in 0..(s.size - 1) |-> m[s.base + celda]]

\* The contents of the segments S in the memory m, as the refinement mapping has it.
ContenidoDe(S, m) ==
    [k \in Claves(S) |->
        [celda \in 0..(k.size - 1) |-> m[(CHOOSE s \in S : Clave(s) = k).base + celda]]]

Distintos(S) == \A s, t \in S : s.id = t.id => s = t

\* The mapping looks at the segment itself.
LEMMA ContenidoVista ==
    ASSUME NEW S, NEW m, Distintos(S), NEW s \in S
    PROVE  Clave(s) \in Claves(S) /\ ContenidoDe(S, m)[Clave(s)] = Vista(m, s)
  <1>1. Clave(s) \in Claves(S)
    BY DEF Claves
  <1>2. \A u \in S : Clave(u) = Clave(s) => u = s
    BY DEF Distintos, Clave
  <1>3. (CHOOSE u \in S : Clave(u) = Clave(s)) = s
    BY <1>2
  <1>4. Clave(s).size = s.size
    BY DEF Clave
  <1>5. ContenidoDe(S, m)[Clave(s)] =
          [celda \in 0..(Clave(s).size - 1) |->
              m[(CHOOSE u \in S : Clave(u) = Clave(s)).base + celda]]
    BY <1>1 DEF ContenidoDe
  <1> QED
    BY <1>1, <1>3, <1>4, <1>5 DEF Vista

\* Its domain is the keys of the segments.
LEMMA ContenidoDominio ==
    ASSUME NEW S, NEW m
    PROVE  /\ DOMAIN ContenidoDe(S, m) = Claves(S)
           /\ ContenidoDe(S, m) = [k \in Claves(S) |-> ContenidoDe(S, m)[k]]
  BY DEF ContenidoDe

\* Fewer segments, the same memory: the segments left hold what they held.
LEMMA ContenidoRestringe ==
    ASSUME NEW S, NEW m, Distintos(S), NEW T, T \subseteq S
    PROVE  ContenidoDe(T, m) = [k \in Claves(T) |-> ContenidoDe(S, m)[k]]
  <1>1. Distintos(T)
    BY DEF Distintos
  <1>2. ASSUME NEW k \in Claves(T) PROVE ContenidoDe(T, m)[k] = ContenidoDe(S, m)[k]
    <2>1. PICK s \in T : k = Clave(s)
      BY <1>2 DEF Claves
    <2> QED
      BY <1>1, <2>1, ContenidoVista
  <1> QED
    BY <1>2, ContenidoDominio


\* The abstract contents.
Contenido == ContenidoDe(segs, mem)

\* A step of memoria that the abstract memory sees as nothing.
LEMMA AbsNada ==
    ASSUME Contenido' = Contenido, ToSet(tablas)' = ToSet(tablas),
           (fase = "compactando")' <=> (fase = "compactando")
    PROVE  UNCHANGED Abs!vars
  BY DEF Abs!vars, Contenido, ContenidoDe, Claves, PorClave

\* PROCESS_NEW as the abstract memory sees it.
LEMMA AbsNuevo ==
    ASSUME NEW p \in Pid, fase # "compactando", fase' # "compactando",
           ToSet(tablas)' = ToSet(tablas) \cup {p}, Contenido' = Contenido
    PROVE  Abs!Next
  BY DEF Abs!Next, Abs!Servir, Abs!Nuevo, Contenido, ContenidoDe, Claves, PorClave

\* PROCESS_END as the abstract memory sees it.
LEMMA AbsFin ==
    ASSUME NEW p \in Pid, fase # "compactando", fase' # "compactando",
           p \in ToSet(tablas), ToSet(tablas)' = ToSet(tablas) \ {p},
           Contenido' = [k \in {k \in DOMAIN Contenido : k.pid # p} |-> Contenido[k]]
    PROVE  Abs!Next
  BY DEF Abs!Next, Abs!Servir, Abs!Fin, Abs!asignados, Contenido, ContenidoDe, Claves, PorClave

\* CREATE_SEGMENT as the abstract memory sees it.
LEMMA AbsCrear ==
    ASSUME NEW k \in Pedido, fase # "compactando", fase' # "compactando",
           ToSet(tablas)' = ToSet(tablas), k.pid \in ToSet(tablas), k \notin DOMAIN Contenido,
           DOMAIN Contenido' = DOMAIN Contenido \cup {k},
           Contenido'[k] \in [0..(k.size - 1) -> Valores],
           \A otro \in DOMAIN Contenido : Contenido'[otro] = Contenido[otro]
    PROVE  Abs!Next
  BY DEF Abs!Next, Abs!Servir, Abs!Crear, Abs!asignados, Abs!Celdas, Abs!Bloque, Pedido, Contenido,
         ContenidoDe, Claves, PorClave

\* DELETE_SEGMENT as the abstract memory sees it.
LEMMA AbsBorrar ==
    ASSUME NEW k \in Pedido, fase # "compactando", fase' # "compactando",
           ToSet(tablas)' = ToSet(tablas), k \in DOMAIN Contenido,
           Contenido' = [otro \in DOMAIN Contenido \ {k} |-> Contenido[otro]]
    PROVE  Abs!Next
  BY DEF Abs!Next, Abs!Servir, Abs!Borrar, Abs!asignados, Abs!Bloque, Pedido, Contenido,
         ContenidoDe, Claves, PorClave

\* INFO_WRITE as the abstract memory sees it.
LEMMA AbsEscribir ==
    ASSUME NEW k \in Pedido, fase # "compactando", fase' # "compactando",
           ToSet(tablas)' = ToSet(tablas), k \in DOMAIN Contenido,
           NEW n \in 1..k.size, NEW desde \in 0..(k.size - 1), NEW datos \in [1..n -> Valores],
           desde + Len(datos) <= k.size,
           Contenido' = [Contenido EXCEPT ![k] = [celda \in 0..(k.size - 1) |->
                            IF celda \in desde..(desde + Len(datos) - 1)
                            THEN datos[celda - desde + 1] ELSE @[celda]]]
    PROVE  Abs!Next
  BY DEF Abs!Next, Abs!Servir, Abs!Escribir, Abs!asignados, Abs!Celdas, Abs!Bloque, Pedido, Contenido,
         ContenidoDe, Claves, PorClave

\* The start and the end of a compaction.
LEMMA AbsPausa ==
    ASSUME (fase = "compactando")' <=> fase # "compactando",
           ToSet(tablas)' = ToSet(tablas), Contenido' = Contenido
    PROVE  Abs!Next
  BY DEF Abs!Next, Abs!Pausa, Contenido, ContenidoDe, Claves, PorClave

\* Which processes have a table, as a set.
LEMMA TablasConjunto ==
    ASSUME NEW q \in Seq(Pid)
    PROVE  \A p : p \in ToSet(q) <=> Contains(q, p)
  <1>1. DOMAIN q = 1..Len(q)
    OBVIOUS
  <1> QED
    BY <1>1 DEF ToSet, Contains

\* The refinement needs that a process has one table.
RInv == IInv /\ SinRepetidos(tablas)

\* A step that touches neither segments nor memory keeps the contents.
LEMMA Quietas ==
    ASSUME segs' = segs, mem' = mem
    PROVE  Contenido' = Contenido
  BY DEF Contenido

\* PROCESS_NEW.
LEMMA RefinaNueva ==
    ASSUME RInv, NEW p \in Pid, create_segments_table(p)
    PROVE  SinRepetidos(tablas)' /\ Abs!Next
  <1>1. /\ ~Contains(tablas, p) /\ tablas' = Append(tablas, p) /\ fase # "compactando"
        /\ segs' = segs /\ mem' = mem /\ fase' = fase
    BY DEF create_segments_table, EnServicio
  <1>2. tablas \in Seq(Pid) /\ tablas' \in Seq(Pid)
    BY <1>1 DEF RInv, IInv, TypeOK
  <1>3. SinRepetidos(tablas') /\ \A x : Contains(tablas', x) <=> (Contains(tablas, x) \/ x = p)
    BY <1>1, <1>2, DistintaAgrega DEF RInv
  <1>4. ToSet(tablas') = ToSet(tablas) \cup {p}
    BY <1>2, <1>3, TablasConjunto
  <1>5. Contenido' = Contenido
    BY <1>1, Quietas
  <1>6. SinRepetidos(tablas)' /\ ToSet(tablas)' = ToSet(tablas) \cup {p}
    BY <1>3, <1>4 DEF SinRepetidos, ToSet
  <1> QED
    BY <1>1, <1>5, <1>6, AbsNuevo

\* PROCESS_END.
LEMMA RefinaBorrada ==
    ASSUME RInv, NEW p \in Pid, delete_segments_table(p)
    PROVE  SinRepetidos(tablas)' /\ Abs!Next
  <1>1. /\ Contains(tablas, p) /\ tablas' = RemoveFirst(tablas, p) /\ fase # "compactando"
        /\ segs' = segs \ DeProceso(p) /\ mem' = mem /\ fase' = fase
    BY DEF delete_segments_table, EnServicio
  <1>2. tablas \in Seq(Pid) /\ tablas' \in Seq(Pid)
    BY <1>1, QuitarTipo DEF RInv, IInv, TypeOK
  <1>3. PICK n \in 1..Len(tablas) : tablas[n] = p /\ SinIndice(tablas, n, tablas')
    BY <1>1, <1>2, QuitarIndice
  <1>4. SinRepetidos(tablas') /\ \A x : Contains(tablas', x) <=> (Contains(tablas, x) /\ x # p)
    BY <1>2, <1>3, DistintaQuita DEF RInv
  <1>5. ToSet(tablas') = ToSet(tablas) \ {p} /\ p \in ToSet(tablas)
    BY <1>1, <1>2, <1>4, TablasConjunto
  <1>6. SinRepetidos(tablas)' /\ ToSet(tablas)' = ToSet(tablas) \ {p}
    BY <1>4, <1>5 DEF SinRepetidos, ToSet
  <1>7. Distintos(segs) /\ segs' \subseteq segs
    BY <1>1 DEF RInv, IInv, IdsUnicos, Distintos
  <1>8. Contenido' = [k \in Claves(segs') |-> Contenido[k]]
    <2>1. mem' = mem
      BY <1>1
    <2>2. ContenidoDe(segs', mem) = [k \in Claves(segs') |-> ContenidoDe(segs, mem)[k]]
      BY <1>7, ContenidoRestringe
    <2> QED
      BY <2>1, <2>2 DEF Contenido
  <1>9. DOMAIN Contenido = Claves(segs)
    BY ContenidoDominio DEF Contenido
  <1>10. Claves(segs') = {k \in DOMAIN Contenido : k.pid # p}
    BY <1>1, <1>9 DEF Claves, Clave, DeProceso
  <1>11. Contenido' = [k \in {k \in DOMAIN Contenido : k.pid # p} |-> Contenido[k]]
    BY <1>8, <1>10
  <1> QED
    BY <1>1, <1>5, <1>6, <1>11, AbsFin

\* DELETE_SEGMENT.
LEMMA RefinaBorrar ==
    ASSUME RInv, NEW p \in Pid, NEW id \in Ids, delete_segment(p, id)
    PROVE  SinRepetidos(tablas)' /\ Abs!Next
  <1>1. PICK s \in segs : s.id = id /\ segs' = IF s.pid = p THEN segs \ {s} ELSE segs
    BY DEF delete_segment, get_segment_by_id
  <1>2. s.pid = p
    BY <1>1 DEF delete_segment, DeProceso, RInv, IInv, IdsUnicos
  <1>3. /\ segs' = segs \ {s} /\ mem' = mem /\ tablas' = tablas
        /\ fase # "compactando" /\ fase' # "compactando"
    BY <1>1, <1>2 DEF delete_segment
  <1>4. Distintos(segs) /\ segs' \subseteq segs
    BY <1>3 DEF RInv, IInv, IdsUnicos, Distintos
  <1>5. Contenido' = [k \in Claves(segs') |-> Contenido[k]]
    BY <1>3, <1>4, ContenidoRestringe DEF Contenido
  <1>6. DOMAIN Contenido = Claves(segs)
    BY ContenidoDominio DEF Contenido
  <1>7. Claves(segs') = Claves(segs) \ {Clave(s)}
    BY <1>3, <1>4 DEF Claves, Clave, Distintos
  <1>8. Clave(s) \in Pedido /\ Clave(s) \in Claves(segs)
    BY DEF RInv, IInv, TypeOK, Segmento, Pedido, Clave, Claves
  <1>9. Contenido' = [k \in DOMAIN Contenido \ {Clave(s)} |-> Contenido[k]]
    BY <1>5, <1>6, <1>7
  <1>10. SinRepetidos(tablas)' /\ ToSet(tablas)' = ToSet(tablas)
    BY <1>3 DEF RInv
  <1> QED
    BY <1>3, <1>6, <1>8, <1>9, <1>10, AbsBorrar

\* A segment in the memory holds values.
LEMMA VistaTipo ==
    ASSUME NEW s \in Segmento, Rango(s) \subseteq Direcciones, mem \in [Direcciones -> Valores]
    PROVE  Vista(mem, s) \in [0..(s.size - 1) -> Valores]
  <1>1. s.base \in Int /\ s.size \in Int
    BY TamanioPositivo DEF Segmento
  <1>2. \A c \in 0..(s.size - 1) : s.base + c \in Rango(s)
    BY <1>1 DEF Rango
  <1> QED
    BY <1>2 DEF Vista

\* CREATE_SEGMENT.
LEMMA RefinaCrear ==
    ASSUME RInv, IInv', IdsPropios, NEW q \in Pedido, create_segment(q)
    PROVE  SinRepetidos(tablas)' /\ (Abs!Next \/ UNCHANGED Abs!vars)
  <1>1. /\ fase # "compactando" /\ fase' # "compactando" /\ tablas' = tablas /\ mem' = mem
        /\ Contains(tablas, q.pid) /\ \A s \in segs : s.id # q.id
    BY DEF create_segment, Asignar
  <1>2. SinRepetidos(tablas)' /\ ToSet(tablas)' = ToSet(tablas)
    BY <1>1 DEF RInv
  <1>3. CASE segs' = segs
    <2>1. Contenido' = Contenido
      BY <1>1, <1>3, Quietas
    <2> QED
      BY <1>1, <1>2, <2>1, AbsNada
  <1>4. ASSUME NEW b, NEW t, t = [pid |-> q.pid, id |-> q.id, base |-> b, size |-> q.size],
               segs' = segs \cup {t}
        PROVE  Abs!Next
    <2>1. Clave(t) = q
      BY <1>4 DEF Clave, Pedido
    <2>2. t \in Segmento /\ Rango(t) \subseteq Direcciones /\ Distintos(segs')
      <3>1. t \in segs'
        BY <1>4
      <3>2. segs' \subseteq Segmento
        BY DEF IInv, TypeOK, Segmento
      <3>3. \A s \in segs' : Rango(s) \subseteq Direcciones
        BY DEF IInv, SegmentosDisjuntos, Rango, Direcciones, Segmento0
      <3>4. Distintos(segs')
        BY DEF IInv, IdsUnicos, Distintos
      <3> QED
        BY <3>1, <3>2, <3>3, <3>4
    <2>3. DOMAIN Contenido = Claves(segs) /\ DOMAIN Contenido' = Claves(segs')
      BY ContenidoDominio DEF Contenido
    <2>4. Claves(segs') = Claves(segs) \cup {q}
      BY <1>4, <2>1 DEF Claves
    <2>5. q \notin Claves(segs)
      BY <1>1 DEF Claves, Clave
    <2>6. Contenido'[q] = Vista(mem, t)
      BY <1>1, <1>4, <2>1, <2>2, ContenidoVista DEF Contenido
    <2>7. Vista(mem, t) \in [0..(q.size - 1) -> Valores]
      <3>1. t.size = q.size
        BY <1>4
      <3> QED
        BY <2>2, <3>1, VistaTipo DEF RInv, IInv, TypeOK
    <2>8. Contenido = [k \in Claves(segs) |-> Contenido'[k]]
      BY <1>1, <1>4, <2>2, ContenidoRestringe DEF Contenido
    <2>9. \A otro \in DOMAIN Contenido : Contenido'[otro] = Contenido[otro]
      BY <2>3, <2>8
    <2>10. q.pid \in ToSet(tablas)
      BY <1>1, TablasConjunto DEF RInv, IInv, TypeOK
    <2> QED
      BY <1>1, <1>2, <2>3, <2>4, <2>5, <2>6, <2>7, <2>9, <2>10, AbsCrear
  <1> QED
    BY <1>2, <1>3, <1>4 DEF create_segment, Asignar

\* Segments that do not touch the cells that change hold what they held.
LEMMA VistaIgual ==
    ASSUME NEW s, NEW m, NEW n, s.base \in Int, s.size \in Int, \A a \in Rango(s) : n[a] = m[a]
    PROVE  Vista(n, s) = Vista(m, s)
  <1>1. \A c \in 0..(s.size - 1) : s.base + c \in Rango(s)
    BY DEF Rango
  <1> QED
    BY <1>1 DEF Vista

\* The numbers of a segment in a table.
LEMMA SegmentoEnteros ==
    ASSUME IInv, NEW s \in segs
    PROVE  s \in Segmento /\ s.base \in Int /\ s.size \in Nat /\ s.size > 0
  BY TamanioPositivo DEF IInv, TypeOK, Segmento

\* A turn of the compaction changes where a segment is and nothing of what any holds.
LEMMA RefinaCompactar ==
    ASSUME RInv, IInv', compact_memory
    PROVE  SinRepetidos(tablas)' /\ UNCHANGED Abs!vars
  <1> USE DEF RInv
  <1>1. PICK s \in segs : \E b \in get_base_adress(ocupado \ Rango(s), s.size) :
              /\ segs' = (segs \ {s}) \cup {[s EXCEPT !.base = b]}
              /\ mem' = move_data(b, s.base, s.size)
    BY DEF compact_memory
  <1>2. PICK b \in get_base_adress(ocupado \ Rango(s), s.size) :
              /\ segs' = (segs \ {s}) \cup {[s EXCEPT !.base = b]}
              /\ mem' = move_data(b, s.base, s.size)
    BY <1>1
  <1>3. s \in Segmento /\ s.base \in Int /\ s.size \in Nat /\ s.size > 0
    BY SegmentoEnteros
  <1>4. PICK t : t = [s EXCEPT !.base = b]
    OBVIOUS
  <1>5. /\ t.base = b /\ t.size = s.size /\ Clave(t) = Clave(s) /\ b \in Int
        /\ segs' = (segs \ {s}) \cup {t} /\ t \in segs'
    BY <1>2, <1>3, <1>4, HuecoLibre DEF Segmento, Clave, Direcciones
  <1>6. \A a \in Rango(t) : a \in Direcciones /\ a \notin ocupado \ Rango(s)
    BY <1>5, HuecoLibre DEF Rango
  <1>7. Rango(t) = b..(b + s.size - 1)
    BY <1>5 DEF Rango
  <1>8. /\ \A a \in Direcciones : a \notin Rango(t) => mem'[a] = mem[a]
        /\ \A a \in Rango(t) : mem'[a] = mem[s.base + (a - b)]
    BY <1>2, <1>6, <1>7 DEF move_data
  <1>9. ASSUME NEW u \in segs, u # s PROVE Vista(mem', u) = Vista(mem, u)
    <2>1. u.base \in Int /\ u.size \in Int
      BY SegmentoEnteros
    <2>2. Rango(u) \subseteq Direcciones /\ Rango(u) \subseteq ocupado /\ Rango(u) \cap Rango(s) = {}
      BY <1>9, CeldaACelda DEF IInv, SegmentosDisjuntos
    <2>3. \A a \in Rango(u) : mem'[a] = mem[a]
      BY <1>6, <1>8, <2>2
    <2> QED
      BY <2>1, <2>3, VistaIgual
  <1>10. Vista(mem', t) = Vista(mem, s)
    <2>1. \A c \in 0..(s.size - 1) : b + c \in Rango(t) /\ (b + c) - b = c
      BY <1>3, <1>5, <1>7
    <2>2. \A c \in 0..(s.size - 1) : mem'[b + c] = mem[s.base + c]
      BY <1>8, <2>1
    <2> QED
      BY <1>5, <2>2 DEF Vista
  <1>11. Distintos(segs) /\ Distintos(segs')
    BY DEF IInv, IdsUnicos, Distintos
  <1>12. Claves(segs') = Claves(segs)
    BY <1>5 DEF Claves
  <1>13. ASSUME NEW k \in Claves(segs)
         PROVE  ContenidoDe(segs', mem')[k] = ContenidoDe(segs, mem)[k]
    <2>1. PICK u \in segs : k = Clave(u)
      BY DEF Claves
    <2>2. CASE u = s
      <3>1. ContenidoDe(segs', mem')[Clave(t)] = Vista(mem', t)
        BY <1>5, <1>11, ContenidoVista
      <3>2. ContenidoDe(segs, mem)[Clave(s)] = Vista(mem, s)
        BY <1>11, ContenidoVista
      <3> QED
        BY <1>5, <1>10, <2>1, <2>2, <3>1, <3>2
    <2>3. CASE u # s
      <3>1. u \in segs'
        BY <1>5, <2>3
      <3>2. ContenidoDe(segs', mem')[Clave(u)] = Vista(mem', u)
        BY <1>11, <3>1, ContenidoVista
      <3>3. ContenidoDe(segs, mem)[Clave(u)] = Vista(mem, u)
        BY <1>11, ContenidoVista
      <3> QED
        BY <1>9, <2>1, <2>3, <3>2, <3>3
    <2> QED
      BY <2>2, <2>3
  <1>14. Contenido' = Contenido
    <2>1. ContenidoDe(segs', mem') = [k \in Claves(segs') |-> ContenidoDe(segs', mem')[k]]
      BY ContenidoDominio
    <2>2. ContenidoDe(segs, mem) = [k \in Claves(segs) |-> ContenidoDe(segs, mem)[k]]
      BY ContenidoDominio
    <2> QED
      BY <1>12, <1>13, <2>1, <2>2 DEF Contenido
  <1>15. fase = "compactando" /\ fase' = "compactando" /\ tablas' = tablas
    BY DEF compact_memory
  <1>16. SinRepetidos(tablas)' /\ ToSet(tablas)' = ToSet(tablas)
    BY <1>15
  <1> QED
    BY <1>14, <1>15, <1>16, AbsNada

\* INFO_WRITE in a segment writes in that segment and in no other.
LEMMA RefinaEscribir ==
    ASSUME RInv, NEW s \in segs, EscribirEn(s)
    PROVE  SinRepetidos(tablas)' /\ (Abs!Next \/ UNCHANGED Abs!vars)
  <1> USE DEF RInv
  <1>1. PICK a \in Rango(s) : \E datos \in Bloques(s.base + s.size - a) : write_memory(a, datos)
    BY DEF EscribirEn
  <1>2. PICK datos \in Bloques(s.base + s.size - a) : write_memory(a, datos)
    BY <1>1
  <1>3. /\ fase # "compactando" /\ fase' # "compactando" /\ tablas' = tablas /\ segs' = segs
        /\ \/ mem' = mem
           \/ mem' = [x \in Direcciones |-> IF x \in a..(a + Len(datos) - 1)
                                            THEN datos[x - a + 1] ELSE mem[x]]
    BY <1>2 DEF write_memory, EnServicio
  <1>4. SinRepetidos(tablas)' /\ ToSet(tablas)' = ToSet(tablas)
    BY <1>3
  <1>5. CASE mem' = mem
    <2>1. Contenido' = Contenido
      BY <1>3, <1>5, Quietas
    <2> QED
      BY <1>3, <1>4, <2>1, AbsNada
  <1>6. CASE mem' = [x \in Direcciones |-> IF x \in a..(a + Len(datos) - 1)
                                           THEN datos[x - a + 1] ELSE mem[x]]
    <2>1. s \in Segmento /\ s.base \in Int /\ s.size \in Nat /\ s.size > 0
      BY SegmentoEnteros
    <2>2. a \in Int /\ s.base <= a /\ a < s.base + s.size
      BY <2>1 DEF Rango
    <2>3. PICK n \in 1..(s.base + s.size - a) : datos \in [1..n -> Valores]
      BY DEF Bloques
    <2>4. n \in Nat /\ Len(datos) = n /\ a + n <= s.base + s.size
      BY <2>1, <2>2, <2>3
    <2> DEFINE desde == a - s.base
               k == Clave(s)
    <2>5. k \in Pedido /\ k.size = s.size
      BY <2>1 DEF Clave, Pedido, Segmento
    <2>6. desde \in 0..(k.size - 1) /\ n \in 1..k.size /\ desde + Len(datos) <= k.size
      <3>1. PICK base, z : base = s.base /\ z = s.size
        OBVIOUS
      <3>2. /\ base \in Int /\ z \in Nat /\ a \in Int /\ base <= a /\ a < base + z
            /\ n \in Nat /\ n >= 1 /\ a + n <= base + z
        BY <2>1, <2>2, <2>3, <2>4, <3>1
      <3>3. a - base \in 0..(z - 1) /\ n \in 1..z /\ (a - base) + n <= z
        BY ONLY <3>2
      <3> QED
        BY <2>4, <2>5, <3>1, <3>3
    <2>7. Distintos(segs)
      BY DEF IInv, IdsUnicos, Distintos
    <2>8. DOMAIN Contenido = Claves(segs) /\ k \in Claves(segs)
      BY ContenidoDominio DEF Contenido, Claves
    <2>9. Rango(s) \subseteq Direcciones
      BY DEF IInv, SegmentosDisjuntos
    <2>10. \A x \in Direcciones : mem'[x] = IF x \in a..(a + n - 1)
                                            THEN datos[x - a + 1] ELSE mem[x]
      BY <1>6, <2>4
    <2>11. Vista(mem', s) = [celda \in 0..(k.size - 1) |->
                              IF celda \in desde..(desde + Len(datos) - 1)
                              THEN datos[celda - desde + 1] ELSE Vista(mem, s)[celda]]
      <3>1. ASSUME NEW c \in 0..(s.size - 1)
            PROVE  mem'[s.base + c] = IF c \in desde..(desde + n - 1)
                                      THEN datos[c - desde + 1] ELSE Vista(mem, s)[c]
        <4>1. s.base + c \in Direcciones
          BY <2>1, <2>9 DEF Rango
        <4>2. /\ s.base + c \in a..(a + n - 1) <=> c \in desde..(desde + n - 1)
              /\ (s.base + c) - a + 1 = c - desde + 1
          <5>1. PICK base, d : base = s.base /\ d = desde
            OBVIOUS
          <5>2. base \in Int /\ a \in Int /\ n \in Nat /\ c \in Int /\ d = a - base
            BY <2>1, <2>2, <2>4, <5>1
          <5>3. /\ base + c \in a..(a + n - 1) <=> c \in d..(d + n - 1)
                /\ (base + c) - a + 1 = c - d + 1
            BY ONLY <5>2
          <5> QED
            BY <5>1, <5>3
        <4>3. Vista(mem, s)[c] = mem[s.base + c]
          BY DEF Vista
        <4> HIDE DEF desde
        <4> QED
          BY <2>10, <4>1, <4>2, <4>3
      <3> HIDE DEF desde, k
      <3> QED
        BY <2>4, <2>5, <3>1 DEF Vista
    <2>12. ASSUME NEW u \in segs, u # s PROVE Vista(mem', u) = Vista(mem, u)
      <3>1. u.base \in Int /\ u.size \in Int
        BY SegmentoEnteros
      <3>2. Rango(u) \subseteq Direcciones /\ Rango(u) \cap Rango(s) = {}
        BY <2>12 DEF IInv, SegmentosDisjuntos
      <3>3. a..(a + n - 1) \subseteq Rango(s)
        BY <2>1, <2>2, <2>4 DEF Rango
      <3>4. \A x \in Rango(u) : mem'[x] = mem[x]
        BY <2>10, <3>2, <3>3
      <3> QED
        BY <3>1, <3>4, VistaIgual
    <2>13. ASSUME NEW j \in Claves(segs), j # k PROVE Contenido'[j] = Contenido[j]
      <3>1. PICK u \in segs : j = Clave(u)
        BY DEF Claves
      <3>2. Contenido[j] = Vista(mem, u)
        BY <2>7, <3>1, ContenidoVista DEF Contenido
      <3>3. Contenido'[j] = Vista(mem', u)
        BY <1>3, <2>7, <3>1, ContenidoVista DEF Contenido
      <3> QED
        BY <2>12, <2>13, <3>1, <3>2, <3>3
    <2>14. Contenido[k] = Vista(mem, s) /\ Contenido'[k] = Vista(mem', s)
      <3>1. Contenido[k] = Vista(mem, s)
        BY <2>7, ContenidoVista DEF Contenido
      <3>2. Contenido'[k] = Vista(mem', s)
        BY <1>3, <2>7, ContenidoVista DEF Contenido
      <3> QED
        BY <3>1, <3>2
    <2>15. /\ Contenido' = [j \in Claves(segs) |-> Contenido'[j]]
           /\ Contenido = [j \in Claves(segs) |-> Contenido[j]]
      BY <1>3, ContenidoDominio DEF Contenido
    <2> HIDE DEF desde, k
    <2>16. Contenido' = [Contenido EXCEPT ![k] = [celda \in 0..(k.size - 1) |->
                            IF celda \in desde..(desde + Len(datos) - 1)
                            THEN datos[celda - desde + 1] ELSE @[celda]]]
      BY <2>8, <2>11, <2>13, <2>14, <2>15
    <2> QED
      BY <1>3, <1>4, <2>3, <2>5, <2>6, <2>8, <2>16, AbsEscribir
  <1> QED
    BY <1>3, <1>4, <1>5, <1>6

\* Every step of memoria is a step of the abstract memory or none.
LEMMA NextRefina ==
    IdsPropios /\ RInv /\ IInv' /\ [Next]_vars => SinRepetidos(tablas)' /\ [Abs!Next]_(Abs!vars)
  <1> SUFFICES ASSUME IdsPropios, RInv, IInv', [Next]_vars
               PROVE  SinRepetidos(tablas)' /\ (Abs!Next \/ UNCHANGED Abs!vars)
    OBVIOUS
  <1>1. CASE \E p \in Pid : create_segments_table(p) \/ delete_segments_table(p)
    BY <1>1, RefinaNueva, RefinaBorrada
  <1>2. CASE \E q \in Pedido : create_segment(q)
    BY <1>2, RefinaCrear
  <1>3. CASE \E p \in Pid, id \in Ids : delete_segment(p, id)
    BY <1>3, RefinaBorrar
  <1>4. CASE compact_memory
    BY <1>4, RefinaCompactar
  <1>5. CASE EmpezarCompactacion \/ FinCompactacion
    <2>1. /\ segs' = segs /\ mem' = mem /\ tablas' = tablas
          /\ (fase = "compactando")' <=> fase # "compactando"
      BY <1>5 DEF EmpezarCompactacion, FinCompactacion
    <2>2. Contenido' = Contenido
      BY <2>1, Quietas
    <2>3. SinRepetidos(tablas)' /\ ToSet(tablas)' = ToSet(tablas)
      BY <2>1 DEF RInv
    <2> QED
      BY <2>1, <2>2, <2>3, AbsPausa
  <1>6. CASE \E s \in segs : EscribirEn(s)
    BY <1>6, RefinaEscribir
  <1>7. CASE UNCHANGED vars
    <2>1. segs' = segs /\ mem' = mem /\ tablas' = tablas /\ fase' = fase
      BY <1>7 DEF vars
    <2>2. Contenido' = Contenido
      BY <2>1, Quietas
    <2>3. SinRepetidos(tablas)' /\ ToSet(tablas)' = ToSet(tablas)
      BY <2>1 DEF RInv
    <2> QED
      BY <2>1, <2>2, <2>3, AbsNada
  <1> QED
    BY <1>1, <1>2, <1>3, <1>4, <1>5, <1>6, <1>7 DEF Next

\* Memoria implements memory without addresses: what a compaction, a placement
\* or a request of another process does to a segment, its process cannot see.
THEOREM MemoriaImplementaAbs ==
    ASSUME IdsPropios
    PROVE  Spec => ImplementaAbs
  <1>1. Init => RInv /\ Abs!Init
    <2> SUFFICES ASSUME Init PROVE RInv /\ Abs!Init
      OBVIOUS
    <2>1. tablas = <<>> /\ segs = {} /\ fase = "libre"
      BY DEF Init
    <2>2. RInv
      BY <2>1, InitIInv DEF RInv, SinRepetidos
    <2>3. ToSet(tablas) = {}
      BY <2>1 DEF ToSet
    <2> QED
      BY <2>1, <2>2, <2>3 DEF Abs!Init
  <1>2. RInv /\ [Next]_vars => RInv' /\ [Abs!Next]_(Abs!vars)
    BY NextIInv, NextRefina DEF RInv
  <1> QED
    BY <1>1, <1>2, PTL DEF Spec, ImplementaAbs, Abs!Spec
=============================================================================
