------------------------------ MODULE Memoria -------------------------------
(***************************************************************************)
(* The memoria process: the segment tables, the bitmap of free space, the  *)
(* placement algorithms and the compaction, as the kernel's requests drive *)
(* them.  One thread serves the kernel's socket, so a request is served    *)
(* whole before the next; the compaction is one action per turn of its     *)
(* loop.  CPU and filesystem write through threads of their own.           *)
(***************************************************************************)
EXTENDS Integers, FiniteSets, SequencesExt

CONSTANTS
    Pid,
    Ids,          \* segment ids programs use (0 is segment_0)
    Sizes,        \* sizes programs ask for
    Valores,      \* what a memory cell may hold
    TamMemoria,   \* TAM_MEMORIA
    TamSegmento0, \* TAM_SEGMENTO_0
    CantSegmentos,\* CANT_SEGMENTOS
    Algoritmos,   \* ALGORITMO_ASIGNACION: the values to consider
    IdsPropios    \* programs: no two live segments have one id, not even of two processes

ASSUME MemoriaAssumption ==
    /\ IsFiniteSet(Pid)
    /\ Ids \subseteq Nat \ {0}
    /\ Sizes \subseteq Nat \ {0}
    /\ 0 \in Valores
    /\ TamSegmento0 \in Nat \ {0}
    /\ TamMemoria \in Nat /\ TamSegmento0 <= TamMemoria
    /\ CantSegmentos \in Nat
    /\ Algoritmos \subseteq {"FIRST", "BEST", "WORST"}
    /\ IdsPropios \in BOOLEAN

Direcciones == 0..(TamMemoria - 1)
Segmento == [pid : Pid, id : Ids, base : Nat, size : Sizes]
Pedido == [pid : Pid, id : Ids, size : Sizes]
Respuestas == {"TSEGMENTOS", "SEGMENTO", "LTSEGMENTOS", "OUT_OF_MEMORY",
               "COMPACTATION_REQUIRED", "MAX_SEG_QUANTITY_REACHED", "nada"}

VARIABLES
    algoritmo,  \* config->compactation_algorithm, fixed at start
    tablas,     \* all_segments_tables: the processes that have one, oldest first
    segs,       \* the t_segment in them, segment_0 apart
    ocupado,    \* the bits of free_space_table that are set
    mem,        \* memory_space
    fase,       \* what the kernel is doing about a compaction
    pedido,     \* the CREATE_SEGMENT it will repeat
    respuesta   \* the last answer to the kernel

vars == <<algoritmo, tablas, segs, ocupado, mem, fase, pedido, respuesta>>

Rango(s) == s.base..(s.base + s.size - 1)
Segmento0 == 0..(TamSegmento0 - 1)
DeProceso(p) == {s \in segs : s.pid = p}

\* start_memory: segment_0 is the first block the zeroed memory gives.
Init ==
    /\ algoritmo \in Algoritmos
    /\ tablas = <<>>
    /\ segs = {}
    /\ ocupado = Segmento0
    /\ mem = [a \in Direcciones |-> 0]
    /\ fase = "libre"
    /\ pedido = {}
    /\ respuesta = "nada"

-----------------------------------------------------------------------------
(* Placement (algoritmos.c, segmentos.c)                                   *)

\* get_free_space: how many cells are free from b on without a break.
get_free_space(occ, b) ==
    Cardinality({n \in b..(TamMemoria - 1) : (b..n) \cap occ = {}})

\* Mutants: a hole that goes on past the end of memory; the last cell not looked at.
CabeSinFin(occ, b, size) == \A a \in b..(b + size - 1) : a \notin occ
CabeSinUltima(occ, b, size) == \A a \in b..(b + size - 2) : a \in Direcciones \ occ

Cabe(occ, b, size) == \A a \in b..(b + size - 1) : a \in Direcciones \ occ

\* The holes the loops of the algorithms look at: they jump from the start of one
\* to the start of the next.
Huecos(occ, size) ==
    {b \in Direcciones : (b = 0 \/ b - 1 \in occ) /\ Cabe(occ, b, size)}

\* h is as good as k for the algorithm; a tie goes to the lower address.
Preferible(occ, h, k) ==
    LET th == get_free_space(occ, h)
        tk == get_free_space(occ, k)
    IN CASE algoritmo = "FIRST" -> h <= k
         [] algoritmo = "BEST"  -> th < tk \/ (th = tk /\ h <= k)
         [] algoritmo = "WORST" -> th > tk \/ (th = tk /\ h <= k)

\* get_base_adress: the address chosen; none when there is no hole (it answers -1).
get_base_adress(occ, size) ==
    {h \in Huecos(occ, size) : \A k \in Huecos(occ, size) : Preferible(occ, h, k)}

is_malloc_possible(size) == Cardinality(Direcciones \ ocupado) >= size

-----------------------------------------------------------------------------
(* Requests of the kernel (modulos.c)                                      *)

\* The kernel's core waits for an answer in every phase but "libre"; its client
\* and file threads share the socket and go on with PROCESS_NEW and PROCESS_END.
EnServicio == fase # "compactando"

create_segments_table(p) ==
    /\ EnServicio
    /\ ~Contains(tablas, p)
    /\ tablas' = Append(tablas, p)
    /\ respuesta' = "TSEGMENTOS"
    /\ UNCHANGED <<algoritmo, segs, ocupado, mem, fase, pedido>>

\* Mutant: the table goes and its bits stay.
delete_segments_tableSinBits(p) ==
    /\ EnServicio
    /\ Contains(tablas, p)
    /\ \A q \in pedido : q.pid # p
    /\ tablas' = RemoveFirst(tablas, p)
    /\ segs' = segs \ DeProceso(p)
    /\ UNCHANGED <<algoritmo, ocupado, mem, fase, pedido, respuesta>>

\* PROCESS_END, of a process that is not the one the core is serving.
delete_segments_table(p) ==
    /\ EnServicio
    /\ Contains(tablas, p)
    /\ \A q \in pedido : q.pid # p
    /\ tablas' = RemoveFirst(tablas, p)
    /\ segs' = segs \ DeProceso(p)
    /\ ocupado' = ocupado \ UNION {Rango(s) : s \in DeProceso(p)}
    /\ UNCHANGED <<algoritmo, mem, fase, pedido, respuesta>>

\* CREATE_SEGMENT once the table has room for one more.
Asignar(q) ==
    IF ~is_malloc_possible(q.size)
    THEN /\ respuesta' = "OUT_OF_MEMORY"
         /\ fase' = "libre" /\ pedido' = {}
         /\ UNCHANGED <<segs, ocupado>>
    ELSE IF Huecos(ocupado, q.size) = {}
    THEN /\ respuesta' = "COMPACTATION_REQUIRED"
         /\ fase' = "compactar" /\ pedido' = {q}
         /\ UNCHANGED <<segs, ocupado>>
    ELSE \E b \in get_base_adress(ocupado, q.size) :
         LET s == [pid |-> q.pid, id |-> q.id, base |-> b, size |-> q.size] IN
         /\ segs' = segs \cup {s}
         /\ ocupado' = ocupado \cup Rango(s)
         /\ respuesta' = "SEGMENTO"
         /\ fase' = "libre" /\ pedido' = {}

\* A restriction of the workload, since the code looks at no ids: a process asks for
\* none that it has a live segment with (its table would hold it twice), and with
\* IdsPropios for none that any process has.
create_segment(q) ==
    /\ \/ fase = "libre"
       \/ fase = "reintento" /\ q \in pedido
    /\ Contains(tablas, q.pid)
    /\ \A s \in segs : s.id = q.id => s.pid # q.pid /\ ~IdsPropios
    /\ IF Cardinality(DeProceso(q.pid)) + 1 >= CantSegmentos
       THEN /\ respuesta' = "MAX_SEG_QUANTITY_REACHED"
            /\ fase' = "libre" /\ pedido' = {}
            /\ UNCHANGED <<segs, ocupado>>
       ELSE Asignar(q)
    /\ UNCHANGED <<algoritmo, tablas, mem>>

\* get_segment_by_id: the id in the oldest table that has it, whoever asks.
get_segment_by_id(id) ==
    LET con_id == {i \in 1..Len(tablas) : \E s \in DeProceso(tablas[i]) : s.id = id}
    IN {s \in segs : s.id = id /\ \E i \in con_id : /\ s.pid = tablas[i]
                                                    /\ \A j \in con_id : i <= j}

\* DELETE_SEGMENT.  Only the table of the process that asks loses the segment;
\* the bits are cleared whoever the segment belongs to.  A restriction of the workload:
\* a process deletes an id that it has.  An id that nobody has is a NULL that the code
\* dereferences, and 0 is segment_0, whose bits would be cleared for everybody.
delete_segment(p, id) ==
    /\ fase = "libre"
    /\ \E s \in DeProceso(p) : s.id = id
    /\ \E s \in get_segment_by_id(id) :
         /\ segs' = IF s.pid = p THEN segs \ {s} ELSE segs
         /\ ocupado' = ocupado \ Rango(s)
    /\ respuesta' = "TSEGMENTOS"
    /\ UNCHANGED <<algoritmo, tablas, mem, fase, pedido>>

-----------------------------------------------------------------------------
(* Compaction (compactacion.c)                                             *)

EmpezarCompactacion ==
    /\ fase = "compactar"
    /\ fase' = "compactando"
    /\ UNCHANGED <<algoritmo, tablas, segs, ocupado, mem, pedido, respuesta>>

find_first_zero == Min(Direcciones \ ocupado)
find_last_one == Max(ocupado)
find_first_one_after_first_zero == Min({a \in ocupado : a >= find_first_zero})

\* Mutant: the segment moves and its content does not.
move_dataNulo(to, from, size) == mem

\* move_data: the block is copied as it was, also when the ranges overlap.
move_data(to, from, size) ==
    [a \in Direcciones |-> IF a \in to..(to + size - 1) THEN mem[from + (a - to)]
                                                       ELSE mem[a]]

\* Mutant: the segment's own bits are not cleared before a place is looked for.
compact_memorySinLimpiar ==
    /\ fase = "compactando"
    /\ find_first_zero < find_last_one
    /\ \E s \in segs :
         /\ s.base = find_first_one_after_first_zero
         /\ \E b \in get_base_adress(ocupado, s.size) :
              LET t == [s EXCEPT !.base = b] IN
              /\ segs' = (segs \ {s}) \cup {t}
              /\ ocupado' = (ocupado \ Rango(s)) \cup Rango(t)
              /\ mem' = move_data(b, s.base, s.size)
    /\ UNCHANGED <<algoritmo, tablas, fase, pedido, respuesta>>

\* One turn of the loop: the first segment after the first hole is lifted and
\* placed again by the configured algorithm.
compact_memory ==
    /\ fase = "compactando"
    /\ find_first_zero < find_last_one
    /\ \E s \in segs :
         /\ s.base = find_first_one_after_first_zero
         /\ LET sin == ocupado \ Rango(s) IN
            \E b \in get_base_adress(sin, s.size) :
              LET t == [s EXCEPT !.base = b] IN
              /\ segs' = (segs \ {s}) \cup {t}
              /\ ocupado' = sin \cup Rango(t)
              /\ mem' = move_data(b, s.base, s.size)
    /\ UNCHANGED <<algoritmo, tablas, fase, pedido, respuesta>>

\* Mutant: one turn of the loop is taken for all of them.
FinCompactacionAntes ==
    /\ fase = "compactando"
    /\ fase' = "reintento"
    /\ respuesta' = "LTSEGMENTOS"
    /\ UNCHANGED <<algoritmo, tablas, segs, ocupado, mem, pedido>>

FinCompactacion ==
    /\ fase = "compactando"
    /\ find_first_zero > find_last_one
    /\ fase' = "reintento"
    /\ respuesta' = "LTSEGMENTOS"
    /\ UNCHANGED <<algoritmo, tablas, segs, ocupado, mem, pedido>>

\* get_pid_by_address: the processes with a segment there; segment_0 is in every table.
get_pid_by_address(a) ==
    {p \in ToSet(tablas) : a \in Segmento0 \/ \E s \in DeProceso(p) : a \in Rango(s)}

\* INFO_READ: the n cells from a on; nothing stands for SEGMENTATION_FAULT.
read_memory(a, n) ==
    IF get_pid_by_address(a) = {} THEN <<>> ELSE [i \in 1..n |-> mem[a + i - 1]]

\* INFO_WRITE from the CPU or the filesystem.  Only the first cell is looked up; that
\* the others are of the same segment is for the sender to check.  The kernel keeps
\* both away while memoria compacts (CompactaSinFS in Kernel).
write_memory(a, datos) ==
    /\ EnServicio
    /\ mem' = IF get_pid_by_address(a) = {} \/ a + Len(datos) > TamMemoria
              THEN mem
              ELSE [x \in Direcciones |-> IF x \in a..(a + Len(datos) - 1)
                                         THEN datos[x - a + 1] ELSE mem[x]]
    /\ UNCHANGED <<algoritmo, tablas, segs, ocupado, fase, pedido, respuesta>>

Bloques(n) == UNION {[1..k -> Valores] : k \in 1..n}
EscribirEn(s) ==
    \E a \in Rango(s) : \E datos \in Bloques(s.base + s.size - a) : write_memory(a, datos)

-----------------------------------------------------------------------------
Next ==
    \/ \E p \in Pid : create_segments_table(p) \/ delete_segments_table(p)
    \/ \E q \in Pedido : create_segment(q)
    \/ \E p \in Pid, id \in Ids : delete_segment(p, id)
    \/ EmpezarCompactacion \/ compact_memory \/ FinCompactacion
    \/ \E s \in segs : EscribirEn(s)

Spec == Init /\ [][Next]_vars

\* The thread that serves the kernel goes on with a compaction it was asked for.
FairSpec == Spec /\ WF_vars(EmpezarCompactacion \/ compact_memory \/ FinCompactacion)

-----------------------------------------------------------------------------
(* Properties                                                              *)

TypeOK ==
    /\ algoritmo \in {"FIRST", "BEST", "WORST"}
    /\ tablas \in Seq(Pid)
    /\ segs \subseteq Segmento
    /\ ocupado \subseteq Direcciones
    /\ mem \in [Direcciones -> Valores]
    /\ fase \in {"libre", "compactar", "compactando", "reintento"}
    /\ pedido \subseteq Pedido
    /\ respuesta \in Respuestas

\* The bits that are set are exactly the cells of segment_0 and of the segments
\* in the tables: no space leaks, none in use is given again.
BitmapExacto == ocupado = Segmento0 \cup UNION {Rango(s) : s \in segs}

\* No two segments share a cell, of one process or of two.
SegmentosDisjuntos ==
    /\ \A s, t \in segs : s # t => Rango(s) \cap Rango(t) = {}
    /\ \A s \in segs : Rango(s) \subseteq Direcciones \ Segmento0

\* When the kernel repeats its CREATE_SEGMENT after the compaction there is a
\* hole for it, whichever algorithm placed the segments and whatever PROCESS_END
\* came in between: execute_create_segment does not recurse for ever.
ReintentoAlcanza ==
    fase = "reintento" => \A q \in pedido : Huecos(ocupado, q.size) # {}

\* The loop of compact_memory ends, under every placement algorithm.
CompactacionTermina == fase = "compactando" ~> fase # "compactando"


Clave(s) == [pid |-> s.pid, id |-> s.id, size |-> s.size]
PorClave(k) == CHOOSE s \in segs : Clave(s) = k

Abs == INSTANCE MemoriaAbs WITH
    procesos  <- ToSet(tablas),
    pausa     <- fase = "compactando",
    contenido <- [k \in {Clave(s) : s \in segs} |->
                    [celda \in 0..(k.size - 1) |-> mem[PorClave(k).base + celda]]]

\* Memoria with addresses, holes and compaction does what memory without them
\* does: a compaction changes nothing that a process can see.
ImplementaAbs == Abs!Spec

=============================================================================
