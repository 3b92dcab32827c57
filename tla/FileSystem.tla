----------------------------- MODULE FileSystem -----------------------------
(***************************************************************************)
(* The filesystem process: FCBs, the bitmap of blocks and the blocks, all  *)
(* three files of the host that outlive the process.  It serves one        *)
(* request of the kernel at a time; a truncation is several steps, because *)
(* the bitmap and the pointer blocks are written (through mmap) as it goes *)
(* and the FCB only at its end, and the process can be stopped in between. *)
(***************************************************************************)
EXTENDS Integers, FiniteSets, SequencesExt

CONSTANTS
    Archivos,     \* file names
    Valores,      \* values of a byte
    BlockSize,    \* BLOCK_SIZE
    BlockCount,   \* BLOCK_COUNT
    Cpb,          \* get_cpb(): pointers that fit in a block
    Tamanios,     \* the sizes F_TRUNCATE asks for
    Accesos,      \* the [puntero, cant] of F_READ and F_WRITE
    Datos,        \* what memoria holds to be written: sequences of values
    CopiaSegura,  \* programs keep to the accesses that are copied right
    CeroDirecto,  \* block 0 is free only for a first block
    HaySitio,     \* programs ask for no more blocks than are free
    FallaMemoria, \* memoria may refuse an address
    Paradas       \* the phases of a truncation in which the process may stop

ASSUME FileSystemAssumption ==
    /\ IsFiniteSet(Archivos)
    /\ 0 \in Valores
    /\ BlockSize \in Nat \ {0} /\ BlockCount \in Nat \ {0} /\ Cpb \in Nat \ {0}
    /\ Tamanios \subseteq Nat
    /\ Accesos \subseteq [puntero : Nat, cant : Nat \ {0}]
    /\ Datos \subseteq Seq(Valores)
    /\ {CopiaSegura, CeroDirecto, HaySitio, FallaMemoria} \subseteq BOOLEAN
    /\ Paradas \subseteq {"crece", "guarda"}

Bloques == 0..(BlockCount - 1)
Punteros == Bloques \cup {-1}     \* -1: obtener_bloque_libre found none
Fcb == [tamanio : Nat, directo : Punteros, indirecto : Punteros]
Vacio == [tamanio |-> 0, directo |-> 0, indirecto |-> 0]
Bytes == 0..(BlockCount * BlockSize - 1)

VARIABLES
    existe,     \* files that have an FCB
    fcb,        \* the FCBs
    bitmap,     \* the bits that are set
    punt,       \* the pointers in each pointer block, up to the first zero
    datos,      \* the data in the blocks
    op,         \* the truncation under way, with its copy of the FCB
    respuesta,  \* the last answer to the kernel, with the request it answers
    paro,       \* the process was stopped in the middle of a truncation
    caida       \* it failed: it wrote outside the mapped blocks or the stream

vars == <<existe, fcb, bitmap, punt, datos, op, respuesta, paro, caida>>
disco == <<existe, fcb, bitmap, punt, datos>>

ninguna == [fase |-> "libre"]
Operacion ==
    [fase : {"crece", "guarda"}, archivo : Archivos, tamanio : Tamanios,
     faltan : Nat, c : Fcb, punteros : Seq(Punteros \ {0})]

Respuesta(codigo) == [codigo |-> codigo]

\* load_bitmap and load_blocks create what is not there, filled with zeros.
Init ==
    /\ existe = {}
    /\ fcb = [f \in Archivos |-> Vacio]
    /\ bitmap = {}
    /\ punt = [b \in Bloques |-> <<>>]
    /\ datos = [a \in Bytes |-> 0]
    /\ op = ninguna
    /\ respuesta = Respuesta("nada")
    /\ paro = FALSE
    /\ caida = FALSE

Libre == op = ninguna /\ ~caida

-----------------------------------------------------------------------------
(* filesystem_calculate.c                                                  *)

CantBloques(tamanio) == (tamanio + BlockSize - 1) \div BlockSize

\* Mutant: the blocks of a size, rounded down.
calculate_additionalBlocksAbajo(c, nuevo) == nuevo \div BlockSize - c.tamanio \div BlockSize

calculate_additionalBlocks(c, nuevo) == CantBloques(nuevo) - CantBloques(c.tamanio)
calculate_freeBlocks(c, nuevo) == CantBloques(c.tamanio) - CantBloques(nuevo)

\* Mutant: the search runs from 1 to BLOCK_COUNT.
obtener_bloque_libreCorrido(ocupados) == Min((1..BlockCount) \ ocupados)

\* The first free block, which the caller's bitmap' must hold.
obtener_bloque_libre(ocupados) ==
    IF Bloques \subseteq ocupados THEN -1 ELSE Min(Bloques \ ocupados)

\* Mutant: the bit of the block that was found is not set.
TomarSinBit(ocupados, b) == ocupados

Tomar(ocupados, b) == ocupados \cup ({b} \ {-1})

\* An indirect pointer of 0 is read as "there is none".
obtenerPunterosIndirectos(c) == IF c.indirecto = 0 THEN <<>> ELSE punt[c.indirecto]

\* Mutant: the last place of the pointer block is not used.
AnotarDeMenos(s, b) == IF b = 0 \/ Len(s) >= Cpb - 1 THEN s ELSE Append(s, b)

\* Storing b after the pointers s.  A zero ends the list; a full array is written
\* one past its end, and nothing of that reaches the block.
Anotar(s, b) == IF b = 0 \/ Len(s) >= Cpb THEN s ELSE Append(s, b)

-----------------------------------------------------------------------------
(* F_OPEN (filesystem_server.c)                                            *)

open_file(f) ==
    /\ Libre
    /\ respuesta' = Respuesta(IF f \in existe THEN "FILE_OPEN" ELSE "FILE_NOT_EXIST")
    /\ UNCHANGED <<disco, op, paro, caida>>

\* The kernel asks for it when F_OPEN found nothing.
create_file(f) ==
    /\ Libre
    /\ f \notin existe
    /\ existe' = existe \cup {f}
    /\ fcb' = [fcb EXCEPT ![f] = Vacio]
    /\ respuesta' = [codigo |-> "FILE_CREATED", archivo |-> f]
    /\ UNCHANGED <<bitmap, punt, datos, op, paro, caida>>

-----------------------------------------------------------------------------
(* F_TRUNCATE                                                              *)

is_greater_than_max_size_file_allowed(n) == n > BlockSize * (1 + Cpb)

Rechazar(codigo) == respuesta' = Respuesta(codigo) /\ UNCHANGED <<disco, op, paro, caida>>

TruncarRechazado(f, n) ==
    /\ Libre
    /\ f \notin existe \/ is_greater_than_max_size_file_allowed(n)
    /\ Rechazar("FILE_NOT_EXISTS")

Empieza(fase, f, n, faltan, c) ==
    op' = [fase |-> fase, archivo |-> f, tamanio |-> n, faltan |-> faltan, c |-> c,
           punteros |-> obtenerPunterosIndirectos(fcb[f])]

\* Blocks that growing by n blocks takes, the pointer block included.
Necesita(c, n) ==
    n + (IF c.indirecto = 0 /\ (n > 1 \/ (n = 1 /\ c.tamanio > 0)) THEN 1 ELSE 0)

\* The file grows: the first block of an empty file is taken at once.
Crecer(f, n) ==
    /\ Libre
    /\ f \in existe /\ ~is_greater_than_max_size_file_allowed(n)
    /\ n > fcb[f].tamanio
    /\ LET c == fcb[f]
           adicionales == calculate_additionalBlocks(c, n)
           primero == adicionales > 0 /\ c.tamanio = 0
           b == obtener_bloque_libre(bitmap)
       IN /\ HaySitio => Cardinality(Bloques \ bitmap) >= Necesita(c, adicionales)
          /\ CeroDirecto => (adicionales = 0 \/ 0 \in bitmap \/ primero)
          /\ bitmap' = IF primero THEN Tomar(bitmap, b) ELSE bitmap
          /\ Empieza("crece", f, n, IF primero THEN adicionales - 1 ELSE adicionales,
                     IF primero THEN [c EXCEPT !.directo = b] ELSE c)
    /\ UNCHANGED <<existe, fcb, punt, datos, respuesta, paro, caida>>

\* One turn of the loop, for a file that has its pointer block already.
TomarIndirecto ==
    /\ op.fase = "crece" /\ op.faltan > 0 /\ ~caida
    /\ op.c.indirecto # 0
    /\ LET b == obtener_bloque_libre(bitmap)
           i == op.c.indirecto
       IN /\ bitmap' = Tomar(bitmap, b)
          /\ punt' = [punt EXCEPT ![i] = Anotar(obtenerPunterosIndirectos(op.c), b)]
    /\ op' = [op EXCEPT !.faltan = @ - 1]
    /\ UNCHANGED <<existe, fcb, datos, respuesta, paro, caida>>

\* The same for one that has none: the pointer block and the first block in it.
\* With no block left the pointer block is the one "before" the mapped file.
CrearIndirecto ==
    /\ op.fase = "crece" /\ op.faltan > 0 /\ ~caida
    /\ op.c.indirecto = 0
    /\ LET i == obtener_bloque_libre(bitmap)
           b == obtener_bloque_libre(Tomar(bitmap, i))
       IN /\ bitmap' = Tomar(Tomar(bitmap, i), b)
          /\ punt' = IF i = -1 THEN punt ELSE [punt EXCEPT ![i] = Anotar(<<>>, b)]
          /\ caida' = (i = -1)
          /\ op' = [op EXCEPT !.faltan = @ - 1, !.c.indirecto = i]
    /\ UNCHANGED <<existe, fcb, datos, respuesta, paro>>

\* The file shrinks: to nothing, to its first block, or by its last blocks.
Achicar(f, n) ==
    /\ Libre
    /\ f \in existe
    /\ n < fcb[f].tamanio
    /\ LET c == fcb[f]
           s == obtenerPunterosIndirectos(c)
           sobran == calculate_freeBlocks(c, n)
           quedan == SubSeq(s, 1, Len(s) - sobran)
       IN IF n = 0
          THEN /\ bitmap' = bitmap \ ({c.directo} \cup ToSet(s)
                                      \cup (IF c.indirecto = 0 THEN {} ELSE {c.indirecto}))
               /\ Empieza("guarda", f, n, 0, Vacio)
               /\ UNCHANGED punt
          ELSE IF c.indirecto # 0 /\ Len(s) = sobran
          THEN /\ bitmap' = bitmap \ (ToSet(s) \cup {c.indirecto})
               /\ Empieza("guarda", f, n, 0, [c EXCEPT !.indirecto = 0])
               /\ UNCHANGED punt
          ELSE IF c.indirecto # 0
          THEN /\ bitmap' = bitmap \ (ToSet(s) \ ToSet(quedan))
               /\ punt' = [punt EXCEPT ![c.indirecto] = quedan]
               /\ Empieza("guarda", f, n, 0, c)
          ELSE /\ Empieza("guarda", f, n, 0, c)
               /\ UNCHANGED <<bitmap, punt>>
    /\ UNCHANGED <<existe, fcb, datos, respuesta, paro, caida>>

Igual(f, n) ==
    /\ Libre
    /\ f \in existe
    /\ n = fcb[f].tamanio
    /\ Empieza("guarda", f, n, 0, fcb[f])
    /\ UNCHANGED <<disco, respuesta, paro, caida>>

update_fcb ==
    /\ ~caida
    /\ op.fase = "guarda" \/ (op.fase = "crece" /\ op.faltan = 0)
    /\ fcb' = [fcb EXCEPT ![op.archivo] = [op.c EXCEPT !.tamanio = op.tamanio]]
    /\ op' = ninguna
    /\ respuesta' = [codigo |-> "FILE_TRUNCATED", archivo |-> op.archivo, tamanio |-> op.tamanio]
    /\ UNCHANGED <<existe, bitmap, punt, datos, paro, caida>>

\* The process stops in the middle and is started again: initialize_filesystem
\* finds the files as they were.
Parar ==
    /\ ~caida
    /\ op.fase \in Paradas
    /\ op' = ninguna
    /\ paro' = TRUE
    /\ respuesta' = Respuesta("nada")
    /\ UNCHANGED <<disco, caida>>

-----------------------------------------------------------------------------
(* F_READ and F_WRITE: the copies between the stream and the blocks        *)

\* How many blocks the code believes an access touches.
BloquesAcceso(puntero, cant) ==
    LET resto == cant % BlockSize
        disponibles == BlockSize - (puntero % BlockSize)
    IN cant \div BlockSize + (IF resto > disponibles THEN 1 ELSE 0)
                           + (IF resto > 0 THEN 1 ELSE 0)

\* block_size < cant_bytes compares an unsigned with an int: a negative cant_bytes
\* is more than any block.
MasDeUnBloque(cant_bytes) == BlockSize < cant_bytes \/ cant_bytes < 0

\* A copy: n bytes between position pos of the stream and offset desde of block
\* number bloque of the file (0 is the direct one).
Copia(bloque, desde, n, pos) ==
    [bloque |-> bloque, desde |-> desde, n |-> n, pos |-> pos]

\* Mutant: the offset in the first block is forgotten.
DesdePrimeroSinOffset(puntero, cant) ==
    IF BloquesAcceso(puntero, cant) = 1
    THEN {Copia(0, 0, cant, 0)}
    ELSE {Copia(0, 0, BlockSize - puntero, 0)}
           \cup {Copia(1, 0, cant - (BlockSize - puntero), BlockSize - puntero)}

\* From the first block: what is left of it, then whole blocks.
DesdePrimero(puntero, cant) ==
    LET disponibles == BlockSize - puntero
        vueltas == BloquesAcceso(puntero, cant) - 1
        hechos[i \in 0..vueltas] ==         \* bytes copied before turn i
            IF i = 0 THEN disponibles
            ELSE IF MasDeUnBloque(cant - hechos[i - 1]) THEN hechos[i - 1] + BlockSize
                                                        ELSE hechos[i - 1]
        copia(i) ==
            LET faltan == cant - hechos[i]
            IN Copia(i + 1, 0, IF MasDeUnBloque(faltan) THEN BlockSize ELSE faltan, hechos[i])
    IN IF vueltas = 0
       THEN {Copia(0, puntero, cant, 0)}
       ELSE {Copia(0, puntero, disponibles, 0)} \cup {copia(i) : i \in 0..(vueltas - 1)}

\* Mutant: cant_bytes compared as a signed number.
DesdeIndirectoConSigno(puntero, cant) ==
    LET vueltas == BloquesAcceso(puntero, cant)
        estado[i \in 0..vueltas] ==
            IF i = 0 THEN [off |-> puntero % BlockSize, pos |-> 0, faltan |-> cant]
            ELSE LET e == estado[i - 1]
                     pos == e.pos + BlockSize - e.off
                 IN IF BlockSize < e.faltan
                    THEN [off |-> 0, pos |-> pos, faltan |-> e.faltan - pos]
                    ELSE e
        copia(i) ==
            LET e == estado[i]
            IN Copia(puntero \div BlockSize + i, e.off,
                     IF BlockSize < e.faltan THEN BlockSize - e.off ELSE e.faltan, e.pos)
    IN {copia(i) : i \in 0..(vueltas - 1)}

\* From a later block.  cant_bytes loses all that was copied so far at every turn,
\* not what this turn copied: it may end below zero.
DesdeIndirecto(puntero, cant) ==
    LET vueltas == BloquesAcceso(puntero, cant)
        estado[i \in 0..vueltas] ==
            IF i = 0 THEN [off |-> puntero % BlockSize, pos |-> 0, faltan |-> cant]
            ELSE LET e == estado[i - 1]
                     pos == e.pos + BlockSize - e.off
                 IN IF MasDeUnBloque(e.faltan)
                    THEN [off |-> 0, pos |-> pos, faltan |-> e.faltan - pos]
                    ELSE e
        copia(i) ==
            LET e == estado[i]
            IN Copia(puntero \div BlockSize + i, e.off,
                     IF MasDeUnBloque(e.faltan) THEN BlockSize - e.off ELSE e.faltan, e.pos)
    IN {copia(i) : i \in 0..(vueltas - 1)}

Copias(puntero, cant) ==
    IF puntero < BlockSize THEN DesdePrimero(puntero, cant) ELSE DesdeIndirecto(puntero, cant)

\* <<position in the stream, block of the file, offset>> of every byte copied.
Movidos(a) ==
    UNION {{<<k.pos + j, k.bloque, k.desde + j>> : j \in 0..(k.n - 1)}
             : k \in Copias(a.puntero, a.cant)}

\* A copy goes past the end of the stream.
Desborda(a) == \E k \in Copias(a.puntero, a.cant) : k.pos + k.n > a.cant

\* What should be copied: byte i of the stream is byte puntero + i of the file.
Debidos(a) ==
    {<<i, (a.puntero + i) \div BlockSize, (a.puntero + i) % BlockSize>> : i \in 0..(a.cant - 1)}

\* The accesses for which that is so (see SeguraEsExacta): the number of blocks is
\* right and, from an indirect block on, there is one or two with more than one
\* block of bytes; or the access ends with a block and cant_bytes, as it shrinks, is
\* never found between zero and a block, so that every turn copies all its block.
Segura(a) ==
    LET n == BloquesAcceso(a.puntero, a.cant)
        faltan[k \in 0..n] ==      \* cant_bytes in turn k
            IF k = 0 THEN a.cant ELSE faltan[k - 1] - (BlockSize * k - (a.puntero % BlockSize))
    IN /\ n = (a.puntero + a.cant - 1) \div BlockSize - (a.puntero \div BlockSize) + 1
       /\ \/ a.puntero < BlockSize \/ n = 1 \/ (n = 2 /\ a.cant > BlockSize)
          \/ /\ (a.puntero + a.cant) % BlockSize = 0
             /\ \A k \in 0..(n - 1) : MasDeUnBloque(faltan[k])

\* Where block k of the file starts on the disk.  Pointers not in use are zero.
Inicio(c, punteros, k) ==
    BlockSize * (IF k = 0 THEN c.directo ELSE IF k <= Len(punteros) THEN punteros[k] ELSE 0)

\* Mutant: pointers counted from the wrong end of the block list, one too far.
EnDiscoCorrido(c, m) == Inicio(c, obtenerPunterosIndirectos(c), m[2] + 1) + m[3]

\* Byte of the disk that an access moves.
EnDisco(c, m) == Inicio(c, obtenerPunterosIndirectos(c), m[2]) + m[3]

\* Where a copy goes past the end of the stream or of the disk, the process may fail
\* or go on.
PuedeCaer(f, a) ==
    Desborda(a) \/ \E m \in Movidos(a) : EnDisco(fcb[f], m) \notin Bytes

\* Of several copies of the same byte the last one stays, that of the highest block.
Ultima(movidos) == CHOOSE m \in movidos : \A n \in movidos : n[2] <= m[2]

Cabe(f, a) == fcb[f].tamanio >= a.puntero + a.cant

AccesoRechazado(f, a) ==
    /\ Libre
    /\ f \notin existe \/ ~Cabe(f, a)
    /\ \E codigo \in {"FILE_NOT_EXISTS", "ERROR"} : Rechazar(codigo)

Acceso(codigo, f, a, s) ==
    [codigo |-> codigo, archivo |-> f, puntero |-> a.puntero, datos |-> s]

\* The stream is sent to memoria.  What no copy filled is what malloc found there.
read_file(f, a) ==
    /\ Libre
    /\ f \in existe /\ Cabe(f, a)
    /\ CopiaSegura => Segura(a)
    /\ LET De(i) == {m \in Movidos(a) : m[1] = i - 1 /\ EnDisco(fcb[f], m) \in Bytes}
           huecos == {i \in 1..a.cant : De(i) = {}}
       IN \E basura \in [huecos -> Valores] :
            respuesta' = Acceso("FILE_READ", f, a,
                [i \in 1..a.cant |-> IF i \in huecos THEN basura[i]
                                     ELSE datos[EnDisco(fcb[f], Ultima(De(i)))]])
    /\ caida' \in {FALSE, PuedeCaer(f, a)}
    /\ UNCHANGED <<disco, op, paro>>

\* Memoria answers that it could not write the stream.
LecturaRechazada(f, a) ==
    /\ Libre
    /\ FallaMemoria
    /\ f \in existe /\ Cabe(f, a)
    /\ Rechazar("FILE_NOT_EXISTS")

\* What is copied from past the end of the stream is what was there.
write_file(f, a, info) ==
    /\ Libre
    /\ Len(info) = a.cant
    /\ f \in existe /\ Cabe(f, a)
    /\ CopiaSegura => Segura(a)
    /\ LET movidos == Movidos(a)
           En(x) == {m \in movidos : EnDisco(fcb[f], m) = x}
       IN \E basura \in [{m[1] : m \in movidos} \ 0..(a.cant - 1) -> Valores] :
            LET Byte(i) == IF i < a.cant THEN info[i + 1] ELSE basura[i]
            IN datos' = [x \in Bytes |-> IF En(x) = {} THEN datos[x] ELSE Byte(Ultima(En(x))[1])]
    /\ respuesta' = Acceso("FILE_WRITTEN", f, a, info)
    /\ caida' \in {FALSE, PuedeCaer(f, a)}
    /\ UNCHANGED <<existe, fcb, bitmap, punt, op, paro>>

\* Memoria answers something else than INFO: nothing is written, and the answer
\* is the same.
EscrituraSinDatos(f, a, info) ==
    /\ Libre
    /\ Len(info) = a.cant
    /\ FallaMemoria
    /\ f \in existe /\ Cabe(f, a)
    /\ respuesta' = Acceso("FILE_WRITTEN", f, a, info)
    /\ UNCHANGED <<disco, op, paro, caida>>

-----------------------------------------------------------------------------
Next ==
    \/ \E f \in Archivos :
         \/ open_file(f) \/ create_file(f)
         \/ \E n \in Tamanios :
              TruncarRechazado(f, n) \/ Crecer(f, n) \/ Achicar(f, n) \/ Igual(f, n)
         \/ \E a \in Accesos :
              \/ AccesoRechazado(f, a) \/ read_file(f, a) \/ LecturaRechazada(f, a)
              \/ \E info \in Datos :
                   write_file(f, a, info) \/ EscrituraSinDatos(f, a, info)
    \/ TomarIndirecto \/ CrearIndirecto \/ update_fcb \/ Parar

Spec == Init /\ [][Next]_vars

-----------------------------------------------------------------------------
(* Properties                                                              *)

TypeOK ==
    /\ existe \subseteq Archivos
    /\ fcb \in [Archivos -> Fcb]
    /\ bitmap \subseteq Bloques
    /\ punt \in [Bloques -> Seq(Punteros \ {0})]
    /\ datos \in [Bytes -> Valores]
    /\ op \in Operacion \cup {ninguna}
    /\ respuesta.codigo \in {"nada", "FILE_OPEN", "FILE_NOT_EXIST", "FILE_NOT_EXISTS", "FILE_CREATED",
                             "FILE_TRUNCATED", "FILE_READ", "FILE_WRITTEN", "ERROR"}
    /\ paro \in BOOLEAN /\ caida \in BOOLEAN

\* The blocks an FCB reaches: the direct one, the pointer block and what it names.
Usados(c) ==
    IF c.tamanio = 0 THEN {}
    ELSE {c.directo} \cup ToSet(obtenerPunterosIndirectos(c))
                     \cup (IF c.indirecto = 0 THEN {} ELSE {c.indirecto})

\* No block has two uses: not in two files, not twice in one, and a block in use
\* is never free.  It holds between any two requests, and after the process was
\* stopped while a file grew.
BloquesExclusivos ==
    op = ninguna =>
        /\ \A f, g \in Archivos : f # g => Usados(fcb[f]) \cap Usados(fcb[g]) = {}
        /\ \A f \in Archivos :
             LET c == fcb[f]  s == obtenerPunterosIndirectos(c) IN
             /\ Usados(c) \subseteq bitmap
             /\ c.tamanio > 0 =>
                  Cardinality(Usados(c)) = 1 + Len(s) + (IF c.indirecto = 0 THEN 0 ELSE 1)

\* A set bit is a block some file uses: growing and shrinking lose no block,
\* unless the process is stopped in the middle.
SinFugas ==
    op = ninguna /\ ~paro => bitmap = UNION {Usados(fcb[f]) : f \in Archivos}

\* A file of n bytes has the blocks for n bytes: F_READ and F_WRITE trust the size.
TamanioCubierto ==
    op = ninguna => \A f \in Archivos :
        LET c == fcb[f]  bloques == 1 + Len(obtenerPunterosIndirectos(c)) IN
        c.tamanio > 0 => /\ bloques >= CantBloques(c.tamanio)
                         /\ ~paro => bloques = CantBloques(c.tamanio)

\* Of the accesses within a file, the arithmetic of F_READ and F_WRITE copies every
\* byte to its place, and no other, exactly for those that Segura describes.
SeguraEsExacta ==
    \A f \in existe : \A a \in [puntero : 0..fcb[f].tamanio, cant : 1..fcb[f].tamanio] :
        Cabe(f, a) => (Segura(a) <=> (~Desborda(a) /\ Movidos(a) = Debidos(a)))

\* The pointers of a file, as they were when the truncation under way began.
PunterosDe(f) ==
    IF op # ninguna /\ op.archivo = f THEN op.punteros ELSE obtenerPunterosIndirectos(fcb[f])

Abs == INSTANCE ArchivosAbs WITH
    contenido <- [f \in existe |->
                    [i \in 1..fcb[f].tamanio |->
                       datos[Inicio(fcb[f], PunterosDe(f), (i - 1) \div BlockSize)
                               + ((i - 1) % BlockSize)]]]

\* With blocks, pointers and copies the filesystem does what files of bytes do.
ImplementaAbs == Abs!Spec

=============================================================================
