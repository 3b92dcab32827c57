-------------------------- MODULE FileSystemProofs --------------------------
(***************************************************************************)
(* Proofs about FileSystem for every block size and count, every number of *)
(* pointers in a block, and any files and sizes: blocks are used once,     *)
(* none is lost, and a file has the blocks of its size, between any two    *)
(* requests and after a stop in the middle of a growth.                    *)
(***************************************************************************)
EXTENDS FileSystem, Listas, FiniteSetTheorems, TLAPS

EnCurso(f) == op # ninguna /\ op.archivo = f

\* The FCB that update_fcb will leave: the copy of the truncation under way for its
\* file, what is on the disk for the others.
Vista == [f \in Archivos |-> IF EnCurso(f) THEN [op.c EXCEPT !.tamanio = op.tamanio] ELSE fcb[f]]

PunterosEn(p, c) == IF c.indirecto = 0 THEN <<>> ELSE p[c.indirecto]
Listado == [f \in Archivos |-> PunterosEn(punt, Vista[f])]

\* The blocks of an FCB c whose pointers are s.
Ocupa(c, s) ==
    IF c.tamanio = 0 THEN {}
    ELSE {c.directo} \cup ToSet(s) \cup (IF c.indirecto = 0 THEN {} ELSE {c.indirecto})

\* No block has two uses in it.
Separado(c, s) ==
    /\ SinRepetidos(s)
    /\ ~Contains(s, c.directo)
    /\ c.indirecto # 0 => c.indirecto # c.directo /\ ~Contains(s, c.indirecto)

\* Files with FCBs v and pointers s, over a bitmap.
Sanos(v, s, bits) ==
    /\ \A f \in Archivos : Ocupa(v[f], s[f]) \subseteq bits
    /\ \A f \in Archivos : v[f].tamanio = 0 => v[f] = Vacio
    /\ \A f \in Archivos : v[f].tamanio # 0 => Separado(v[f], s[f])
    /\ \A f, g \in Archivos : f # g => Ocupa(v[f], s[f]) \cap Ocupa(v[g], s[g]) = {}

\* No bit is set for nothing.
Justos(v, s, bits) == \A b \in bits : \E f \in Archivos : b \in Ocupa(v[f], s[f])

\* Pointers s and pendientes blocks to come are the blocks of a file of that size; more
\* of them only after a stop.
CubreCon(tamanio, s, pendientes, paros) ==
    LET bloques == 1 + Len(s) + pendientes IN
    tamanio > 0 => /\ bloques >= CantBloques(tamanio)
                   /\ ~paros => bloques = CantBloques(tamanio)

Pendientes(f) == IF EnCurso(f) THEN op.faltan ELSE 0
Cubierto(f) == CubreCon(Vista[f].tamanio, Listado[f], Pendientes(f), paro)

\* What a stop in the middle of a growth goes back to: the FCB on the disk is that of
\* an empty file, or reaches some of the blocks that its copy reaches.
Recuperable(p, viejo, nuevo) ==
    \/ viejo = Vacio
    \/ /\ viejo.tamanio > 0
       /\ viejo.directo = nuevo.directo
       /\ viejo.indirecto \in {0, nuevo.indirecto}
       /\ 1 + Len(PunterosEn(p, viejo)) >= CantBloques(viejo.tamanio)

\* A growth under way has the blocks it still has to take, does not look at block 0,
\* and ends within the pointers of a block.
Creciendo ==
    op.fase = "crece" =>
        /\ op.tamanio > 0
        /\ CantBloques(op.tamanio) <= 1 + Cpb
        /\ op.faltan > 0 => 0 \in bitmap
        /\ Cardinality(Bloques \ bitmap) >=
             op.faltan + (IF op.c.indirecto = 0 /\ op.faltan > 0 THEN 1 ELSE 0)
        /\ Recuperable(punt, fcb[op.archivo], op.c)

Bloqueo ==
    /\ Sanos(Vista, Listado, bitmap)
    /\ ~paro => Justos(Vista, Listado, bitmap)
    /\ \A f \in Archivos : Cubierto(f)
    /\ Creciendo
    /\ op.fase = "guarda" => op.faltan = 0
    /\ \A f \in Archivos \ existe : fcb[f] = Vacio
    /\ op # ninguna => op.archivo \in existe

\* The types a step keeps: pointers that are stored are blocks.
FcbEnDisco == [tamanio : Nat, directo : Punteros, indirecto : Bloques]
Tipos ==
    /\ existe \subseteq Archivos
    /\ fcb \in [Archivos -> FcbEnDisco]
    /\ bitmap \subseteq Bloques
    /\ punt \in [Bloques -> Seq(Punteros \ {0})]
    /\ op \in Operacion \cup {ninguna}
    /\ op # ninguna /\ ~caida => op.c \in FcbEnDisco
    /\ paro \in BOOLEAN /\ caida \in BOOLEAN

\* The quotient of calculate_* and of the copies.
LEMMA Division ==
    ASSUME NEW a \in Nat, NEW d \in Nat, d > 0
    PROVE  /\ a \div d \in Nat
           /\ d * (a \div d) <= a
           /\ a < d * (a \div d) + d
  OBVIOUS

\* A larger size has no fewer blocks.
LEMMA DivisionMonotona ==
    ASSUME NEW a \in Nat, NEW b \in Nat, a <= b, NEW d \in Nat, d > 0
    PROVE  a \div d <= b \div d
  <1> DEFINE p == a \div d
             q == b \div d
  <1>1. p \in Nat /\ q \in Nat /\ d * p <= a /\ b < d * q + d
    BY Division
  <1> HIDE DEF p, q
  <1>2. ASSUME p > q PROVE FALSE
    <2>1. p >= q + 1
      BY <1>1, <1>2
    <2>2. d * p >= d * (q + 1)
      BY <1>1, <2>1
    <2>3. d * (q + 1) = d * q + d
      BY <1>1
    <2> QED
      BY <1>1, <2>2, <2>3
  <1> QED
    BY <1>1, <1>2 DEF p, q

\* The sizes of the disk are positive.
LEMMA Constantes ==
    /\ BlockSize \in Nat /\ BlockSize > 0
    /\ Cpb \in Nat /\ Cpb > 0
    /\ BlockCount \in Nat /\ BlockCount > 0
  BY FileSystemAssumption

\* CantBloques is monotone.
LEMMA CantBloquesCrece ==
    ASSUME NEW m \in Nat, NEW n \in Nat, m <= n
    PROVE  CantBloques(m) \in Nat /\ CantBloques(n) \in Nat /\ CantBloques(m) <= CantBloques(n)
  <1>1. m + BlockSize - 1 \in Nat /\ n + BlockSize - 1 \in Nat /\ m + BlockSize - 1 <= n + BlockSize - 1
    BY Constantes
  <1> QED
    BY <1>1, Constantes, Division, DivisionMonotona DEF CantBloques

\* CantBloques at zero, above it, and at the largest size a file may have.
LEMMA CantBloquesBorde ==
    /\ CantBloques(0) = 0
    /\ \A n \in Nat : n > 0 => CantBloques(n) >= 1
    /\ \A n \in Nat : ~is_greater_than_max_size_file_allowed(n) => CantBloques(n) <= 1 + Cpb
  <1>1. CantBloques(0) = 0
    <2> DEFINE q == (BlockSize - 1) \div BlockSize
    <2>1. BlockSize - 1 \in Nat /\ 0 + BlockSize - 1 = BlockSize - 1
      BY Constantes
    <2>2. q \in Nat /\ BlockSize * q <= BlockSize - 1
      BY <2>1, Constantes, Division
    <2> HIDE DEF q
    <2>3. q = 0
      BY <2>2, Constantes
    <2> QED
      BY <2>1, <2>3 DEF CantBloques, q
  <1>2. ASSUME NEW n \in Nat, n > 0 PROVE CantBloques(n) >= 1
    <2> DEFINE q == (n + BlockSize - 1) \div BlockSize
    <2>1. n + BlockSize - 1 \in Nat
      BY Constantes
    <2>2. q \in Nat /\ n + BlockSize - 1 < BlockSize * q + BlockSize
      BY <2>1, Constantes, Division
    <2> HIDE DEF q
    <2>3. q # 0
      BY <1>2, <2>2, Constantes
    <2> QED
      BY <2>2, <2>3 DEF CantBloques, q
  <1>3. ASSUME NEW n \in Nat, ~is_greater_than_max_size_file_allowed(n) PROVE CantBloques(n) <= 1 + Cpb
    <2> DEFINE q == (n + BlockSize - 1) \div BlockSize
    <2>1. n + BlockSize - 1 \in Nat
      BY Constantes
    <2>2. q \in Nat /\ BlockSize * q <= n + BlockSize - 1
      BY <2>1, Constantes, Division
    <2>3. n <= BlockSize * (1 + Cpb)
      BY <1>3, Constantes DEF is_greater_than_max_size_file_allowed
    <2> HIDE DEF q
    <2>4. ASSUME q >= 2 + Cpb PROVE FALSE
      <3>1. BlockSize * q >= BlockSize * (2 + Cpb)
        BY <2>2, <2>4, Constantes
      <3>2. BlockSize * (2 + Cpb) = BlockSize * (1 + Cpb) + BlockSize
        BY Constantes
      <3> QED
        BY <2>2, <2>3, <3>1, <3>2, Constantes
    <2> QED
      BY <2>2, <2>4, Constantes DEF CantBloques, q
  <1> QED
    BY <1>1, <1>2, <1>3

\* The block that obtener_bloque_libre finds is a free one.
LEMMA BloqueLibre ==
    ASSUME NEW o, NEW b, b = obtener_bloque_libre(o)
    PROVE  /\ b \in Punteros
           /\ b = -1 <=> Bloques \subseteq o
           /\ b # -1 => b \in Bloques /\ b \notin o
  <1>1. CASE Bloques \subseteq o
    BY <1>1 DEF obtener_bloque_libre, Punteros, Bloques
  <1>2. CASE ~(Bloques \subseteq o)
    <2>1. Bloques \ o \subseteq Nat /\ Bloques \ o # {}
      BY <1>2 DEF Bloques
    <2>2. \E x \in Bloques \ o : \A y \in Bloques \ o : x <= y
      BY <2>1, MinimoExiste
    <2>3. Min(Bloques \ o) \in Bloques \ o
      BY <2>2 DEF Min
    <2>4. b \in Bloques \ o
      BY <1>2, <2>3 DEF obtener_bloque_libre
    <2>5. b # -1
      BY <2>4 DEF Bloques
    <2> QED
      BY <1>2, <2>4, <2>5 DEF Punteros
  <1> QED
    BY <1>1, <1>2

\* Pointers and their lists, as types.
LEMMA PunterosTipo ==
    /\ 0 \in Bloques /\ 0 \in Punteros /\ Bloques \subseteq Punteros /\ -1 \notin Bloques
    /\ Vacio \in FcbEnDisco /\ FcbEnDisco \subseteq Fcb
  <1>1. 0 \in Bloques /\ 0 \in Punteros /\ Bloques \subseteq Punteros /\ -1 \notin Bloques
    BY Constantes DEF Bloques, Punteros
  <1> QED
    BY <1>1 DEF Vacio, FcbEnDisco, Fcb

\* A pointer that is stored is a block.
LEMMA AnotarTipo ==
    ASSUME NEW s \in Seq(Punteros \ {0}), NEW b \in Punteros
    PROVE  Anotar(s, b) \in Seq(Punteros \ {0})
  BY DEF Anotar

\* The pointers an FCB leads to.
LEMMA PunterosDeTipo ==
    ASSUME Tipos, NEW c \in FcbEnDisco
    PROVE  obtenerPunterosIndirectos(c) \in Seq(Punteros \ {0})
  BY DEF Tipos, obtenerPunterosIndirectos, FcbEnDisco

\* The truncation under way, when there is one.
LEMMA OperacionTipo ==
    ASSUME Tipos
    PROVE  /\ op.fase \in {"crece", "guarda"} <=> op # ninguna
           /\ op # ninguna => op \in Operacion
  BY DEF Tipos, Operacion, ninguna

\* What a step that starts a truncation does to the types.
LEMMA EmpiezaTipo ==
    ASSUME Tipos, NEW fase \in {"crece", "guarda"}, NEW f \in Archivos, NEW n \in Tamanios,
           NEW faltan \in Nat, NEW c \in FcbEnDisco, Empieza(fase, f, n, faltan, c)
    PROVE  /\ op' \in Operacion \cup {ninguna} /\ op' # ninguna /\ op'.c \in FcbEnDisco
           /\ op'.fase = fase /\ op'.archivo = f /\ op'.tamanio = n /\ op'.faltan = faltan /\ op'.c = c
  <1>1. fcb[f] \in FcbEnDisco
    BY DEF Tipos
  <1>2. PICK p \in Seq(Punteros \ {0}) :
          op' = [fase |-> fase, archivo |-> f, tamanio |-> n, faltan |-> faltan, c |-> c, punteros |-> p]
    BY <1>1, PunterosDeTipo DEF Empieza
  <1>3. op'.fase = fase /\ op'.archivo = f /\ op'.tamanio = n /\ op'.faltan = faltan /\ op'.c = c
    BY <1>2
  <1>4. c \in Fcb
    BY PunterosTipo
  <1>5. op' \in Operacion
    BY <1>2, <1>4 DEF Operacion
  <1>6. op' # ninguna
    BY <1>3 DEF ninguna
  <1> QED
    BY <1>3, <1>5, <1>6

\* The start of a growth keeps the types.
LEMMA TiposCrecer ==
    ASSUME Tipos, NEW f \in Archivos, NEW n \in Tamanios, Crecer(f, n)
    PROVE  Tipos'
  <1>1. PICK c : c = fcb[f]
    OBVIOUS
  <1>2. PICK ad : ad = calculate_additionalBlocks(c, n)
    OBVIOUS
  <1>3. PICK b : b = obtener_bloque_libre(bitmap)
    OBVIOUS
  <1>4. c \in FcbEnDisco /\ c.tamanio \in Nat /\ n \in Nat /\ c.tamanio <= n
    <2>1. c \in FcbEnDisco
      BY <1>1 DEF Tipos
    <2>2. n \in Nat
      BY FileSystemAssumption
    <2>3. n > c.tamanio
      BY <1>1 DEF Crecer
    <2> QED
      BY <2>1, <2>2, <2>3 DEF FcbEnDisco
  <1>5. ad \in Nat
    BY <1>2, <1>4, CantBloquesCrece DEF calculate_additionalBlocks
  <1>6. b \in Punteros
    BY <1>3, BloqueLibre
  <1>7. PICK k \in Nat, d \in FcbEnDisco :
          /\ Empieza("crece", f, n, k, d)
          /\ bitmap' \in {bitmap, Tomar(bitmap, b)}
    <2>1. CASE ad > 0 /\ c.tamanio = 0
      <3>1. Empieza("crece", f, n, ad - 1, [c EXCEPT !.directo = b]) /\ bitmap' = Tomar(bitmap, b)
        BY <1>1, <1>2, <1>3, <2>1 DEF Crecer
      <3>2. ad - 1 \in Nat
        BY <1>5, <2>1
      <3>3. [c EXCEPT !.directo = b] \in FcbEnDisco
        BY <1>4, <1>6 DEF FcbEnDisco
      <3> QED
        BY <3>1, <3>2, <3>3
    <2>2. CASE ~(ad > 0 /\ c.tamanio = 0)
      <3>1. Empieza("crece", f, n, ad, c) /\ bitmap' = bitmap
        BY <1>1, <1>2, <1>3, <2>2 DEF Crecer
      <3> QED
        BY <1>4, <1>5, <3>1
    <2> QED
      BY <2>1, <2>2
  <1>8. bitmap' \subseteq Bloques
    BY <1>6, <1>7 DEF Tomar, Punteros, Tipos
  <1>9. op' \in Operacion \cup {ninguna} /\ op'.c \in FcbEnDisco
    BY <1>7, EmpiezaTipo
  <1>10. UNCHANGED <<existe, fcb, punt, paro, caida>>
    BY DEF Crecer
  <1> QED
    BY <1>8, <1>9, <1>10 DEF Tipos, FcbEnDisco, Operacion, Fcb, Punteros, Bloques, ninguna

\* From its parts.
LEMMA TiposPrima ==
    ASSUME existe' \subseteq Archivos, fcb' \in [Archivos -> FcbEnDisco], bitmap' \subseteq Bloques,
           punt' \in [Bloques -> Seq(Punteros \ {0})], op' \in Operacion \cup {ninguna},
           op' # ninguna /\ ~caida' => op'.c \in FcbEnDisco, paro' \in BOOLEAN, caida' \in BOOLEAN
    PROVE  Tipos'
  BY DEF Tipos, FcbEnDisco, Operacion, Fcb, Punteros, Bloques, ninguna

\* One more block in the pointers of the file.
LEMMA TiposTomar ==
    ASSUME Tipos, TomarIndirecto
    PROVE  Tipos'
  <1>1. PICK b : b = obtener_bloque_libre(bitmap)
    OBVIOUS
  <1>2. op \in Operacion /\ op # ninguna /\ op.c \in FcbEnDisco /\ ~caida /\ op.faltan > 0
    BY OperacionTipo DEF TomarIndirecto, Tipos
  <1>3. /\ bitmap' = Tomar(bitmap, b)
        /\ punt' = [punt EXCEPT ![op.c.indirecto] = Anotar(obtenerPunterosIndirectos(op.c), b)]
        /\ op' = [op EXCEPT !.faltan = @ - 1]
        /\ UNCHANGED <<existe, fcb, paro, caida>>
    BY <1>1 DEF TomarIndirecto
  <1>4. b \in Punteros
    BY <1>1, BloqueLibre
  <1>5. bitmap' \subseteq Bloques
    BY <1>3, <1>4 DEF Tomar, Punteros, Tipos
  <1>6. punt' \in [Bloques -> Seq(Punteros \ {0})]
    <2>1. Anotar(obtenerPunterosIndirectos(op.c), b) \in Seq(Punteros \ {0})
      BY <1>2, <1>4, AnotarTipo, PunterosDeTipo
    <2> QED
      BY <1>3, <2>1 DEF Tipos
  <1>7. op' \in Operacion /\ op'.c = op.c
    BY <1>2, <1>3 DEF Operacion
  <1> QED
    BY <1>2, <1>3, <1>5, <1>6, <1>7, TiposPrima DEF Tipos

\* The pointer block and its first pointer.
LEMMA TiposCrear ==
    ASSUME Tipos, CrearIndirecto
    PROVE  Tipos'
  <1>1. PICK i : i = obtener_bloque_libre(bitmap)
    OBVIOUS
  <1>2. PICK b : b = obtener_bloque_libre(Tomar(bitmap, i))
    OBVIOUS
  <1>3. op \in Operacion /\ op # ninguna /\ op.c \in FcbEnDisco /\ ~caida /\ op.faltan > 0
    BY OperacionTipo DEF CrearIndirecto, Tipos
  <1>4. /\ bitmap' = Tomar(Tomar(bitmap, i), b)
        /\ punt' = IF i = -1 THEN punt ELSE [punt EXCEPT ![i] = Anotar(<<>>, b)]
        /\ caida' = (i = -1)
        /\ op' = [op EXCEPT !.faltan = @ - 1, !.c.indirecto = i]
        /\ UNCHANGED <<existe, fcb, paro>>
    BY <1>1, <1>2 DEF CrearIndirecto
  <1>5. i \in Punteros /\ b \in Punteros
    BY <1>1, <1>2, BloqueLibre
  <1>6. bitmap' \subseteq Bloques
    BY <1>4, <1>5 DEF Tomar, Punteros, Tipos
  <1>7. punt' \in [Bloques -> Seq(Punteros \ {0})]
    <2>1. <<>> \in Seq(Punteros \ {0})
      OBVIOUS
    <2>2. Anotar(<<>>, b) \in Seq(Punteros \ {0})
      BY <1>5, <2>1, AnotarTipo
    <2> QED
      BY <1>4, <1>5, <2>2 DEF Tipos
  <1>8. PICK c : c = [op.c EXCEPT !.indirecto = i]
    OBVIOUS
  <1>9. c \in Fcb /\ (i # -1 => c \in FcbEnDisco)
    BY <1>3, <1>5, <1>8 DEF FcbEnDisco, Fcb, Punteros
  <1>10. op'.faltan = op.faltan - 1 /\ op'.c = c /\ op' \in Operacion
    <2>1. op'.faltan = op.faltan - 1 /\ op'.c = c
      BY <1>3, <1>4, <1>8 DEF Operacion
    <2>2. op' = [op EXCEPT !.faltan = op.faltan - 1, !.c = c]
      BY <1>3, <1>4, <1>8 DEF Operacion
    <2>3. op.faltan - 1 \in Nat
      BY <1>3 DEF Operacion
    <2> QED
      BY <1>3, <1>9, <2>1, <2>2, <2>3 DEF Operacion
  <1>11. caida' \in BOOLEAN /\ (~caida' => op'.c \in FcbEnDisco)
    BY <1>4, <1>9, <1>10
  <1> QED
    BY <1>4, <1>6, <1>7, <1>10, <1>11, TiposPrima DEF Tipos

\* The last blocks given back.
LEMMA TiposAchicar ==
    ASSUME Tipos, NEW f \in Archivos, NEW n \in Tamanios, Achicar(f, n)
    PROVE  Tipos'
  <1>1. PICK c : c = fcb[f]
    OBVIOUS
  <1>2. PICK s : s = obtenerPunterosIndirectos(c)
    OBVIOUS
  <1>3. c \in FcbEnDisco /\ s \in Seq(Punteros \ {0})
    BY <1>1, <1>2, PunterosDeTipo DEF Tipos
  <1>4. PICK sobran : sobran = calculate_freeBlocks(c, n)
    OBVIOUS
  <1>5. sobran \in Nat
    <2>1. n \in Nat /\ c.tamanio \in Nat /\ n < c.tamanio
      <3>1. n \in Nat
        BY FileSystemAssumption
      <3> QED
        BY <1>1, <1>3, <3>1 DEF FcbEnDisco, Achicar
    <2>2. CantBloques(n) \in Nat /\ CantBloques(c.tamanio) \in Nat /\ CantBloques(n) <= CantBloques(c.tamanio)
      BY <2>1, CantBloquesCrece
    <2> QED
      BY <1>4, <2>2 DEF calculate_freeBlocks
  <1>6. PICK quedan : quedan = SubSeq(s, 1, Len(s) - sobran)
    OBVIOUS
  <1>7. quedan \in Seq(Punteros \ {0})
    BY <1>3, <1>5, <1>6
  <1>8. UNCHANGED <<existe, fcb, paro, caida>>
    BY DEF Achicar
  <1>9. PICK d \in FcbEnDisco : /\ Empieza("guarda", f, n, 0, d)
                                /\ bitmap' \subseteq bitmap
                                /\ \/ punt' = punt
                                   \/ c.indirecto # 0 /\ punt' = [punt EXCEPT ![c.indirecto] = quedan]
    <2>1. CASE n = 0
      BY <1>1, <1>2, <1>4, <1>6, <2>1, PunterosTipo DEF Achicar
    <2>2. CASE n # 0 /\ c.indirecto # 0 /\ Len(s) = sobran
      <3>1. /\ Empieza("guarda", f, n, 0, [c EXCEPT !.indirecto = 0])
            /\ bitmap' \subseteq bitmap /\ punt' = punt
        BY <1>1, <1>2, <1>4, <1>6, <2>2 DEF Achicar
      <3>2. [c EXCEPT !.indirecto = 0] \in FcbEnDisco
        BY <1>3, PunterosTipo DEF FcbEnDisco
      <3> QED
        BY <3>1, <3>2
    <2>3. CASE n # 0 /\ c.indirecto # 0 /\ Len(s) # sobran
      BY <1>1, <1>2, <1>3, <1>4, <1>6, <2>3 DEF Achicar
    <2>4. CASE n # 0 /\ c.indirecto = 0
      BY <1>1, <1>2, <1>3, <1>4, <1>6, <2>4 DEF Achicar
    <2> QED
      BY <2>1, <2>2, <2>3, <2>4
  <1>10. punt' \in [Bloques -> Seq(Punteros \ {0})]
    BY <1>3, <1>7, <1>9 DEF Tipos, FcbEnDisco
  <1>11. op' \in Operacion \cup {ninguna} /\ op'.c \in FcbEnDisco
    BY <1>9, EmpiezaTipo
  <1> QED
    BY <1>8, <1>9, <1>10, <1>11, TiposPrima DEF Tipos

\* The steps that touch neither blocks nor pointers.
LEMMA TiposIgual ==
    ASSUME Tipos, NEW f \in Archivos, NEW n \in Tamanios, Igual(f, n)
    PROVE  Tipos'
  <1>1. fcb[f] \in FcbEnDisco /\ 0 \in Nat
    BY DEF Tipos
  <1>2. Empieza("guarda", f, n, 0, fcb[f]) /\ UNCHANGED <<disco, paro, caida>>
    BY DEF Igual
  <1>3. op' \in Operacion \cup {ninguna} /\ op'.c \in FcbEnDisco
    BY <1>1, <1>2, EmpiezaTipo
  <1> QED
    BY <1>2, <1>3, TiposPrima DEF Tipos, disco

\* The FCB is written.
LEMMA TiposGuardar ==
    ASSUME Tipos, update_fcb
    PROVE  Tipos'
  <1>1. op \in Operacion /\ op.c \in FcbEnDisco
    BY OperacionTipo DEF update_fcb, Tipos
  <1>2. [op.c EXCEPT !.tamanio = op.tamanio] \in FcbEnDisco
    <2>1. op.tamanio \in Nat
      BY <1>1, FileSystemAssumption DEF Operacion
    <2> QED
      BY <1>1, <2>1 DEF FcbEnDisco
  <1>3. /\ fcb' = [fcb EXCEPT ![op.archivo] = [op.c EXCEPT !.tamanio = op.tamanio]]
        /\ op' = ninguna /\ UNCHANGED <<existe, bitmap, punt, paro, caida>>
    BY DEF update_fcb
  <1>4. fcb' \in [Archivos -> FcbEnDisco]
    BY <1>2, <1>3 DEF Tipos
  <1> QED
    BY <1>3, <1>4, TiposPrima DEF Tipos

\* The rest: F_OPEN, the copies, the refusals and the stop.
LEMMA TiposResto ==
    ASSUME Tipos, existe' \subseteq Archivos, fcb' \in [Archivos -> FcbEnDisco],
           bitmap' = bitmap, punt' = punt, op' \in {op, ninguna}, paro' \in BOOLEAN,
           caida' \in BOOLEAN, caida => caida'
    PROVE  Tipos'
  BY TiposPrima DEF Tipos

\* A step that neither starts nor goes on with a truncation.
Pasiva ==
    \/ \E f \in Archivos :
         \/ open_file(f)
         \/ \E n \in Tamanios : TruncarRechazado(f, n)
         \/ \E a \in Accesos :
              \/ AccesoRechazado(f, a) \/ read_file(f, a) \/ LecturaRechazada(f, a)
              \/ \E info \in Datos : write_file(f, a, info) \/ EscrituraSinDatos(f, a, info)
    \/ UNCHANGED vars

\* It leaves all of the disk but the data, and the truncation under way.
LEMMA PasivaEfecto ==
    ASSUME Tipos, Pasiva
    PROVE  UNCHANGED <<existe, fcb, bitmap, punt, op, paro>> /\ caida' \in BOOLEAN /\ (caida => caida')
  <1>1. CASE \E f \in Archivos : open_file(f) \/ \E n \in Tamanios : TruncarRechazado(f, n)
    BY <1>1 DEF Tipos, open_file, TruncarRechazado, Rechazar, disco
  <1>2. ASSUME NEW f \in Archivos, NEW a \in Accesos,
               AccesoRechazado(f, a) \/ LecturaRechazada(f, a)
               \/ \E info \in Datos : EscrituraSinDatos(f, a, info)
        PROVE  UNCHANGED <<existe, fcb, bitmap, punt, op, paro, caida>>
    BY <1>2 DEF AccesoRechazado, LecturaRechazada, EscrituraSinDatos, Rechazar, disco
  <1>3. ASSUME NEW f \in Archivos, NEW a \in Accesos,
               read_file(f, a) \/ \E info \in Datos : write_file(f, a, info)
        PROVE  /\ UNCHANGED <<existe, fcb, bitmap, punt, op, paro>>
               /\ caida' \in {FALSE, PuedeCaer(f, a)} /\ ~caida
    BY <1>3 DEF read_file, write_file, Libre, disco
  <1>4. \A f \in Archivos, a \in Accesos : PuedeCaer(f, a) \in BOOLEAN
    BY DEF PuedeCaer, Desborda
  <1>5. CASE UNCHANGED vars
    BY <1>5 DEF vars, Tipos
  <1> QED
    BY <1>1, <1>2, <1>3, <1>4, <1>5 DEF Pasiva, Tipos

\* Every step keeps the types, whatever the programs ask for and wherever it stops.
LEMMA NextTipos == Tipos /\ [Next]_vars => Tipos'
  <1> SUFFICES ASSUME Tipos, [Next]_vars PROVE Tipos'
    OBVIOUS
  <1>1. CASE Pasiva
    BY <1>1, PasivaEfecto, TiposResto DEF Tipos
  <1>2. ASSUME NEW f \in Archivos, create_file(f) PROVE Tipos'
    <2>1. fcb' \in [Archivos -> FcbEnDisco]
      BY <1>2, PunterosTipo DEF create_file, Tipos
    <2> QED
      BY <1>2, <2>1, TiposResto DEF create_file, Tipos
  <1>3. ASSUME NEW f \in Archivos, NEW n \in Tamanios, Crecer(f, n) \/ Achicar(f, n) \/ Igual(f, n)
        PROVE  Tipos'
    BY <1>3, TiposCrecer, TiposAchicar, TiposIgual
  <1>4. CASE TomarIndirecto \/ CrearIndirecto \/ update_fcb
    BY <1>4, TiposTomar, TiposCrear, TiposGuardar
  <1>5. CASE Parar
    BY <1>5, TiposResto DEF Parar, Tipos, disco
  <1> QED
    BY <1>1, <1>2, <1>3, <1>4, <1>5 DEF Next, Pasiva

\* An empty disk has the types.
LEMMA InitTipos == Init => Tipos
  BY PunterosTipo DEF Init, Tipos

\* Ocupa, with membership of a list.
LEMMA OcupaDe ==
    ASSUME NEW c, NEW S, NEW s \in Seq(S), NEW b
    PROVE  b \in Ocupa(c, s) <=> /\ c.tamanio # 0
                                 /\ \/ b = c.directo \/ Contains(s, b)
                                    \/ c.indirecto # 0 /\ b = c.indirecto
  <1>1. DOMAIN s = 1..Len(s)
    OBVIOUS
  <1>2. b \in ToSet(s) <=> Contains(s, b)
    BY <1>1 DEF ToSet, Contains
  <1> QED
    BY <1>2 DEF Ocupa

\* Only the file f differs.
Solo(f, v, w) == \A g \in Archivos : g # f => w[g] = v[g]

\* The blocks of a file change: what it uses now it used or was free, and only what it
\* used may be free now.
Cede(antes, ahora, bits, despues) ==
    /\ \A b \in ahora : b \in despues /\ (b \in antes \/ b \notin bits)
    /\ \A b \in bits : b \notin antes => b \in despues

Valido(c, s) == (c.tamanio = 0 => c = Vacio) /\ (c.tamanio # 0 => Separado(c, s))

\* One file changes: what it uses now it used before or nobody did, and the bits of the
\* others stay.
LEMMA CambiaUno ==
    ASSUME NEW v, NEW s, NEW bits, Sanos(v, s, bits), NEW f \in Archivos,
           NEW w, NEW t, Solo(f, v, w), Solo(f, s, t), NEW despues,
           Cede(Ocupa(v[f], s[f]), Ocupa(w[f], t[f]), bits, despues), Valido(w[f], t[f])
    PROVE  Sanos(w, t, despues)
  <1> USE DEF Cede, Valido
  <1>1. \A g \in Archivos : g # f => w[g] = v[g] /\ t[g] = s[g]
    BY DEF Solo
  <1>2. \A g \in Archivos : g # f => Ocupa(w[g], t[g]) = Ocupa(v[g], s[g])
    BY <1>1
  <1>3. \A g \in Archivos : g # f => Ocupa(v[g], s[g]) \cap Ocupa(v[f], s[f]) = {}
                                     /\ Ocupa(v[g], s[g]) \subseteq bits
    BY DEF Sanos
  <1>4. \A g \in Archivos : Ocupa(w[g], t[g]) \subseteq despues
    BY <1>2, <1>3
  <1>5. \A g \in Archivos : w[g].tamanio = 0 => w[g] = Vacio
    BY <1>1 DEF Sanos
  <1>6. \A g \in Archivos : w[g].tamanio # 0 => Separado(w[g], t[g])
    BY <1>1 DEF Sanos
  <1>7. \A g \in Archivos : g # f => Ocupa(w[g], t[g]) \cap Ocupa(w[f], t[f]) = {}
    BY <1>2, <1>3
  <1>8. \A g, h \in Archivos : g # f /\ h # f /\ g # h => Ocupa(w[g], t[g]) \cap Ocupa(w[h], t[h]) = {}
    BY <1>2 DEF Sanos
  <1>9. \A g, h \in Archivos : g # h => Ocupa(w[g], t[g]) \cap Ocupa(w[h], t[h]) = {}
    BY <1>7, <1>8
  <1> QED
    BY <1>4, <1>5, <1>6, <1>9 DEF Sanos

\* And no bit is set for nothing, if what the file no longer uses is free.
LEMMA CambiaJusto ==
    ASSUME NEW v, NEW s, NEW bits, Justos(v, s, bits), NEW f \in Archivos,
           NEW w, NEW t, Solo(f, v, w), Solo(f, s, t), NEW despues,
           \A b \in despues : b \in Ocupa(w[f], t[f]) \/ (b \in bits /\ b \notin Ocupa(v[f], s[f]))
    PROVE  Justos(w, t, despues)
  <1> SUFFICES ASSUME NEW b \in despues PROVE \E g \in Archivos : b \in Ocupa(w[g], t[g])
    BY DEF Justos
  <1>1. CASE b \in Ocupa(w[f], t[f])
    BY <1>1
  <1>2. CASE b \in bits /\ b \notin Ocupa(v[f], s[f])
    <2>1. PICK g \in Archivos : b \in Ocupa(v[g], s[g])
      BY <1>2 DEF Justos
    <2>2. g # f
      BY <1>2, <2>1
    <2>3. w[g] = v[g] /\ t[g] = s[g]
      BY <2>2 DEF Solo
    <2> QED
      BY <2>1, <2>3
  <1> QED
    BY <1>1, <1>2

\* While a block is free, the one that is found is free and afterwards 0 is not.
LEMMA TomarCuenta ==
    ASSUME NEW o, o \subseteq Bloques, NEW b, b = obtener_bloque_libre(o), Cardinality(Bloques \ o) >= 1
    PROVE  /\ b \in Bloques /\ b # -1 /\ b \notin o
           /\ Tomar(o, b) = o \cup {b} /\ Tomar(o, b) \subseteq Bloques
           /\ 0 \in Tomar(o, b)
           /\ Cardinality(Bloques \ o) \in Nat
           /\ Cardinality(Bloques \ Tomar(o, b)) = Cardinality(Bloques \ o) - 1
  <1>1. IsFiniteSet(Bloques \ o)
    <2>1. IsFiniteSet(Bloques)
      <3>1. 0 \in Int /\ BlockCount - 1 \in Int
        BY Constantes
      <3> QED
        BY <3>1, FS_Interval DEF Bloques
    <2> QED
      BY <2>1, FS_Difference
  <1>2. Cardinality(Bloques \ o) \in Nat
    BY <1>1, FS_CardinalityType
  <1>3. ~(Bloques \subseteq o)
    <2>1. Bloques \subseteq o => Bloques \ o = {}
      OBVIOUS
    <2>2. Cardinality({}) = 0
      BY FS_EmptySet
    <2> QED
      BY <2>1, <2>2
  <1>4. b \in Bloques /\ b # -1 /\ b \notin o
    BY <1>3, BloqueLibre
  <1>5. Tomar(o, b) = o \cup {b}
    BY <1>4 DEF Tomar
  <1>6. Bloques \ Tomar(o, b) = (Bloques \ o) \ {b}
    BY <1>5
  <1>7. Cardinality((Bloques \ o) \ {b}) = Cardinality(Bloques \ o) - 1
    BY <1>1, <1>4, FS_RemoveElement
  <1>8. 0 \in Tomar(o, b)
    <2>1. CASE 0 \in o
      BY <1>5, <2>1
    <2>2. CASE 0 \notin o
      <3>1. Bloques \ o \subseteq Nat /\ Bloques \ o # {} /\ 0 \in Bloques \ o
        BY <1>3, <2>2, PunterosTipo DEF Bloques
      <3>2. \E x \in Bloques \ o : \A y \in Bloques \ o : x <= y
        BY <3>1, MinimoExiste
      <3>3. Min(Bloques \ o) \in Bloques \ o /\ \A y \in Bloques \ o : Min(Bloques \ o) <= y
        BY <3>2 DEF Min
      <3>4. Min(Bloques \ o) = 0
        BY <3>1, <3>3
      <3>5. b = 0
        BY <1>3, <3>4 DEF obtener_bloque_libre
      <3> QED
        BY <1>5, <3>5
    <2> QED
      BY <2>1, <2>2
  <1> QED
    BY <1>2, <1>4, <1>5, <1>6, <1>7, <1>8

\* The pointers of the other files are not in the block i, which is f's or free.
LEMMA OtroIndirecto ==
    ASSUME NEW v, NEW bits, NEW f \in Archivos, NEW s, Sanos(v, s, bits),
           NEW i, i \in Ocupa(v[f], s[f]) \/ i \notin bits, NEW g \in Archivos, g # f
    PROVE  v[g].indirecto = 0 \/ v[g].indirecto # i
  <1> SUFFICES ASSUME v[g].indirecto # 0 PROVE v[g].indirecto # i
    OBVIOUS
  <1>1. v[g].tamanio # 0
    <2>1. v[g].tamanio = 0 => v[g] = Vacio
      BY DEF Sanos
    <2> QED
      BY <2>1 DEF Vacio
  <1>2. v[g].indirecto \in Ocupa(v[g], s[g])
    BY <1>1 DEF Ocupa
  <1>3. Ocupa(v[g], s[g]) \subseteq bits /\ Ocupa(v[g], s[g]) \cap Ocupa(v[f], s[f]) = {}
    BY DEF Sanos
  <1> QED
    BY <1>2, <1>3

IInv == Tipos /\ Bloqueo

\* The views, pointwise.
LEMMA Vistas ==
    /\ \A f \in Archivos : Vista[f] = IF EnCurso(f) THEN [op.c EXCEPT !.tamanio = op.tamanio]
                                      ELSE fcb[f]
    /\ \A f \in Archivos : Listado[f] = PunterosEn(punt, Vista[f])
    /\ DOMAIN Vista = Archivos /\ DOMAIN Listado = Archivos
  BY DEF Vista, Listado

\* The same in the next state.
LEMMA VistasPrima ==
    /\ \A f \in Archivos : Vista'[f] = IF EnCurso(f)' THEN [op.c EXCEPT !.tamanio = op.tamanio]'
                                       ELSE fcb'[f]
    /\ \A f \in Archivos : Listado'[f] = PunterosEn(punt', Vista'[f])
    /\ DOMAIN Vista' = Archivos /\ DOMAIN Listado' = Archivos
  BY DEF Vista, Listado, PunterosEn

\* They have the types of what is on the disk.
LEMMA VistaTipo ==
    ASSUME Tipos, ~caida, NEW f \in Archivos
    PROVE  Vista[f] \in FcbEnDisco /\ Listado[f] \in Seq(Punteros \ {0})
  <1>1. Vista[f] \in FcbEnDisco
    <2>1. CASE EnCurso(f)
      <3>1. op \in Operacion /\ op.c \in FcbEnDisco
        BY <2>1, OperacionTipo DEF EnCurso, Tipos
      <3>2. op.tamanio \in Nat
        BY <3>1, FileSystemAssumption DEF Operacion
      <3>3. Vista[f] = [op.c EXCEPT !.tamanio = op.tamanio]
        BY <2>1, Vistas
      <3> QED
        BY <3>1, <3>2, <3>3 DEF FcbEnDisco
    <2>2. CASE ~EnCurso(f)
      BY <2>2, Vistas DEF Tipos
    <2> QED
      BY <2>1, <2>2
  <1>2. PunterosEn(punt, Vista[f]) \in Seq(Punteros \ {0})
    BY <1>1 DEF PunterosEn, Tipos, FcbEnDisco
  <1> QED
    BY <1>1, <1>2, Vistas

\* With no truncation under way the view is the disk.
LEMMA VistaLibre ==
    ASSUME op = ninguna
    PROVE  \A g \in Archivos : /\ Vista[g] = fcb[g] /\ Pendientes(g) = 0 /\ ~EnCurso(g)
                               /\ Listado[g] = PunterosEn(punt, fcb[g])
  BY Vistas DEF EnCurso, Pendientes

\* A truncation starts.
LEMMA VistaEmpieza ==
    ASSUME Tipos, op = ninguna, NEW fase \in {"crece", "guarda"}, NEW f \in Archivos,
           NEW n \in Tamanios, NEW k \in Nat, NEW d \in FcbEnDisco, Empieza(fase, f, n, k, d), fcb' = fcb
    PROVE  /\ Vista'[f] = [d EXCEPT !.tamanio = n] /\ Pendientes(f)' = k
           /\ \A g \in Archivos : g # f => Vista'[g] = Vista[g] /\ Pendientes(g)' = Pendientes(g)
           /\ Solo(f, Vista, Vista')
           /\ op' # ninguna /\ op'.fase = fase /\ op'.archivo = f /\ op'.tamanio = n
           /\ op'.faltan = k /\ op'.c = d
  <1>1. /\ op' # ninguna /\ op'.fase = fase /\ op'.archivo = f /\ op'.tamanio = n
        /\ op'.faltan = k /\ op'.c = d
    BY EmpiezaTipo
  <1>2. EnCurso(f)' /\ \A g \in Archivos : g # f => ~EnCurso(g)'
    BY <1>1 DEF EnCurso, ninguna
  <1>3. Vista'[f] = [d EXCEPT !.tamanio = n] /\ Pendientes(f)' = k
    BY <1>1, <1>2, VistasPrima DEF Pendientes
  <1>4. \A g \in Archivos : g # f => Vista'[g] = Vista[g] /\ Pendientes(g)' = Pendientes(g)
    <2>1. \A g \in Archivos : g # f => Vista'[g] = fcb[g] /\ Pendientes(g)' = 0
      BY <1>2, VistasPrima DEF Pendientes
    <2> QED
      BY <2>1, VistaLibre
  <1> QED
    BY <1>1, <1>3, <1>4 DEF Solo

\* The files that are not touched stay covered.
LEMMA CubiertoOtros ==
    ASSUME NEW f, \A g \in Archivos : Cubierto(g), paro' = paro, Cubierto(f)',
           \A g \in Archivos : g # f => /\ Vista'[g] = Vista[g] /\ Listado'[g] = Listado[g]
                                        /\ Pendientes(g)' = Pendientes(g)
    PROVE  \A g \in Archivos : Cubierto(g)'
  <1> SUFFICES ASSUME NEW g \in Archivos, g # f PROVE Cubierto(g)'
    OBVIOUS
  <1>1. Cubierto(g)' <=> CubreCon(Vista'[g].tamanio, Listado'[g], Pendientes(g)', paro')
    BY DEF Cubierto, CubreCon, CantBloques
  <1>2. Cubierto(g)
    OBVIOUS
  <1> QED
    BY <1>1, <1>2 DEF Cubierto

\* Cubierto in the next state.
LEMMA CubiertoPrima ==
    ASSUME NEW f
    PROVE  Cubierto(f)' <=> CubreCon(Vista'[f].tamanio, Listado'[f], Pendientes(f)', paro')
  BY DEF Cubierto, CubreCon, CantBloques

\* Sanos and Justos over the next state.
LEMMA BloqueoPrima ==
    ASSUME Sanos(Vista', Listado', bitmap'), ~paro' => Justos(Vista', Listado', bitmap'),
           \A f \in Archivos : Cubierto(f)', Creciendo', op'.fase = "guarda" => op'.faltan = 0,
           \A f \in Archivos \ existe' : fcb'[f] = Vacio, op' # ninguna => op'.archivo \in existe'
    PROVE  Bloqueo'
  BY DEF Bloqueo, Sanos, Justos, Ocupa, Separado, Vacio, ninguna

\* Creciendo in the next state.
LEMMA CreciendoPrima ==
    ASSUME op'.fase = "crece" =>
        /\ op'.tamanio > 0
        /\ CantBloques(op'.tamanio) <= 1 + Cpb
        /\ op'.faltan > 0 => 0 \in bitmap'
        /\ Cardinality(Bloques \ bitmap') >=
             op'.faltan + (IF op'.c.indirecto = 0 /\ op'.faltan > 0 THEN 1 ELSE 0)
        /\ Recuperable(punt', fcb'[op'.archivo], op'.c)
    PROVE  Creciendo'
  BY DEF Creciendo, CantBloques, Bloques, Recuperable, PunterosEn, Vacio

\* The file grows.
LEMMA BloqueoCrecer ==
    ASSUME IInv, HaySitio, CeroDirecto, NEW f \in Archivos, NEW n \in Tamanios, Crecer(f, n)
    PROVE  Bloqueo'
  <1> USE DEF IInv
  <1>1. PICK c : c = fcb[f]
    OBVIOUS
  <1>2. PICK ad : ad = calculate_additionalBlocks(c, n)
    OBVIOUS
  <1>3. PICK b : b = obtener_bloque_libre(bitmap)
    OBVIOUS
  <1>4. PICK s : s = Listado[f]
    OBVIOUS
  <1>5. /\ op = ninguna /\ ~caida /\ f \in existe /\ ~is_greater_than_max_size_file_allowed(n)
        /\ n > c.tamanio /\ UNCHANGED <<existe, fcb, punt, paro, caida>>
        /\ Cardinality(Bloques \ bitmap) >= Necesita(c, ad)
        /\ ad = 0 \/ 0 \in bitmap \/ (ad > 0 /\ c.tamanio = 0)
    BY <1>1, <1>2, <1>3 DEF Crecer, Libre
  <1>6. c \in FcbEnDisco /\ c.tamanio \in Nat /\ n \in Nat /\ n > 0
    <2>1. n \in Nat
      BY FileSystemAssumption
    <2>2. c \in FcbEnDisco /\ c.tamanio \in Nat
      BY <1>1 DEF Tipos, FcbEnDisco
    <2> QED
      BY <1>5, <2>1, <2>2
  <1>7. Vista[f] = c /\ s = PunterosEn(punt, c) /\ s \in Seq(Punteros \ {0}) /\ Pendientes(f) = 0
    BY <1>1, <1>4, <1>5, VistaLibre, VistaTipo
  <1>8. /\ ad \in Nat /\ CantBloques(n) \in Nat /\ CantBloques(c.tamanio) \in Nat
        /\ ad = CantBloques(n) - CantBloques(c.tamanio)
    BY <1>2, <1>5, <1>6, CantBloquesCrece DEF calculate_additionalBlocks
  <1>9. CantBloques(n) <= 1 + Cpb /\ CantBloques(n) >= 1
    BY <1>5, <1>6, CantBloquesBorde
  <1>10. IsFiniteSet(Bloques \ bitmap) /\ Cardinality(Bloques \ bitmap) \in Nat
    <2>1. 0 \in Int /\ BlockCount - 1 \in Int
      BY Constantes
    <2>2. IsFiniteSet(Bloques)
      BY <2>1, FS_Interval DEF Bloques
    <2>3. IsFiniteSet(Bloques \ bitmap)
      BY <2>2, FS_Difference
    <2> QED
      BY <2>3, FS_CardinalityType
  <1>11. CubreCon(c.tamanio, s, 0, paro)
    BY <1>4, <1>7 DEF Bloqueo, Cubierto
  <1>12. c.tamanio = 0 => c = Vacio
    BY <1>7 DEF Bloqueo, Sanos
  <1>13. Listado = [g \in Archivos |-> PunterosEn(punt, Vista[g])]
         /\ \A g \in Archivos : Listado'[g] = PunterosEn(punt, Vista'[g])
    BY <1>5, VistasPrima DEF Listado
  <1>14. Len(s) \in Nat
    BY <1>7
  <1>15. CASE c.tamanio = 0
    <2>1. c = Vacio /\ ad = CantBloques(n) /\ ad > 0 /\ s = <<>>
      <3>1. c = Vacio
        BY <1>12, <1>15
      <3>2. s = <<>>
        BY <1>7, <3>1 DEF PunterosEn, Vacio
      <3> QED
        BY <1>8, <1>9, <1>15, <3>1, <3>2, CantBloquesBorde
    <2>2. PICK d : d = [c EXCEPT !.directo = b]
      OBVIOUS
    <2>3. Empieza("crece", f, n, ad - 1, d) /\ bitmap' = Tomar(bitmap, b)
      BY <1>1, <1>2, <1>3, <1>15, <2>1, <2>2 DEF Crecer
    <2>4. Cardinality(Bloques \ bitmap) >= ad + (IF ad > 1 THEN 1 ELSE 0)
      BY <1>5, <1>8, <2>1 DEF Necesita, Vacio
    <2>5. /\ b \in Bloques /\ b # -1 /\ b \notin bitmap
          /\ bitmap' = bitmap \cup {b} /\ 0 \in bitmap'
          /\ Cardinality(Bloques \ bitmap') = Cardinality(Bloques \ bitmap) - 1
      <3>1. Cardinality(Bloques \ bitmap) >= 1
        BY <1>8, <1>10, <2>1, <2>4
      <3>2. bitmap \subseteq Bloques
        BY DEF Tipos
      <3> QED
        BY <1>3, <2>3, <3>1, <3>2, TomarCuenta
    <2>6. d \in FcbEnDisco /\ ad - 1 \in Nat /\ d.indirecto = 0 /\ d.directo = b
      BY <1>6, <1>8, <2>1, <2>2, <2>5, PunterosTipo DEF FcbEnDisco, Vacio
    <2>7. /\ Vista'[f] = [d EXCEPT !.tamanio = n] /\ Pendientes(f)' = ad - 1
          /\ \A g \in Archivos : g # f => Vista'[g] = Vista[g] /\ Pendientes(g)' = Pendientes(g)
          /\ Solo(f, Vista, Vista')
          /\ op' # ninguna /\ op'.fase = "crece" /\ op'.archivo = f /\ op'.tamanio = n
          /\ op'.faltan = ad - 1 /\ op'.c = d
      BY <1>5, <2>3, <2>6, VistaEmpieza
    <2>8. Vista'[f].tamanio = n /\ Vista'[f].directo = b /\ Vista'[f].indirecto = 0
      BY <2>6, <2>7 DEF FcbEnDisco
    <2>9. Listado'[f] = <<>> /\ \A g \in Archivos : g # f => Listado'[g] = Listado[g]
      <3>1. Listado'[f] = PunterosEn(punt, Vista'[f])
        BY <1>13
      <3>2. PunterosEn(punt, Vista'[f]) = <<>>
        BY <2>8 DEF PunterosEn
      <3>3. ASSUME NEW g \in Archivos, g # f PROVE Listado'[g] = Listado[g]
        <4>1. Vista'[g] = Vista[g]
          BY <2>7, <3>3
        <4> QED
          BY <1>13, <4>1
      <3> QED
        BY <3>1, <3>2, <3>3
    <2>10. Ocupa(Vista'[f], Listado'[f]) = {b} /\ Ocupa(Vista[f], Listado[f]) = {}
      BY <1>6, <1>7, <1>15, <2>8, <2>9 DEF Ocupa, ToSet
    <2>11. Separado(Vista'[f], Listado'[f])
      BY <2>8, <2>9 DEF Separado, SinRepetidos, Contains
    <2>12. Sanos(Vista, Listado, bitmap) /\ (~paro => Justos(Vista, Listado, bitmap))
      BY DEF Bloqueo
    <2>13. Solo(f, Listado, Listado')
      BY <2>9 DEF Solo
    <2>14. Sanos(Vista', Listado', bitmap')
      <3>1. Cede(Ocupa(Vista[f], Listado[f]), Ocupa(Vista'[f], Listado'[f]), bitmap, bitmap')
        BY <2>5, <2>10 DEF Cede
      <3>2. Valido(Vista'[f], Listado'[f])
        BY <1>6, <2>8, <2>11 DEF Valido
      <3> QED
        BY <2>7, <2>12, <2>13, <3>1, <3>2, CambiaUno
    <2>15. ~paro' => Justos(Vista', Listado', bitmap')
      BY <1>5, <2>5, <2>7, <2>10, <2>12, <2>13, CambiaJusto
    <2>16. Cubierto(f)'
      <3>1. 1 + Len(<<>>) + (ad - 1) = CantBloques(n)
        BY <1>8, <2>1
      <3>2. CubreCon(n, <<>>, ad - 1, paro')
        BY <1>8, <3>1 DEF CubreCon
      <3> QED
        BY <2>7, <2>8, <2>9, <3>2, CubiertoPrima
    <2>17. \A g \in Archivos : Cubierto(g)'
      BY <1>5, <2>7, <2>9, <2>16, CubiertoOtros DEF Bloqueo
    <2>18. Creciendo'
      <3>1. Cardinality(Bloques \ bitmap') >= (ad - 1) + (IF ad - 1 > 0 THEN 1 ELSE 0)
        BY <1>8, <1>10, <2>4, <2>5
      <3>2. Recuperable(punt', fcb'[f], d)
        BY <1>1, <1>5, <2>1 DEF Recuperable
      <3> QED
        BY <1>6, <1>9, <2>5, <2>6, <2>7, <3>1, <3>2, CreciendoPrima
    <2> QED
      BY <1>5, <2>7, <2>14, <2>15, <2>17, <2>18, BloqueoPrima DEF Bloqueo
  <1>16. CASE c.tamanio # 0
    <2>1. Empieza("crece", f, n, ad, c) /\ bitmap' = bitmap
      BY <1>1, <1>2, <1>3, <1>16 DEF Crecer
    <2>2. /\ Vista'[f] = [c EXCEPT !.tamanio = n] /\ Pendientes(f)' = ad
          /\ \A g \in Archivos : g # f => Vista'[g] = Vista[g] /\ Pendientes(g)' = Pendientes(g)
          /\ Solo(f, Vista, Vista')
          /\ op' # ninguna /\ op'.fase = "crece" /\ op'.archivo = f /\ op'.tamanio = n
          /\ op'.faltan = ad /\ op'.c = c
      BY <1>5, <1>6, <1>8, <2>1, VistaEmpieza
    <2>3. /\ Vista'[f].tamanio = n /\ Vista'[f].directo = c.directo
          /\ Vista'[f].indirecto = c.indirecto
      BY <1>6, <2>2 DEF FcbEnDisco
    <2>4. Listado'[f] = s
      BY <1>7, <1>13, <2>3 DEF PunterosEn
    <2>5. \A g \in Archivos : g # f => Listado'[g] = Listado[g]
      BY <1>13, <2>2
    <2>6. Ocupa(Vista'[f], Listado'[f]) = Ocupa(Vista[f], Listado[f])
      BY <1>4, <1>6, <1>7, <1>16, <2>3, <2>4 DEF Ocupa
    <2>7. Sanos(Vista, Listado, bitmap) /\ (~paro => Justos(Vista, Listado, bitmap))
      BY DEF Bloqueo
    <2>8. Separado(Vista'[f], Listado'[f])
      <3>1. Separado(c, s)
        BY <1>4, <1>7, <1>16, <2>7 DEF Sanos
      <3> QED
        BY <2>3, <2>4, <3>1 DEF Separado
    <2>9. Solo(f, Listado, Listado')
      BY <2>5 DEF Solo
    <2>10. \A x \in Ocupa(Vista[f], Listado[f]) : x \in bitmap
      BY <2>7 DEF Sanos
    <2>11. Sanos(Vista', Listado', bitmap')
      <3>1. Cede(Ocupa(Vista[f], Listado[f]), Ocupa(Vista'[f], Listado'[f]), bitmap, bitmap')
        BY <2>1, <2>6, <2>10 DEF Cede
      <3>2. Valido(Vista'[f], Listado'[f])
        BY <1>6, <2>3, <2>8 DEF Valido
      <3> QED
        BY <2>2, <2>7, <2>9, <3>1, <3>2, CambiaUno
    <2>12. ~paro' => Justos(Vista', Listado', bitmap')
      BY <1>5, <2>1, <2>2, <2>6, <2>7, <2>9, CambiaJusto
    <2>13. Cubierto(f)'
      <3>1. CubreCon(n, s, ad, paro)
        BY <1>6, <1>8, <1>11, <1>14, <1>16 DEF CubreCon
      <3> QED
        BY <1>5, <2>2, <2>3, <2>4, <3>1, CubiertoPrima
    <2>14. \A g \in Archivos : Cubierto(g)'
      BY <1>5, <2>2, <2>5, <2>13, CubiertoOtros DEF Bloqueo
    <2>15. Creciendo'
      <3>1. Cardinality(Bloques \ bitmap') >= ad + (IF c.indirecto = 0 /\ ad > 0 THEN 1 ELSE 0)
        <4>1. Necesita(c, ad) = ad + (IF c.indirecto = 0 /\ ad > 0 THEN 1 ELSE 0)
          BY <1>6, <1>8, <1>16 DEF Necesita
        <4> QED
          BY <1>5, <2>1, <4>1
      <3>2. 1 + Len(s) >= CantBloques(c.tamanio)
        BY <1>6, <1>11, <1>14, <1>16 DEF CubreCon
      <3>3. Recuperable(punt', fcb'[f], c)
        BY <1>1, <1>5, <1>6, <1>7, <1>16, <3>2 DEF Recuperable
      <3>4. ad > 0 => 0 \in bitmap'
        BY <1>5, <1>8, <1>16, <2>1
      <3> QED
        BY <1>6, <1>9, <2>2, <3>1, <3>3, <3>4, CreciendoPrima
    <2> QED
      BY <1>5, <2>2, <2>11, <2>12, <2>14, <2>15, BloqueoPrima DEF Bloqueo
  <1> QED
    BY <1>15, <1>16

\* A turn of the growth leaves the FCBs as they are seen.
LEMMA VistaSigue ==
    ASSUME Tipos, op # ninguna, op' # ninguna, op'.archivo = op.archivo, op'.tamanio = op.tamanio,
           op'.c = op.c, fcb' = fcb
    PROVE  Vista' = Vista /\ \A g \in Archivos : g # op.archivo => Pendientes(g)' = Pendientes(g)
  <1>1. \A g \in Archivos : EnCurso(g)' <=> EnCurso(g)
    BY DEF EnCurso, ninguna
  <1>2. \A g \in Archivos : Vista'[g] = Vista[g]
    BY <1>1, Vistas, VistasPrima
  <1>3. DOMAIN Vista' = Archivos /\ DOMAIN Vista = Archivos
    BY Vistas, VistasPrima
  <1>4. Vista' = Vista
    BY <1>2, <1>3 DEF Vista
  <1>5. \A g \in Archivos : g # op.archivo => Pendientes(g)' = Pendientes(g)
    BY DEF Pendientes, EnCurso, ninguna
  <1> QED
    BY <1>4, <1>5

\* A step that writes the pointer block i of f leaves the pointers of the others.
LEMMA PunterosAjenos ==
    ASSUME Tipos, ~caida, Sanos(Vista, Listado, bitmap), NEW f \in Archivos, NEW i \in Bloques,
           i \in Ocupa(Vista[f], Listado[f]) \/ i \notin bitmap, NEW t, punt' = [punt EXCEPT ![i] = t],
           NEW g \in Archivos, g # f, Vista'[g] = Vista[g]
    PROVE  Listado'[g] = Listado[g]
  <1>1. Vista[g].indirecto = 0 \/ Vista[g].indirecto # i
    BY OtroIndirecto
  <1>2. Vista[g].indirecto \in DOMAIN punt
    BY VistaTipo DEF Tipos, FcbEnDisco
  <1>3. PunterosEn(punt', Vista[g]) = PunterosEn(punt, Vista[g])
    BY <1>1, <1>2 DEF PunterosEn
  <1> QED
    BY <1>3, Vistas, VistasPrima

\* Storing a pointer.
LEMMA AnotarEfecto ==
    ASSUME NEW s \in Seq(Punteros \ {0}), NEW b \in Punteros \ {0}
    PROVE  /\ Len(Anotar(s, b)) \in Nat /\ Len(s) \in Nat
           /\ Anotar(s, b) \in Seq(Punteros \ {0})
           /\ Len(s) < Cpb => Anotar(s, b) = Append(s, b) /\ Len(Anotar(s, b)) = Len(s) + 1
           /\ ~(Len(s) < Cpb) => Anotar(s, b) = s
           /\ Len(Anotar(s, b)) >= Len(s)
  BY Constantes DEF Anotar

\* A turn of the growth of a file that has its pointer block.
LEMMA BloqueoTomar ==
    ASSUME IInv, TomarIndirecto
    PROVE  Bloqueo'
  <1> USE DEF IInv
  <1>1. PICK f : f = op.archivo
    OBVIOUS
  <1>2. PICK i : i = op.c.indirecto
    OBVIOUS
  <1>3. PICK b : b = obtener_bloque_libre(bitmap)
    OBVIOUS
  <1>4. PICK s : s = Listado[f]
    OBVIOUS
  <1>5. /\ op \in Operacion /\ op # ninguna /\ op.c \in FcbEnDisco /\ ~caida /\ op.fase = "crece"
        /\ op.faltan > 0 /\ op.faltan \in Nat /\ i # 0 /\ i \in Bloques /\ f \in Archivos
        /\ op.tamanio \in Nat
    <2>1. op.fase = "crece" /\ ~caida /\ op.faltan > 0 /\ i # 0
      BY <1>2 DEF TomarIndirecto
    <2>2. op \in Operacion /\ op # ninguna /\ op.c \in FcbEnDisco
      BY <2>1, OperacionTipo DEF Tipos
    <2>3. op.tamanio \in Nat
      BY <2>2, FileSystemAssumption DEF Operacion
    <2> QED
      BY <1>1, <1>2, <2>1, <2>2, <2>3 DEF Operacion, FcbEnDisco
  <1>6. /\ Vista[f].tamanio = op.tamanio /\ Vista[f].indirecto = i /\ Vista[f].directo = op.c.directo
        /\ Pendientes(f) = op.faltan
    <2>1. EnCurso(f)
      BY <1>1, <1>5 DEF EnCurso
    <2>2. Vista[f] = [op.c EXCEPT !.tamanio = op.tamanio]
      BY <1>5, <2>1, Vistas
    <2> QED
      BY <1>2, <1>5, <2>1, <2>2 DEF FcbEnDisco, Pendientes
  <1>7. s = punt[i] /\ s \in Seq(Punteros \ {0})
    BY <1>4, <1>5, <1>6, Vistas, VistaTipo DEF PunterosEn
  <1>8. /\ op.tamanio > 0 /\ CantBloques(op.tamanio) <= 1 + Cpb /\ 0 \in bitmap
        /\ Cardinality(Bloques \ bitmap) >= op.faltan
        /\ Recuperable(punt, fcb[f], op.c)
    BY <1>1, <1>2, <1>5 DEF Bloqueo, Creciendo
  <1>9. /\ b \in Bloques /\ b # -1 /\ b \notin bitmap
        /\ Tomar(bitmap, b) = bitmap \cup {b}
        /\ Cardinality(Bloques \ bitmap) \in Nat
        /\ Cardinality(Bloques \ Tomar(bitmap, b)) = Cardinality(Bloques \ bitmap) - 1
    <2>1. Cardinality(Bloques \ bitmap) >= 1
      <3>1. IsFiniteSet(Bloques \ bitmap)
        <4>1. 0 \in Int /\ BlockCount - 1 \in Int
          BY Constantes
        <4>2. IsFiniteSet(Bloques)
          BY <4>1, FS_Interval DEF Bloques
        <4> QED
          BY <4>2, FS_Difference
      <3>2. Cardinality(Bloques \ bitmap) \in Nat
        BY <3>1, FS_CardinalityType
      <3> QED
        BY <1>5, <1>8, <3>2
    <2> QED
      BY <1>3, <2>1, TomarCuenta DEF Tipos
  <1>10. b # 0 /\ b \in Punteros \ {0}
    BY <1>8, <1>9 DEF Punteros
  <1>11. PICK t : t = Anotar(s, b)
    OBVIOUS
  <1>12. /\ bitmap' = bitmap \cup {b} /\ punt' = [punt EXCEPT ![i] = t]
         /\ op' = [op EXCEPT !.faltan = @ - 1] /\ UNCHANGED <<existe, fcb, paro, caida>>
    BY <1>2, <1>3, <1>5, <1>7, <1>9, <1>11 DEF TomarIndirecto, obtenerPunterosIndirectos
  <1>13. /\ op' # ninguna /\ op'.fase = "crece" /\ op'.archivo = f /\ op'.tamanio = op.tamanio
         /\ op'.faltan = op.faltan - 1 /\ op'.c = op.c
    BY <1>1, <1>5, <1>12 DEF Operacion, ninguna
  <1>14. Vista' = Vista /\ \A g \in Archivos : g # f => Pendientes(g)' = Pendientes(g)
    BY <1>1, <1>5, <1>12, <1>13, VistaSigue
  <1>15. Pendientes(f)' = op.faltan - 1
    BY <1>13 DEF Pendientes, EnCurso, ninguna
  <1>16. Sanos(Vista, Listado, bitmap) /\ (~paro => Justos(Vista, Listado, bitmap))
    BY DEF Bloqueo
  <1>17. Ocupa(Vista[f], s) \subseteq bitmap /\ Separado(Vista[f], s)
    BY <1>4, <1>5, <1>6, <1>8, <1>16 DEF Sanos
  <1>18. /\ b # Vista[f].directo /\ b # i /\ ~Contains(s, b) /\ i \in Ocupa(Vista[f], s)
    <2>1. \A x : x \in Ocupa(Vista[f], s) <=> (x = Vista[f].directo \/ Contains(s, x) \/ x = i)
      BY <1>5, <1>6, <1>7, <1>8, OcupaDe
    <2> QED
      BY <1>9, <1>17, <2>1
  <1>19. Listado'[f] = t
    BY <1>5, <1>6, <1>12, <1>14, VistasPrima DEF PunterosEn, Tipos
  <1>20. \A g \in Archivos : g # f => Listado'[g] = Listado[g]
    BY <1>4, <1>5, <1>12, <1>14, <1>16, <1>18, PunterosAjenos
  <1>21. Solo(f, Vista, Vista') /\ Solo(f, Listado, Listado')
    BY <1>14, <1>20 DEF Solo
  <1>22. /\ Len(t) \in Nat /\ Len(s) \in Nat /\ t \in Seq(Punteros \ {0})
         /\ Len(s) < Cpb => t = Append(s, b) /\ Len(t) = Len(s) + 1
         /\ ~(Len(s) < Cpb) => t = s
         /\ Len(t) >= Len(s)
    BY <1>7, <1>10, <1>11, AnotarEfecto
  <1>23. /\ \A x : Contains(t, x) => (Contains(s, x) \/ x = b)
         /\ \A x : Contains(s, x) => Contains(t, x)
         /\ Len(s) < Cpb => Contains(t, b)
         /\ SinRepetidos(t)
    <2>1. CASE Len(s) < Cpb
      <3>1. /\ SinRepetidos(s) /\ ~Contains(s, b) => SinRepetidos(Append(s, b))
            /\ \A x : Contains(Append(s, b), x) <=> (Contains(s, x) \/ x = b)
        BY <1>7, <1>10, DistintaAgrega
      <3>2. SinRepetidos(s) /\ ~Contains(s, b) /\ t = Append(s, b)
        BY <1>17, <1>18, <1>22, <2>1 DEF Separado
      <3> QED
        BY <3>1, <3>2
    <2>2. CASE ~(Len(s) < Cpb)
      BY <1>17, <1>22, <2>2 DEF Separado
    <2> QED
      BY <2>1, <2>2
  <1>24. \A x : x \in Ocupa(Vista[f], s) <=> (x = Vista[f].directo \/ Contains(s, x) \/ x = i)
    BY <1>5, <1>6, <1>7, <1>8, OcupaDe
  <1>25. \A x : x \in Ocupa(Vista[f], t) <=> (x = Vista[f].directo \/ Contains(t, x) \/ x = i)
    BY <1>5, <1>6, <1>8, <1>22, OcupaDe
  <1>26. Separado(Vista[f], t)
    BY <1>6, <1>17, <1>18, <1>23 DEF Separado
  <1>27. Sanos(Vista', Listado', bitmap')
    <2>1. Cede(Ocupa(Vista[f], Listado[f]), Ocupa(Vista'[f], Listado'[f]), bitmap, bitmap')
      BY <1>4, <1>9, <1>12, <1>14, <1>17, <1>19, <1>23, <1>24, <1>25 DEF Cede
    <2>2. Valido(Vista'[f], Listado'[f])
      BY <1>6, <1>8, <1>14, <1>19, <1>26 DEF Valido
    <2> QED
      BY <1>5, <1>16, <1>21, <2>1, <2>2, CambiaUno
  <1>28. CubreCon(op.tamanio, s, op.faltan, paro)
    BY <1>4, <1>5, <1>6 DEF Bloqueo, Cubierto
  <1>29. CubreCon(op.tamanio, t, op.faltan - 1, paro) /\ (~paro => Len(s) < Cpb)
    <2>1. CantBloques(op.tamanio) \in Nat
      BY <1>5, CantBloquesCrece
    <2> QED
      BY <1>5, <1>8, <1>22, <1>28, <2>1, Constantes DEF CubreCon
  <1>30. ~paro' => Justos(Vista', Listado', bitmap')
    <2> SUFFICES ASSUME ~paro PROVE Justos(Vista', Listado', bitmap')
      BY <1>12
    <2>1. Contains(t, b)
      BY <1>23, <1>29
    <2>2. \A x \in bitmap' : \/ x \in Ocupa(Vista'[f], Listado'[f])
                             \/ x \in bitmap /\ x \notin Ocupa(Vista[f], Listado[f])
      BY <1>4, <1>12, <1>14, <1>19, <1>23, <1>24, <1>25, <2>1
    <2> QED
      BY <1>5, <1>16, <1>21, <2>2, CambiaJusto
  <1>31. Cubierto(f)'
    BY <1>6, <1>12, <1>14, <1>15, <1>19, <1>29, CubiertoPrima
  <1>32. \A g \in Archivos : Cubierto(g)'
    BY <1>12, <1>14, <1>20, <1>31, CubiertoOtros DEF Bloqueo
  <1>33. Creciendo'
    <2>1. Recuperable(punt', fcb'[f], op.c)
      <3>1. CASE fcb[f] = Vacio
        BY <1>12, <3>1 DEF Recuperable
      <3>2. CASE fcb[f] # Vacio
        <4>1. fcb[f].indirecto \in {0, i} /\ 1 + Len(PunterosEn(punt, fcb[f])) >= CantBloques(fcb[f].tamanio)
          BY <1>2, <1>8, <3>2 DEF Recuperable
        <4>2. CASE fcb[f].indirecto = 0
          BY <1>8, <1>12, <3>2, <4>1, <4>2 DEF Recuperable, PunterosEn
        <4>3. CASE fcb[f].indirecto = i
          <5>1. PunterosEn(punt, fcb[f]) = s /\ PunterosEn(punt', fcb[f]) = t
            BY <1>5, <1>7, <1>12, <4>3 DEF PunterosEn, Tipos
          <5>2. fcb[f].tamanio \in Nat
            BY <1>5 DEF Tipos, FcbEnDisco
          <5>3. CantBloques(fcb[f].tamanio) \in Nat
            BY <5>2, CantBloquesCrece
          <5>4. 1 + Len(t) >= CantBloques(fcb[f].tamanio)
            BY <1>22, <4>1, <5>1, <5>3
          <5> QED
            BY <1>8, <1>12, <3>2, <5>1, <5>4 DEF Recuperable
        <4> QED
          BY <4>1, <4>2, <4>3
      <3> QED
        BY <3>1, <3>2
    <2>2. Cardinality(Bloques \ bitmap') >= op.faltan - 1
      BY <1>5, <1>8, <1>9, <1>12
    <2> QED
      BY <1>2, <1>5, <1>8, <1>12, <1>13, <2>1, <2>2, CreciendoPrima
  <1> QED
    BY <1>1, <1>5, <1>12, <1>13, <1>27, <1>30, <1>32, <1>33, BloqueoPrima DEF Bloqueo

\* The free blocks can be counted.
LEMMA LibresFinitos ==
    ASSUME NEW o
    PROVE  Cardinality(Bloques \ o) \in Nat
  <1>1. 0 \in Int /\ BlockCount - 1 \in Int
    BY Constantes
  <1>2. IsFiniteSet(Bloques)
    BY <1>1, FS_Interval DEF Bloques
  <1>3. IsFiniteSet(Bloques \ o)
    BY <1>2, FS_Difference
  <1> QED
    BY <1>3, FS_CardinalityType

\* The turn that takes the pointer block and the first block in it.
LEMMA BloqueoCrear ==
    ASSUME IInv, CrearIndirecto
    PROVE  Bloqueo'
  <1> USE DEF IInv
  <1>1. PICK f : f = op.archivo
    OBVIOUS
  <1>2. PICK i : i = obtener_bloque_libre(bitmap)
    OBVIOUS
  <1>3. PICK b : b = obtener_bloque_libre(Tomar(bitmap, i))
    OBVIOUS
  <1>4. /\ op \in Operacion /\ op # ninguna /\ op.c \in FcbEnDisco /\ ~caida /\ op.fase = "crece"
        /\ op.faltan > 0 /\ op.faltan \in Nat /\ op.c.indirecto = 0 /\ f \in Archivos
        /\ op.tamanio \in Nat
    <2>1. op.fase = "crece" /\ ~caida /\ op.faltan > 0 /\ op.c.indirecto = 0
      BY DEF CrearIndirecto
    <2>2. op \in Operacion /\ op # ninguna /\ op.c \in FcbEnDisco
      BY <2>1, OperacionTipo DEF Tipos
    <2>3. op.tamanio \in Nat
      BY <2>2, FileSystemAssumption DEF Operacion
    <2> QED
      BY <1>1, <2>1, <2>2, <2>3 DEF Operacion
  <1>5. /\ Vista[f].tamanio = op.tamanio /\ Vista[f].indirecto = 0 /\ Vista[f].directo = op.c.directo
        /\ Pendientes(f) = op.faltan
    <2>1. EnCurso(f)
      BY <1>1, <1>4 DEF EnCurso
    <2>2. Vista[f] = [op.c EXCEPT !.tamanio = op.tamanio]
      BY <1>4, <2>1, Vistas
    <2> QED
      BY <1>4, <2>1, <2>2 DEF FcbEnDisco, Pendientes
  <1>6. Listado[f] = <<>>
    BY <1>4, <1>5, Vistas DEF PunterosEn
  <1>7. /\ op.tamanio > 0 /\ CantBloques(op.tamanio) <= 1 + Cpb /\ 0 \in bitmap
        /\ Cardinality(Bloques \ bitmap) >= op.faltan + 1
        /\ Recuperable(punt, fcb[f], op.c)
    BY <1>1, <1>4 DEF Bloqueo, Creciendo
  <1>8. PICK medio : medio = Tomar(bitmap, i)
    OBVIOUS
  <1>9. /\ i \in Bloques /\ i # -1 /\ i \notin bitmap
        /\ medio = bitmap \cup {i} /\ medio \subseteq Bloques
        /\ Cardinality(Bloques \ medio) >= op.faltan
        /\ Cardinality(Bloques \ medio) \in Nat
    <2>1. Cardinality(Bloques \ bitmap) \in Nat /\ Cardinality(Bloques \ medio) \in Nat
      BY LibresFinitos
    <2>2. Cardinality(Bloques \ bitmap) >= 1 /\ bitmap \subseteq Bloques
      BY <1>4, <1>7, <2>1 DEF Tipos
    <2>3. /\ i \in Bloques /\ i # -1 /\ i \notin bitmap
          /\ Tomar(bitmap, i) = bitmap \cup {i} /\ Tomar(bitmap, i) \subseteq Bloques
          /\ Cardinality(Bloques \ Tomar(bitmap, i)) = Cardinality(Bloques \ bitmap) - 1
      BY <1>2, <2>2, TomarCuenta
    <2> QED
      BY <1>4, <1>7, <1>8, <2>1, <2>3
  <1>10. /\ b \in Bloques /\ b # -1 /\ b \notin medio
         /\ Tomar(medio, b) = medio \cup {b}
         /\ Cardinality(Bloques \ Tomar(medio, b)) = Cardinality(Bloques \ medio) - 1
    <2>1. Cardinality(Bloques \ medio) >= 1
      BY <1>4, <1>9
    <2>2. b = obtener_bloque_libre(medio)
      BY <1>3, <1>8
    <2> QED
      BY <1>9, <2>1, <2>2, TomarCuenta
  <1>11. i # 0 /\ b # 0 /\ b # i /\ b \in Punteros \ {0} /\ b \notin bitmap
    BY <1>7, <1>9, <1>10 DEF Punteros
  <1>12. PICK t : t = Anotar(<<>>, b)
    OBVIOUS
  <1>13. t = <<b>> /\ t \in Seq(Punteros \ {0}) /\ Len(t) = 1
    <2>1. Len(<<>>) = 0 /\ ~(b = 0 \/ 0 >= Cpb)
      BY <1>11, Constantes
    <2>2. t = Append(<<>>, b)
      BY <1>12, <2>1 DEF Anotar
    <2> QED
      BY <1>11, <2>2
  <1>14. /\ bitmap' = (bitmap \cup {i}) \cup {b} /\ punt' = [punt EXCEPT ![i] = t]
         /\ op' = [op EXCEPT !.faltan = @ - 1, !.c.indirecto = i]
         /\ UNCHANGED <<existe, fcb, paro>>
    BY <1>2, <1>3, <1>8, <1>9, <1>10, <1>12 DEF CrearIndirecto
  <1>15. PICK c : c = [op.c EXCEPT !.indirecto = i]
    OBVIOUS
  <1>16. /\ c \in FcbEnDisco /\ c.indirecto = i /\ c.directo = op.c.directo
    BY <1>4, <1>9, <1>15 DEF FcbEnDisco
  <1>17. /\ op' # ninguna /\ op'.fase = "crece" /\ op'.archivo = f /\ op'.tamanio = op.tamanio
         /\ op'.faltan = op.faltan - 1 /\ op'.c = c
    BY <1>1, <1>4, <1>14, <1>15 DEF Operacion, ninguna
  <1>18. EnCurso(f)' /\ (\A g \in Archivos : g # f => ~EnCurso(g)' /\ ~EnCurso(g))
    BY <1>1, <1>17 DEF EnCurso, ninguna
  <1>19. /\ Vista'[f].tamanio = op.tamanio /\ Vista'[f].indirecto = i
         /\ Vista'[f].directo = op.c.directo /\ Pendientes(f)' = op.faltan - 1
    <2>1. Vista'[f] = [c EXCEPT !.tamanio = op.tamanio]
      BY <1>4, <1>17, <1>18, VistasPrima
    <2> QED
      BY <1>16, <1>17, <1>18, <2>1 DEF FcbEnDisco, Pendientes
  <1>20. \A g \in Archivos : g # f => Vista'[g] = Vista[g] /\ Pendientes(g)' = Pendientes(g)
    BY <1>14, <1>18, Vistas, VistasPrima DEF Pendientes
  <1>21. Sanos(Vista, Listado, bitmap) /\ (~paro => Justos(Vista, Listado, bitmap))
    BY DEF Bloqueo
  <1>22. Listado'[f] = t
    BY <1>4, <1>9, <1>11, <1>14, <1>19, VistasPrima DEF PunterosEn, Tipos
  <1>23. \A g \in Archivos : g # f => Listado'[g] = Listado[g]
    BY <1>4, <1>9, <1>14, <1>20, <1>21, PunterosAjenos
  <1>24. Solo(f, Vista, Vista') /\ Solo(f, Listado, Listado')
    BY <1>20, <1>23 DEF Solo
  <1>25. \A x : x \in Ocupa(Vista[f], Listado[f]) <=> x = op.c.directo
    BY <1>4, <1>5, <1>6, <1>7 DEF Ocupa, ToSet
  <1>26. \A x : Contains(t, x) <=> x = b
    BY <1>13 DEF Contains
  <1>27. \A x : x \in Ocupa(Vista'[f], Listado'[f]) <=> (x = op.c.directo \/ x = b \/ x = i)
    <2>1. PICK v : v = Vista'[f]
      OBVIOUS
    <2>2. v.tamanio # 0 /\ v.directo = op.c.directo /\ v.indirecto = i /\ i # 0
      BY <1>4, <1>7, <1>11, <1>19, <2>1
    <2>3. \A x : x \in Ocupa(v, t) <=> (x = op.c.directo \/ Contains(t, x) \/ x = i)
      BY <1>13, <2>2, OcupaDe
    <2> QED
      BY <1>22, <1>26, <2>1, <2>3
  <1>28. op.c.directo \in bitmap
    BY <1>4, <1>21, <1>25 DEF Sanos
  <1>29. Sanos(Vista', Listado', bitmap')
    <2>1. Cede(Ocupa(Vista[f], Listado[f]), Ocupa(Vista'[f], Listado'[f]), bitmap, bitmap')
      BY <1>9, <1>11, <1>14, <1>25, <1>27, <1>28 DEF Cede
    <2>2. SinRepetidos(t)
      BY <1>13 DEF SinRepetidos
    <2>3. Separado(Vista'[f], Listado'[f])
      BY <1>9, <1>11, <1>19, <1>22, <1>26, <1>28, <2>2 DEF Separado
    <2>4. Valido(Vista'[f], Listado'[f])
      BY <1>4, <1>7, <1>19, <2>3 DEF Valido
    <2> QED
      BY <1>4, <1>21, <1>24, <2>1, <2>4, CambiaUno
  <1>30. ~paro' => Justos(Vista', Listado', bitmap')
    <2>1. \A x \in bitmap' : \/ x \in Ocupa(Vista'[f], Listado'[f])
                             \/ x \in bitmap /\ x \notin Ocupa(Vista[f], Listado[f])
      BY <1>14, <1>25, <1>27
    <2> QED
      BY <1>4, <1>14, <1>21, <1>24, <2>1, CambiaJusto
  <1>31. Cubierto(f)'
    <2>1. CubreCon(op.tamanio, <<>>, op.faltan, paro)
      BY <1>4, <1>5, <1>6 DEF Bloqueo, Cubierto
    <2>2. CantBloques(op.tamanio) \in Nat
      BY <1>4, CantBloquesCrece
    <2>3. CubreCon(op.tamanio, t, op.faltan - 1, paro)
      BY <1>4, <1>13, <2>1, <2>2 DEF CubreCon
    <2> QED
      BY <1>14, <1>19, <1>22, <2>3, CubiertoPrima
  <1>32. \A g \in Archivos : Cubierto(g)'
    BY <1>14, <1>20, <1>23, <1>31, CubiertoOtros DEF Bloqueo
  <1>33. Creciendo'
    <2>1. Recuperable(punt', fcb'[f], c)
      <3>1. CASE fcb[f] = Vacio
        BY <1>14, <3>1 DEF Recuperable
      <3>2. CASE fcb[f] # Vacio
        <4>1. /\ fcb[f].tamanio > 0 /\ fcb[f].directo = op.c.directo /\ fcb[f].indirecto = 0
              /\ 1 + Len(PunterosEn(punt, fcb[f])) >= CantBloques(fcb[f].tamanio)
          BY <1>4, <1>7, <3>2 DEF Recuperable
        <4>2. PunterosEn(punt', fcb[f]) = PunterosEn(punt, fcb[f])
          BY <4>1 DEF PunterosEn
        <4> QED
          BY <1>14, <1>16, <4>1, <4>2 DEF Recuperable
      <3> QED
        BY <3>1, <3>2
    <2>2. Cardinality(Bloques \ bitmap') >= op.faltan - 1
      <3>1. bitmap' = Tomar(medio, b)
        BY <1>9, <1>10, <1>14
      <3>2. Cardinality(Bloques \ bitmap') = Cardinality(Bloques \ medio) - 1
        BY <1>10, <3>1
      <3> QED
        BY <1>4, <1>9, <3>2
    <2> QED
      BY <1>4, <1>7, <1>11, <1>14, <1>16, <1>17, <2>1, <2>2, CreciendoPrima
  <1> QED
    BY <1>1, <1>4, <1>14, <1>17, <1>29, <1>30, <1>32, <1>33, BloqueoPrima DEF Bloqueo

\* The first k elements of a list.
Prefijo(s, k, q) == q = SubSeq(s, 1, k)

\* They are elements of it, and different if its are.
LEMMA PrefijoDe ==
    ASSUME NEW S, NEW s \in Seq(S), NEW k \in 0..Len(s), NEW q, Prefijo(s, k, q)
    PROVE  /\ q \in Seq(S) /\ Len(q) = k
           /\ \A x : Contains(q, x) => Contains(s, x)
           /\ SinRepetidos(s) => SinRepetidos(q)
  <1>1. q \in Seq(S) /\ Len(q) = k /\ \A j \in 1..k : q[j] = s[j] /\ j \in 1..Len(s)
    BY DEF Prefijo
  <1>2. \A x : Contains(q, x) => Contains(s, x)
    BY <1>1 DEF Contains
  <1>3. SinRepetidos(s) => SinRepetidos(q)
    BY <1>1 DEF SinRepetidos
  <1> QED
    BY <1>1, <1>2, <1>3

\* What a list holds, as a set.
LEMMA EnLista ==
    ASSUME NEW S, NEW s \in Seq(S), NEW x
    PROVE  x \in ToSet(s) <=> Contains(s, x)
  <1>1. DOMAIN s = 1..Len(s)
    OBVIOUS
  <1> QED
    BY <1>1 DEF ToSet, Contains

\* A step that starts a "guarda" with an FCB d: what is left to show for the file.
LEMMA BloqueoGuarda ==
    ASSUME IInv, op = ninguna, ~caida, NEW f \in existe, NEW n \in Tamanios, NEW d \in FcbEnDisco,
           Empieza("guarda", f, n, 0, d), UNCHANGED <<existe, fcb, paro>>,
           NEW w, w = [d EXCEPT !.tamanio = n], NEW t, t = PunterosEn(punt', w),
           \A g \in Archivos : g # f /\ Vista'[g] = Vista[g] => Listado'[g] = Listado[g],
           Cede(Ocupa(fcb[f], Listado[f]), Ocupa(w, t), bitmap, bitmap'), Valido(w, t),
           \A x \in bitmap' : x \in Ocupa(w, t) \/ (x \in bitmap /\ x \notin Ocupa(fcb[f], Listado[f])),
           CubreCon(n, t, 0, paro)
    PROVE  Bloqueo'
  <1> USE DEF IInv
  <1>1. f \in Archivos /\ 0 \in Nat
    BY DEF Tipos
  <1>2. /\ Vista'[f] = w /\ Pendientes(f)' = 0
        /\ \A g \in Archivos : g # f => Vista'[g] = Vista[g] /\ Pendientes(g)' = Pendientes(g)
        /\ Solo(f, Vista, Vista')
        /\ op' # ninguna /\ op'.fase = "guarda" /\ op'.archivo = f /\ op'.tamanio = n
        /\ op'.faltan = 0 /\ op'.c = d
    BY <1>1, VistaEmpieza
  <1>3. Listado'[f] = t /\ \A g \in Archivos : g # f => Listado'[g] = Listado[g]
    BY <1>1, <1>2, VistasPrima
  <1>4. Solo(f, Listado, Listado') /\ Vista[f] = fcb[f]
    BY <1>1, <1>3, VistaLibre DEF Solo
  <1>5. Sanos(Vista, Listado, bitmap) /\ (~paro => Justos(Vista, Listado, bitmap))
    BY DEF Bloqueo
  <1>6. /\ Cede(Ocupa(Vista[f], Listado[f]), Ocupa(Vista'[f], Listado'[f]), bitmap, bitmap')
        /\ Valido(Vista'[f], Listado'[f])
    BY <1>2, <1>3, <1>4
  <1>7. Sanos(Vista', Listado', bitmap')
    BY <1>1, <1>2, <1>4, <1>5, <1>6, CambiaUno
  <1>8. ~paro' => Justos(Vista', Listado', bitmap')
    <2>1. \A x \in bitmap' : \/ x \in Ocupa(Vista'[f], Listado'[f])
                             \/ x \in bitmap /\ x \notin Ocupa(Vista[f], Listado[f])
      BY <1>2, <1>3, <1>4
    <2> QED
      BY <1>1, <1>2, <1>4, <1>5, <2>1, CambiaJusto
  <1>9. w.tamanio = n
    BY DEF FcbEnDisco
  <1>10. Cubierto(f)'
    BY <1>2, <1>3, <1>9, CubiertoPrima
  <1>11. \A g \in Archivos : Cubierto(g)'
    BY <1>2, <1>3, <1>10, CubiertoOtros DEF Bloqueo
  <1>12. Creciendo'
    BY <1>2, CreciendoPrima
  <1> QED
    BY <1>2, <1>7, <1>8, <1>11, <1>12, BloqueoPrima DEF Bloqueo

\* The size of the file, before and after.
LEMMA Sobran ==
    ASSUME NEW m \in Nat, NEW n \in Nat, n < m, NEW s, Len(s) \in Nat, NEW p, CubreCon(m, s, 0, p),
           NEW k, k = CantBloques(m) - CantBloques(n)
    PROVE  /\ k \in Nat /\ CantBloques(n) \in Nat
           /\ n > 0 => k <= Len(s) /\ CantBloques(n) <= 1 + Len(s) - k
           /\ n > 0 /\ ~p => CantBloques(n) = 1 + Len(s) - k
  <1>1. CantBloques(n) \in Nat /\ CantBloques(m) \in Nat /\ CantBloques(n) <= CantBloques(m)
    BY CantBloquesCrece
  <1>2. n > 0 => CantBloques(n) >= 1
    BY CantBloquesBorde
  <1>3. 1 + Len(s) >= CantBloques(m) /\ (~p => 1 + Len(s) = CantBloques(m))
    BY DEF CubreCon
  <1> QED
    BY <1>1, <1>2, <1>3

\* The file shrinks.
LEMMA BloqueoAchicar ==
    ASSUME IInv, NEW f \in Archivos, NEW n \in Tamanios, Achicar(f, n)
    PROVE  Bloqueo'
  <1> USE DEF IInv
  <1>1. PICK c : c = fcb[f]
    OBVIOUS
  <1>2. PICK s : s = Listado[f]
    OBVIOUS
  <1>3. /\ op = ninguna /\ ~caida /\ f \in existe /\ n < c.tamanio
        /\ UNCHANGED <<existe, fcb, paro>>
    BY <1>1 DEF Achicar, Libre
  <1>4. c \in FcbEnDisco /\ c.tamanio \in Nat /\ n \in Nat /\ c.tamanio # 0
    <2>1. n \in Nat
      BY FileSystemAssumption
    <2>2. c \in FcbEnDisco /\ c.tamanio \in Nat
      BY <1>1 DEF Tipos, FcbEnDisco
    <2> QED
      BY <1>3, <2>1, <2>2
  <1>5. /\ Vista[f] = c /\ s = PunterosEn(punt, c) /\ s \in Seq(Punteros \ {0}) /\ Len(s) \in Nat
        /\ s = obtenerPunterosIndirectos(c) /\ Pendientes(f) = 0
    <2>1. Vista[f] = c /\ s = PunterosEn(punt, c) /\ Pendientes(f) = 0
      BY <1>1, <1>2, <1>3, VistaLibre
    <2>2. s \in Seq(Punteros \ {0})
      BY <1>2, <1>3, VistaTipo
    <2> QED
      BY <2>1, <2>2 DEF PunterosEn, obtenerPunterosIndirectos
  <1>6. PICK k : k = CantBloques(c.tamanio) - CantBloques(n)
    OBVIOUS
  <1>7. /\ k \in Nat /\ CantBloques(n) \in Nat
        /\ n > 0 => k <= Len(s) /\ CantBloques(n) <= 1 + Len(s) - k
        /\ n > 0 /\ ~paro => CantBloques(n) = 1 + Len(s) - k
    <2>1. CubreCon(c.tamanio, s, 0, paro)
      BY <1>2, <1>5 DEF Bloqueo, Cubierto
    <2> QED
      BY <1>3, <1>4, <1>5, <1>6, <2>1, Sobran
  <1>8. Sanos(Vista, Listado, bitmap) /\ Separado(c, s) /\ Ocupa(c, s) \subseteq bitmap
    BY <1>2, <1>4, <1>5 DEF Bloqueo, Sanos
  <1>9. \A x : x \in Ocupa(c, s) <=> (x = c.directo \/ Contains(s, x) \/ (c.indirecto # 0 /\ x = c.indirecto))
    BY <1>4, <1>5, OcupaDe
  <1>10. \A x : x \in ToSet(s) <=> Contains(s, x)
    BY <1>5, EnLista
  <1>11. /\ ~Contains(s, c.directo) /\ SinRepetidos(s)
         /\ c.indirecto # 0 => c.indirecto # c.directo /\ ~Contains(s, c.indirecto)
    BY <1>8 DEF Separado
  <1>12. ASSUME punt' = punt
         PROVE  \A g \in Archivos : g # f /\ Vista'[g] = Vista[g] => Listado'[g] = Listado[g]
    BY <1>12, Vistas, VistasPrima
  <1>13. Ocupa(c, s) = Ocupa(fcb[f], Listado[f])
    BY <1>1, <1>2
  <1>14. k = calculate_freeBlocks(c, n)
    BY <1>6 DEF calculate_freeBlocks
  <1>15. CASE n = 0
    <2>1. /\ bitmap' = bitmap \ ({c.directo} \cup ToSet(s)
                                 \cup (IF c.indirecto = 0 THEN {} ELSE {c.indirecto}))
          /\ Empieza("guarda", f, n, 0, Vacio) /\ punt' = punt
      BY <1>1, <1>5, <1>15 DEF Achicar
    <2>2. PICK w : w = [Vacio EXCEPT !.tamanio = n]
      OBVIOUS
    <2>3. w = Vacio /\ w.tamanio = 0 /\ w.indirecto = 0 /\ Vacio \in FcbEnDisco
      BY <1>15, <2>2, PunterosTipo DEF Vacio
    <2>4. PICK t : t = PunterosEn(punt', w)
      OBVIOUS
    <2>5. t = <<>> /\ Ocupa(w, t) = {}
      BY <2>3, <2>4 DEF PunterosEn, Ocupa
    <2>6. \A x : x \in bitmap' <=> (x \in bitmap /\ x \notin Ocupa(c, s))
      BY <1>9, <1>10, <2>1
    <2>7. Cede(Ocupa(fcb[f], Listado[f]), Ocupa(w, t), bitmap, bitmap') /\ Valido(w, t)
      BY <1>13, <2>3, <2>5, <2>6 DEF Cede, Valido
    <2>8. CubreCon(n, t, 0, paro)
      BY <1>15 DEF CubreCon
    <2>9. \A x \in bitmap' : x \in Ocupa(w, t) \/ (x \in bitmap /\ x \notin Ocupa(fcb[f], Listado[f]))
      BY <1>13, <2>6
    <2>10. \A g \in Archivos : g # f /\ Vista'[g] = Vista[g] => Listado'[g] = Listado[g]
      BY <1>12, <2>1
    <2> QED
      BY <1>3, <2>1, <2>2, <2>3, <2>4, <2>7, <2>8, <2>9, <2>10, BloqueoGuarda
  <1>16. CASE n # 0 /\ c.indirecto # 0 /\ Len(s) = k
    <2>1. PICK d : d = [c EXCEPT !.indirecto = 0]
      OBVIOUS
    <2>2. /\ bitmap' = bitmap \ (ToSet(s) \cup {c.indirecto})
          /\ Empieza("guarda", f, n, 0, d) /\ punt' = punt
      BY <1>1, <1>5, <1>14, <1>16, <2>1 DEF Achicar
    <2>3. d \in FcbEnDisco /\ d.directo = c.directo /\ d.indirecto = 0
      BY <1>4, <2>1, PunterosTipo DEF FcbEnDisco
    <2>4. PICK w : w = [d EXCEPT !.tamanio = n]
      OBVIOUS
    <2>5. w.tamanio = n /\ w.directo = c.directo /\ w.indirecto = 0
      BY <2>3, <2>4 DEF FcbEnDisco
    <2>6. PICK t : t = PunterosEn(punt', w)
      OBVIOUS
    <2>7. t = <<>>
      BY <2>5, <2>6 DEF PunterosEn
    <2>8. \A x : x \in Ocupa(w, t) <=> x = c.directo
      BY <1>4, <1>16, <2>5, <2>7 DEF Ocupa, ToSet
    <2>9. \A x : x \in bitmap' <=> (x \in bitmap /\ ~Contains(s, x) /\ x # c.indirecto)
      BY <1>10, <2>2
    <2>10. c.directo \in bitmap
      BY <1>8, <1>9
    <2>11. Cede(Ocupa(c, s), Ocupa(w, t), bitmap, bitmap')
      BY <1>9, <1>11, <1>16, <2>8, <2>9, <2>10 DEF Cede
    <2>12. Valido(w, t)
      BY <1>4, <1>16, <2>5, <2>7 DEF Valido, Separado, SinRepetidos, Contains
    <2>13. \A x \in bitmap' : x \in Ocupa(w, t) \/ (x \in bitmap /\ x \notin Ocupa(c, s))
      BY <1>9, <1>16, <2>8, <2>9
    <2>14. CubreCon(n, t, 0, paro)
      <3>1. Len(t) = 0
        BY <2>7
      <3> QED
        BY <1>4, <1>5, <1>7, <1>16, <3>1, CantBloquesBorde DEF CubreCon
    <2>15. \A g \in Archivos : g # f /\ Vista'[g] = Vista[g] => Listado'[g] = Listado[g]
      BY <1>12, <2>2
    <2> QED
      BY <1>3, <1>13, <2>2, <2>3, <2>4, <2>6, <2>11, <2>12, <2>13, <2>14, <2>15, BloqueoGuarda
  <1>17. CASE n # 0 /\ c.indirecto # 0 /\ Len(s) # k
    <2>0. PICK j : j = Len(s) - k
      OBVIOUS
    <2>1. PICK q : q = SubSeq(s, 1, j)
      OBVIOUS
    <2>2. /\ bitmap' = bitmap \ (ToSet(s) \ ToSet(q)) /\ punt' = [punt EXCEPT ![c.indirecto] = q]
          /\ Empieza("guarda", f, n, 0, c)
      BY <1>1, <1>5, <1>14, <1>17, <2>0, <2>1 DEF Achicar
    <2>3. j \in 0..Len(s)
      BY <1>4, <1>5, <1>7, <1>17, <2>0
    <2>4. /\ q \in Seq(Punteros \ {0}) /\ Len(q) = j
          /\ \A x : Contains(q, x) => Contains(s, x)
          /\ SinRepetidos(s) => SinRepetidos(q)
      <3>1. s \in Seq(Punteros \ {0})
        BY <1>5
      <3>2. Prefijo(s, j, q)
        BY <2>1 DEF Prefijo
      <3> QED
        BY <2>3, <3>1, <3>2, PrefijoDe
    <2>5. PICK w : w = [c EXCEPT !.tamanio = n]
      OBVIOUS
    <2>6. w.tamanio = n /\ w.directo = c.directo /\ w.indirecto = c.indirecto /\ c.indirecto \in Bloques
      BY <1>4, <2>5 DEF FcbEnDisco
    <2>7. PICK t : t = PunterosEn(punt', w)
      OBVIOUS
    <2>8. t = q
      BY <1>17, <2>2, <2>6, <2>7 DEF PunterosEn, Tipos
    <2>9. \A x : x \in Ocupa(w, t) <=> (x = c.directo \/ Contains(q, x) \/ x = c.indirecto)
      BY <1>4, <1>17, <2>4, <2>6, <2>8, OcupaDe
    <2>10. \A x : x \in ToSet(q) <=> Contains(q, x)
      BY <2>4, EnLista
    <2>11. \A x : x \in bitmap' <=> (x \in bitmap /\ (Contains(s, x) => Contains(q, x)))
      BY <1>10, <2>2, <2>10
    <2>12. Cede(Ocupa(c, s), Ocupa(w, t), bitmap, bitmap')
      BY <1>8, <1>9, <1>11, <1>17, <2>4, <2>9, <2>11 DEF Cede
    <2>13. Valido(w, t)
      BY <1>4, <1>11, <1>17, <2>4, <2>6, <2>8 DEF Valido, Separado
    <2>14. \A x \in bitmap' : x \in Ocupa(w, t) \/ (x \in bitmap /\ x \notin Ocupa(c, s))
      BY <1>9, <1>17, <2>9, <2>11
    <2>15. CubreCon(n, t, 0, paro)
      BY <1>4, <1>5, <1>7, <1>17, <2>0, <2>4, <2>8 DEF CubreCon
    <2>16. \A g \in Archivos : g # f /\ Vista'[g] = Vista[g] => Listado'[g] = Listado[g]
      <3>1. c.indirecto \in Ocupa(Vista[f], Listado[f])
        BY <1>2, <1>5, <1>9, <1>17
      <3> QED
        BY <1>3, <1>8, <2>2, <2>6, <3>1, PunterosAjenos
    <2>17. Empieza("guarda", f, n, 0, c)
      BY <2>2
    <2> QED
      BY <1>3, <1>4, <1>13, <2>5, <2>7, <2>12, <2>13, <2>14, <2>15, <2>16, <2>17, BloqueoGuarda
  <1>18. CASE n # 0 /\ c.indirecto = 0
    <2>1. bitmap' = bitmap /\ punt' = punt /\ Empieza("guarda", f, n, 0, c)
      BY <1>1, <1>5, <1>18 DEF Achicar
    <2>2. PICK w : w = [c EXCEPT !.tamanio = n]
      OBVIOUS
    <2>3. w.tamanio = n /\ w.directo = c.directo /\ w.indirecto = 0
      BY <1>4, <1>18, <2>2 DEF FcbEnDisco
    <2>4. PICK t : t = PunterosEn(punt', w)
      OBVIOUS
    <2>5. t = s /\ s = <<>>
      BY <1>5, <1>18, <2>3, <2>4 DEF PunterosEn
    <2>6. Ocupa(w, t) = Ocupa(c, s)
      BY <1>4, <1>18, <2>3, <2>5 DEF Ocupa
    <2>7. Cede(Ocupa(c, s), Ocupa(w, t), bitmap, bitmap')
      BY <1>8, <2>1, <2>6 DEF Cede
    <2>8. Valido(w, t)
      BY <1>4, <1>8, <1>18, <2>3, <2>5 DEF Valido, Separado
    <2>9. \A x \in bitmap' : x \in Ocupa(w, t) \/ (x \in bitmap /\ x \notin Ocupa(c, s))
      BY <2>1, <2>6
    <2>10. CubreCon(n, t, 0, paro)
      <3>1. k = 0
        <4>1. Len(s) = 0
          BY <2>5
        <4> QED
          BY <1>4, <1>7, <1>18, <4>1
      <3> QED
        BY <1>4, <1>5, <1>7, <1>18, <2>5, <3>1 DEF CubreCon
    <2>11. \A g \in Archivos : g # f /\ Vista'[g] = Vista[g] => Listado'[g] = Listado[g]
      BY <1>12, <2>1
    <2> QED
      BY <1>3, <1>4, <1>13, <2>1, <2>2, <2>4, <2>7, <2>8, <2>9, <2>10, <2>11, BloqueoGuarda
  <1> QED
    BY <1>15, <1>16, <1>17, <1>18

\* A step that leaves what is seen of every file.
LEMMA BloqueoQuieto ==
    ASSUME IInv, Vista' = Vista, punt' = punt, bitmap' = bitmap, paro' = paro,
           \A g \in Archivos : Pendientes(g)' = Pendientes(g), Creciendo',
           op'.fase = "guarda" => op'.faltan = 0,
           \A f \in Archivos \ existe' : fcb'[f] = Vacio, op' # ninguna => op'.archivo \in existe'
    PROVE  Bloqueo'
  <1>1. Listado' = Listado
    BY DEF Listado
  <1>2. Sanos(Vista', Listado', bitmap') /\ (~paro' => Justos(Vista', Listado', bitmap'))
    BY <1>1 DEF IInv, Bloqueo
  <1>3. ASSUME NEW g \in Archivos PROVE Cubierto(g)'
    BY <1>1, CubiertoPrima DEF IInv, Bloqueo, Cubierto
  <1> QED
    BY <1>2, <1>3, BloqueoPrima

\* F_TRUNCATE to the size the file has.
LEMMA BloqueoIgual ==
    ASSUME IInv, NEW f \in Archivos, NEW n \in Tamanios, Igual(f, n)
    PROVE  Bloqueo'
  <1> USE DEF IInv
  <1>1. /\ op = ninguna /\ ~caida /\ f \in existe /\ n = fcb[f].tamanio
        /\ UNCHANGED <<existe, fcb, bitmap, punt, paro>> /\ Empieza("guarda", f, n, 0, fcb[f])
    BY DEF Igual, Libre, disco
  <1>2. fcb[f] \in FcbEnDisco /\ 0 \in Nat
    BY DEF Tipos
  <1>3. /\ Vista'[f] = [fcb[f] EXCEPT !.tamanio = n] /\ Pendientes(f)' = 0
        /\ \A g \in Archivos : g # f => Vista'[g] = Vista[g] /\ Pendientes(g)' = Pendientes(g)
        /\ op' # ninguna /\ op'.fase = "guarda" /\ op'.archivo = f /\ op'.faltan = 0
    BY <1>1, <1>2, VistaEmpieza
  <1>4. [fcb[f] EXCEPT !.tamanio = n] = fcb[f]
    BY <1>1, <1>2 DEF FcbEnDisco
  <1>5. Vista[f] = fcb[f] /\ Pendientes(f) = 0
    BY <1>1, VistaLibre
  <1>6. \A g \in Archivos : Vista'[g] = Vista[g] /\ Pendientes(g)' = Pendientes(g)
    BY <1>3, <1>4, <1>5
  <1>7. Vista' = Vista
    BY <1>6, Vistas, VistasPrima DEF Vista
  <1>8. Creciendo'
    BY <1>3, CreciendoPrima
  <1> QED
    BY <1>1, <1>3, <1>6, <1>7, <1>8, BloqueoQuieto DEF Bloqueo

\* The FCB on the disk becomes what was seen of it.
LEMMA BloqueoGuardar ==
    ASSUME IInv, update_fcb
    PROVE  Bloqueo'
  <1> USE DEF IInv
  <1>1. PICK f : f = op.archivo
    OBVIOUS
  <1>2. /\ ~caida /\ op # ninguna /\ op \in Operacion /\ f \in Archivos /\ op.faltan = 0 /\ f \in existe
    <2>1. ~caida /\ op.fase \in {"crece", "guarda"}
      BY DEF update_fcb
    <2>2. op # ninguna /\ op \in Operacion
      BY <2>1, OperacionTipo
    <2>3. op.faltan = 0
      BY DEF update_fcb, Bloqueo
    <2> QED
      BY <1>1, <2>1, <2>2, <2>3 DEF Operacion, Bloqueo
  <1>3. /\ fcb' = [fcb EXCEPT ![f] = [op.c EXCEPT !.tamanio = op.tamanio]]
        /\ op' = ninguna /\ UNCHANGED <<existe, bitmap, punt, paro, caida>>
    BY <1>1 DEF update_fcb
  <1>4. EnCurso(f) /\ \A g \in Archivos : ~EnCurso(g)' /\ (g # f => ~EnCurso(g))
    BY <1>1, <1>2, <1>3 DEF EnCurso, ninguna
  <1>5. \A g \in Archivos : Vista'[g] = fcb'[g]
    BY <1>4, VistasPrima
  <1>6. fcb'[f] = Vista[f] /\ \A g \in Archivos : g # f => fcb'[g] = Vista[g]
    BY <1>2, <1>3, <1>4, Vistas DEF Tipos
  <1>7. Vista' = Vista
    BY <1>5, <1>6, Vistas, VistasPrima DEF Vista
  <1>8. \A g \in Archivos : Pendientes(g)' = Pendientes(g)
    BY <1>2, <1>4 DEF Pendientes
  <1>9. op'.fase = "libre"
    BY <1>3 DEF ninguna
  <1>10. Creciendo'
    BY <1>9, CreciendoPrima
  <1>11. \A g \in Archivos \ existe' : fcb'[g] = Vacio
    BY <1>2, <1>3 DEF Bloqueo, Tipos
  <1> QED
    BY <1>3, <1>7, <1>8, <1>9, <1>10, <1>11, BloqueoQuieto

\* After a stop: the file goes back to an FCB that reaches no more than was seen.
LEMMA PararCierra ==
    ASSUME IInv, NEW f \in Archivos, NEW viejo, NEW s, NEW t, s = Listado[f], t = Listado'[f],
           Vista'[f] = viejo, Pendientes(f)' = 0,
           \A g \in Archivos : g # f => Vista'[g] = Vista[g] /\ Pendientes(g)' = Pendientes(g),
           \A g \in Archivos : g # f => Listado'[g] = Listado[g],
           op' = ninguna, paro' = TRUE, UNCHANGED <<existe, fcb, bitmap, punt, caida>>,
           Sanos(Vista, Listado, bitmap), Ocupa(Vista[f], s) \subseteq bitmap,
           Ocupa(viejo, t) \subseteq Ocupa(Vista[f], s), Valido(viejo, t),
           CubreCon(viejo.tamanio, t, 0, TRUE)
    PROVE  Bloqueo'
  <1>1. Solo(f, Vista, Vista') /\ Solo(f, Listado, Listado')
    BY DEF Solo
  <1>2. Cede(Ocupa(Vista[f], Listado[f]), Ocupa(Vista'[f], Listado'[f]), bitmap, bitmap')
    BY DEF Cede
  <1>3. Sanos(Vista', Listado', bitmap')
    BY <1>1, <1>2, CambiaUno
  <1>4. Cubierto(f)'
    BY CubiertoPrima
  <1>5. ASSUME NEW g \in Archivos, g # f PROVE Cubierto(g)'
    <2>1. CubreCon(Vista[g].tamanio, Listado[g], Pendientes(g), paro)
      BY DEF IInv, Bloqueo, Cubierto
    <2>2. CubreCon(Vista[g].tamanio, Listado[g], Pendientes(g), TRUE)
      BY <2>1 DEF CubreCon
    <2> QED
      BY <1>5, <2>2, CubiertoPrima
  <1>6. op'.fase = "libre"
    BY DEF ninguna
  <1>7. Creciendo'
    BY <1>6, CreciendoPrima
  <1> QED
    BY <1>3, <1>4, <1>5, <1>6, <1>7, BloqueoPrima DEF IInv, Bloqueo

\* The process stops in the middle of a growth: the file is what it was, and the blocks
\* it had taken are lost.
LEMMA BloqueoParar ==
    ASSUME IInv, "guarda" \notin Paradas, Parar
    PROVE  Bloqueo'
  <1> USE DEF IInv
  <1>1. PICK f : f = op.archivo
    OBVIOUS
  <1>2. /\ ~caida /\ op # ninguna /\ op \in Operacion /\ op.fase = "crece" /\ f \in Archivos
        /\ op.c \in FcbEnDisco /\ op.tamanio \in Nat
    <2>1. ~caida /\ op.fase \in Paradas
      BY DEF Parar
    <2>2. op.fase = "crece"
      BY <2>1, FileSystemAssumption
    <2>3. op # ninguna /\ op \in Operacion
      BY <2>2, OperacionTipo
    <2>4. op.tamanio \in Nat
      BY <2>3, FileSystemAssumption DEF Operacion
    <2> QED
      BY <1>1, <2>1, <2>2, <2>3, <2>4 DEF Operacion, Tipos
  <1>3. op' = ninguna /\ paro' = TRUE /\ UNCHANGED <<existe, fcb, bitmap, punt, caida>>
    BY DEF Parar, disco
  <1>4. PICK viejo : viejo = fcb[f]
    OBVIOUS
  <1>5. op.tamanio > 0 /\ Recuperable(punt, viejo, op.c) /\ viejo \in FcbEnDisco
    BY <1>1, <1>2, <1>4 DEF Bloqueo, Creciendo, Tipos
  <1>6. EnCurso(f) /\ \A g \in Archivos : ~EnCurso(g)' /\ (g # f => ~EnCurso(g))
    BY <1>1, <1>2, <1>3 DEF EnCurso, ninguna
  <1>7. /\ Vista'[f] = viejo /\ Pendientes(f)' = 0
        /\ \A g \in Archivos : g # f => Vista'[g] = Vista[g] /\ Pendientes(g)' = Pendientes(g)
    BY <1>2, <1>3, <1>4, <1>6, Vistas, VistasPrima DEF Pendientes
  <1>8. /\ Vista[f].tamanio = op.tamanio /\ Vista[f].indirecto = op.c.indirecto
        /\ Vista[f].directo = op.c.directo
    <2>1. Vista[f] = [op.c EXCEPT !.tamanio = op.tamanio]
      BY <1>2, <1>6, Vistas
    <2> QED
      BY <1>2, <2>1 DEF FcbEnDisco
  <1>9. \A g \in Archivos : g # f => Listado'[g] = Listado[g]
    BY <1>3, <1>7, Vistas, VistasPrima
  <1>10. PICK s, t : s = Listado[f] /\ t = Listado'[f]
    OBVIOUS
  <1>11. /\ s = PunterosEn(punt, Vista[f]) /\ t = PunterosEn(punt, viejo)
         /\ s \in Seq(Punteros \ {0}) /\ t \in Seq(Punteros \ {0})
    <2>1. s = PunterosEn(punt, Vista[f]) /\ t = PunterosEn(punt, viejo)
      BY <1>2, <1>3, <1>7, <1>10, Vistas, VistasPrima
    <2>2. s \in Seq(Punteros \ {0})
      BY <1>2, <1>10, VistaTipo
    <2>3. t \in Seq(Punteros \ {0})
      BY <1>5, <2>1 DEF PunterosEn, Tipos, FcbEnDisco
    <2> QED
      BY <2>1, <2>2, <2>3
  <1>12. Sanos(Vista, Listado, bitmap)
    BY DEF Bloqueo
  <1>13. Ocupa(Vista[f], s) \subseteq bitmap /\ Separado(Vista[f], s)
    BY <1>2, <1>5, <1>8, <1>10, <1>12 DEF Sanos
  <1>14. \A x : x \in Ocupa(Vista[f], s) <=>
                  (x = op.c.directo \/ Contains(s, x) \/ (op.c.indirecto # 0 /\ x = op.c.indirecto))
    BY <1>2, <1>5, <1>8, <1>11, OcupaDe
  <1>15. CASE viejo = Vacio
    <2>1. Ocupa(viejo, t) = {} /\ Valido(viejo, t)
      BY <1>15 DEF Ocupa, Valido, Vacio
    <2>2. Ocupa(viejo, t) \subseteq Ocupa(Vista[f], s) /\ Valido(viejo, t)
      BY <2>1
    <2>3. CubreCon(viejo.tamanio, t, 0, TRUE)
      BY <1>15 DEF CubreCon, Vacio
    <2> QED
      BY <1>2, <1>3, <1>7, <1>9, <1>10, <1>12, <1>13, <2>2, <2>3, PararCierra
  <1>16. CASE viejo # Vacio
    <2>1. /\ viejo.tamanio > 0 /\ viejo.directo = op.c.directo
          /\ viejo.indirecto \in {0, op.c.indirecto}
          /\ 1 + Len(t) >= CantBloques(viejo.tamanio)
      BY <1>5, <1>11, <1>16 DEF Recuperable
    <2>2. viejo.tamanio \in Nat /\ viejo.tamanio # 0 /\ Len(t) \in Nat
      BY <1>5, <1>11, <2>1 DEF FcbEnDisco
    <2>3. CASE viejo.indirecto = 0
      <3>1. t = <<>>
        BY <1>11, <2>3 DEF PunterosEn
      <3>2. \A x : x \in Ocupa(viejo, t) <=> x = op.c.directo
        BY <2>1, <2>2, <2>3, <3>1 DEF Ocupa, ToSet
      <3>3. Valido(viejo, t)
        BY <2>2, <2>3, <3>1 DEF Valido, Separado, SinRepetidos, Contains
      <3>4. Ocupa(viejo, t) \subseteq Ocupa(Vista[f], s)
        BY <1>14, <3>2
      <3>5. CubreCon(viejo.tamanio, t, 0, TRUE)
        BY <2>1, <2>2, CantBloquesCrece DEF CubreCon
      <3> QED
        BY <1>2, <1>3, <1>7, <1>9, <1>10, <1>12, <1>13, <3>3, <3>4, <3>5, PararCierra
    <2>4. CASE viejo.indirecto # 0
      <3>1. viejo.indirecto = op.c.indirecto /\ t = s
        BY <1>8, <1>11, <2>1, <2>4 DEF PunterosEn
      <3>2. \A x : x \in Ocupa(viejo, t) <=>
                     (x = op.c.directo \/ Contains(s, x) \/ (op.c.indirecto # 0 /\ x = op.c.indirecto))
        BY <1>11, <2>1, <2>2, <3>1, OcupaDe
      <3>3. Valido(viejo, t)
        BY <1>8, <1>13, <2>1, <2>2, <3>1 DEF Valido, Separado
      <3>4. Ocupa(viejo, t) \subseteq Ocupa(Vista[f], s)
        BY <1>14, <3>2
      <3>5. CubreCon(viejo.tamanio, t, 0, TRUE)
        BY <2>1, <2>2, CantBloquesCrece DEF CubreCon
      <3> QED
        BY <1>2, <1>3, <1>7, <1>9, <1>10, <1>12, <1>13, <3>3, <3>4, <3>5, PararCierra
    <2> QED
      BY <2>3, <2>4
  <1> QED
    BY <1>15, <1>16

\* A request that changes no FCB, bit or pointer.
LEMMA BloqueoPasiva ==
    ASSUME IInv, Pasiva
    PROVE  Bloqueo'
  <1> USE DEF IInv
  <1>1. UNCHANGED <<existe, fcb, bitmap, punt, op, paro>>
    BY PasivaEfecto
  <1>2. Vista' = Vista
    BY <1>1 DEF Vista, EnCurso
  <1>3. \A g \in Archivos : Pendientes(g)' = Pendientes(g)
    BY <1>1 DEF Pendientes, EnCurso
  <1>4. Creciendo'
    BY <1>1, CreciendoPrima DEF Bloqueo, Creciendo
  <1> QED
    BY <1>1, <1>2, <1>3, <1>4, BloqueoQuieto DEF Bloqueo

\* F_CREATE: a file that was not there had no FCB.
LEMMA BloqueoCreado ==
    ASSUME IInv, NEW f \in Archivos, create_file(f)
    PROVE  Bloqueo'
  <1> USE DEF IInv
  <1>1. /\ f \notin existe /\ op = ninguna /\ existe' = existe \cup {f}
        /\ fcb' = [fcb EXCEPT ![f] = Vacio] /\ UNCHANGED <<bitmap, punt, op, paro>>
    BY DEF create_file, Libre
  <1>2. fcb[f] = Vacio
    BY <1>1 DEF Bloqueo
  <1>3. fcb' = fcb
    BY <1>1, <1>2 DEF Tipos
  <1>4. Vista' = Vista
    BY <1>1, <1>3 DEF Vista, EnCurso
  <1>5. \A g \in Archivos : Pendientes(g)' = Pendientes(g)
    BY <1>1 DEF Pendientes, EnCurso
  <1>6. op'.fase = "libre"
    BY <1>1 DEF ninguna
  <1>7. Creciendo'
    BY <1>6, CreciendoPrima
  <1>8. \A g \in Archivos \ existe' : fcb'[g] = Vacio
    BY <1>1, <1>3 DEF Bloqueo
  <1> QED
    BY <1>1, <1>4, <1>5, <1>6, <1>7, <1>8, BloqueoQuieto

\* Programs find the blocks they ask for, and block 0 is the first block of a file.
Holgado == HaySitio /\ CeroDirecto

\* Every step keeps the invariant, but for a stop when only the FCB is to be written.
LEMMA NextBloqueo ==
    ASSUME Holgado, IInv, [Next]_vars
    PROVE  IInv' \/ (Parar /\ "guarda" \in Paradas)
  <1> SUFFICES ASSUME ~(Parar /\ "guarda" \in Paradas) PROVE Bloqueo'
    BY NextTipos DEF IInv
  <1> USE DEF Holgado
  <1>1. CASE Pasiva
    BY <1>1, BloqueoPasiva
  <1>2. ASSUME NEW f \in Archivos, create_file(f) PROVE Bloqueo'
    BY <1>2, BloqueoCreado
  <1>3. ASSUME NEW f \in Archivos, NEW n \in Tamanios, Crecer(f, n) \/ Achicar(f, n) \/ Igual(f, n)
        PROVE  Bloqueo'
    BY <1>3, BloqueoCrecer, BloqueoAchicar, BloqueoIgual
  <1>4. CASE TomarIndirecto \/ CrearIndirecto \/ update_fcb
    BY <1>4, BloqueoTomar, BloqueoCrear, BloqueoGuardar
  <1>5. CASE Parar
    BY <1>5, BloqueoParar
  <1> QED
    BY <1>1, <1>2, <1>3, <1>4, <1>5 DEF Next, Pasiva

\* The only step that touches paro sets it.
LEMMA ParoQueda == ASSUME Tipos, [Next]_vars, paro PROVE paro'
  <1>1. CASE Pasiva
    BY <1>1, PasivaEfecto
  <1>2. ASSUME NEW f \in Archivos, NEW n \in Tamanios,
               create_file(f) \/ Crecer(f, n) \/ Achicar(f, n) \/ Igual(f, n)
        PROVE  paro'
    BY <1>2 DEF create_file, Crecer, Achicar, Igual
  <1>3. ASSUME NEW f \in Archivos, create_file(f) PROVE paro'
    BY <1>3 DEF create_file
  <1>4. CASE TomarIndirecto \/ CrearIndirecto \/ update_fcb \/ Parar
    BY <1>4 DEF TomarIndirecto, CrearIndirecto, update_fcb, Parar
  <1> QED
    BY <1>1, <1>2, <1>3, <1>4 DEF Next, Pasiva

\* Nothing is in use in an empty disk.
LEMMA InitBloqueo == Init => IInv
  <1> SUFFICES ASSUME Init PROVE Bloqueo
    BY InitTipos DEF IInv
  <1>1. op = ninguna /\ bitmap = {} /\ existe = {} /\ \A f \in Archivos : fcb[f] = Vacio
    BY DEF Init
  <1>2. op.fase = "libre"
    BY <1>1 DEF ninguna
  <1>3. \A f \in Archivos : Vista[f] = Vacio /\ Listado[f] = <<>>
    BY <1>1, VistaLibre DEF PunterosEn, Vacio
  <1>4. \A f \in Archivos : Ocupa(Vista[f], Listado[f]) = {}
    BY <1>3 DEF Ocupa, Vacio
  <1>5. \A f \in Archivos : Vista[f].tamanio = 0
    BY <1>3 DEF Vacio
  <1>6. Sanos(Vista, Listado, bitmap) /\ Justos(Vista, Listado, bitmap)
    BY <1>1, <1>3, <1>4, <1>5 DEF Sanos, Justos
  <1>7. \A f \in Archivos : Cubierto(f)
    BY <1>5 DEF Cubierto, CubreCon
  <1> QED
    BY <1>1, <1>2, <1>6, <1>7 DEF Bloqueo, Creciendo

\* A list without repetitions has as many elements as places.
LEMMA CuantosEnLista ==
    ASSUME NEW S, NEW s \in Seq(S), SinRepetidos(s)
    PROVE  IsFiniteSet(ToSet(s)) /\ Cardinality(ToSet(s)) = Len(s) /\ Len(s) \in Nat
  <1>1. Len(s) \in Nat /\ DOMAIN s = 1..Len(s)
    OBVIOUS
  <1>2. s \in Bijection(1..Len(s), ToSet(s))
    BY <1>1 DEF Bijection, Injection, Surjection, ToSet, SinRepetidos, IsInjective
  <1>3. ExistsBijection(1..Len(s), ToSet(s))
    BY <1>2 DEF ExistsBijection
  <1>4. IsFiniteSet(1..Len(s))
    BY <1>1, FS_Interval
  <1> QED
    BY <1>1, <1>3, <1>4, FS_Bijection, FS_CountingElements

\* The uses of the blocks of one file, counted.
LEMMA CuantosOcupa ==
    ASSUME NEW c, NEW S, NEW s \in Seq(S), c.tamanio # 0, Separado(c, s)
    PROVE  Cardinality(Ocupa(c, s)) = 1 + Len(s) + (IF c.indirecto = 0 THEN 0 ELSE 1)
  <1>1. IsFiniteSet(ToSet(s)) /\ Cardinality(ToSet(s)) = Len(s) /\ Len(s) \in Nat
    BY CuantosEnLista DEF Separado
  <1>2. \A b : b \in ToSet(s) <=> Contains(s, b)
    BY EnLista
  <1>3. PICK T : T = ToSet(s) \cup {c.directo}
    OBVIOUS
  <1>4. IsFiniteSet(T) /\ Cardinality(T) = Len(s) + 1
    <2>1. c.directo \notin ToSet(s)
      BY <1>2 DEF Separado
    <2> QED
      BY <1>1, <1>3, <2>1, FS_AddElement
  <1>5. CASE c.indirecto = 0
    <2>1. Ocupa(c, s) = T
      BY <1>3, <1>5 DEF Ocupa
    <2> QED
      BY <1>1, <1>4, <1>5, <2>1
  <1>6. CASE c.indirecto # 0
    <2>1. Ocupa(c, s) = T \cup {c.indirecto}
      BY <1>3, <1>6 DEF Ocupa
    <2>2. c.indirecto \notin T
      BY <1>2, <1>3, <1>6 DEF Separado
    <2>3. Cardinality(Ocupa(c, s)) = Cardinality(T) + 1
      BY <1>4, <2>1, <2>2, FS_AddElement
    <2> QED
      BY <1>1, <1>4, <1>6, <2>3
  <1> QED
    BY <1>5, <1>6

\* Between requests the FCBs on the disk are what is seen.
LEMMA Reposo ==
    ASSUME IInv, op = ninguna, NEW f \in Archivos
    PROVE  /\ Vista[f] = fcb[f] /\ Listado[f] = obtenerPunterosIndirectos(fcb[f])
           /\ Usados(fcb[f]) = Ocupa(Vista[f], Listado[f])
           /\ fcb[f] \in FcbEnDisco /\ obtenerPunterosIndirectos(fcb[f]) \in Seq(Punteros \ {0})
  <1>1. Vista[f] = fcb[f] /\ Listado[f] = obtenerPunterosIndirectos(fcb[f])
    BY VistaLibre DEF PunterosEn, obtenerPunterosIndirectos
  <1>2. Usados(fcb[f]) = Ocupa(Vista[f], Listado[f])
    BY <1>1 DEF Usados, Ocupa
  <1>3. fcb[f] \in FcbEnDisco
    BY DEF IInv, Tipos
  <1>4. obtenerPunterosIndirectos(fcb[f]) \in Seq(Punteros \ {0})
    BY <1>3 DEF IInv, Tipos, FcbEnDisco, obtenerPunterosIndirectos
  <1> QED
    BY <1>1, <1>2, <1>3, <1>4

\* The invariant keeps blocks apart,
LEMMA Exclusivos == IInv => BloquesExclusivos
  <1> SUFFICES ASSUME IInv, op = ninguna PROVE BloquesExclusivos
    BY DEF BloquesExclusivos
  <1>1. Sanos(Vista, Listado, bitmap)
    BY DEF IInv, Bloqueo
  <1>2. ASSUME NEW f \in Archivos, NEW g \in Archivos, f # g
        PROVE  Usados(fcb[f]) \cap Usados(fcb[g]) = {}
    BY <1>1, <1>2, Reposo DEF Sanos
  <1>3. ASSUME NEW f \in Archivos PROVE Usados(fcb[f]) \subseteq bitmap
    BY <1>1, Reposo DEF Sanos
  <1>4. ASSUME NEW f \in Archivos, fcb[f].tamanio > 0
        PROVE  Cardinality(Usados(fcb[f])) = 1 + Len(obtenerPunterosIndirectos(fcb[f]))
                                               + (IF fcb[f].indirecto = 0 THEN 0 ELSE 1)
    <2>1. PICK c, s : c = fcb[f] /\ s = obtenerPunterosIndirectos(fcb[f])
      OBVIOUS
    <2>2. /\ c = Vista[f] /\ s = Listado[f] /\ Usados(fcb[f]) = Ocupa(c, s)
          /\ c.tamanio \in Nat /\ s \in Seq(Punteros \ {0})
      BY <2>1, Reposo DEF FcbEnDisco
    <2>3. c.tamanio # 0
      BY <1>4, <2>1, <2>2
    <2>4. Separado(c, s)
      BY <1>1, <2>2, <2>3 DEF Sanos
    <2>5. Cardinality(Ocupa(c, s)) = 1 + Len(s) + (IF c.indirecto = 0 THEN 0 ELSE 1)
      BY <2>2, <2>3, <2>4, CuantosOcupa
    <2> QED
      BY <2>1, <2>2, <2>5
  <1> QED
    BY <1>2, <1>3, <1>4 DEF BloquesExclusivos

\* loses none,
LEMMA Fugas == IInv => SinFugas
  <1> SUFFICES ASSUME IInv, op = ninguna, ~paro
               PROVE  bitmap = UNION {Usados(fcb[f]) : f \in Archivos}
    BY DEF SinFugas
  <1>1. Sanos(Vista, Listado, bitmap) /\ Justos(Vista, Listado, bitmap)
    BY DEF IInv, Bloqueo
  <1>2. \A f \in Archivos : Usados(fcb[f]) = Ocupa(Vista[f], Listado[f])
    BY Reposo
  <1> QED
    BY <1>1, <1>2 DEF Sanos, Justos

\* and gives every file the blocks of its size.
LEMMA Cubiertos == IInv => TamanioCubierto
  <1> SUFFICES ASSUME IInv, op = ninguna, NEW f \in Archivos, fcb[f].tamanio > 0
               PROVE  LET bloques == 1 + Len(obtenerPunterosIndirectos(fcb[f])) IN
                      /\ bloques >= CantBloques(fcb[f].tamanio)
                      /\ ~paro => bloques = CantBloques(fcb[f].tamanio)
    BY DEF TamanioCubierto
  <1>1. PICK c, s : c = fcb[f] /\ s = obtenerPunterosIndirectos(fcb[f])
    OBVIOUS
  <1>2. /\ c = Vista[f] /\ s = Listado[f] /\ Pendientes(f) = 0 /\ Len(s) \in Nat
    BY <1>1, Reposo, VistaLibre
  <1>3. CubreCon(c.tamanio, s, 0, paro)
    BY <1>2 DEF IInv, Bloqueo, Cubierto
  <1>4. 1 + Len(s) + 0 = 1 + Len(s)
    BY <1>2
  <1> QED
    BY <1>1, <1>3, <1>4 DEF CubreCon

\* No block has two uses: the steps of a truncation keep apart the blocks of the copy
\* of its FCB and those of the other files, and a stop while a file grows goes back to
\* an FCB that reaches some of them.
THEOREM FileSystemBloquesExclusivos ==
    ASSUME Holgado, "guarda" \notin Paradas
    PROVE  Spec => []BloquesExclusivos
  <1>1. IInv /\ [Next]_vars => IInv'
    BY NextBloqueo
  <1> QED
    BY <1>1, InitBloqueo, Exclusivos, PTL DEF Spec

\* A file has the blocks of its size, so F_READ and F_WRITE may trust it; after a stop
\* it may have more, never fewer.
THEOREM FileSystemTamanioCubierto ==
    ASSUME Holgado, "guarda" \notin Paradas
    PROVE  Spec => []TamanioCubierto
  <1>1. IInv /\ [Next]_vars => IInv'
    BY NextBloqueo
  <1> QED
    BY <1>1, InitBloqueo, Cubiertos, PTL DEF Spec

\* Until the process is stopped in the middle of a truncation, no block is lost.
THEOREM FileSystemSinFugas ==
    ASSUME Holgado
    PROVE  Spec => []SinFugas
  <1> DEFINE J == Tipos /\ (IInv \/ paro)
  <1>1. Init => J
    BY InitBloqueo DEF IInv
  <1>2. J /\ [Next]_vars => J'
    <2> SUFFICES ASSUME J, [Next]_vars PROVE J'
      OBVIOUS
    <2>1. Tipos'
      BY NextTipos
    <2>2. CASE paro
      BY <2>1, <2>2, ParoQueda
    <2>3. CASE IInv
      BY <2>1, <2>3, NextBloqueo DEF Parar
    <2> QED
      BY <2>2, <2>3
  <1>3. J => SinFugas
    BY Fugas DEF SinFugas
  <1> QED
    BY <1>1, <1>2, <1>3, PTL DEF Spec
=============================================================================
