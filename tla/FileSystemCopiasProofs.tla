----------------------- MODULE FileSystemCopiasProofs -----------------------
(***************************************************************************)
(* What F_READ and F_WRITE copy, for every block size, position and        *)
(* length: which accesses go right, and that even the others, which may    *)
(* pass the end of the stream, leave bytes in the blocks.  And, from that  *)
(* and from what FileSystemProofs says of the blocks, that FileSystem      *)
(* implements ArchivosAbs.                                                 *)
(***************************************************************************)
EXTENDS FileSystemProofs

-----------------------------------------------------------------------------
(* Recursive functions, blocks and bytes                                   *)

\* A function defined from its previous value.
Recurre(g, x0, H, n) == g = [i \in 0..n |-> IF i = 0 THEN x0 ELSE H[g[i - 1]]]

\* There is one, whatever the step; what it computes follows from a least argument at
\* which it would not.
LEMMA Recurrencia ==
    ASSUME NEW S, NEW x0 \in S, NEW H \in [S -> S], NEW n \in Nat
    PROVE  \E g \in [0..n -> S] : Recurre(g, x0, H, n)
  <1> DEFINE Es(m) == \E g \in [0..m -> S] :
                        \A i \in 0..m : g[i] = IF i = 0 THEN x0 ELSE H[g[i - 1]]
             T == {m \in Nat : ~Es(m)}
  <1>1. ASSUME T # {} PROVE FALSE
    <2>1. T \subseteq Nat
      OBVIOUS
    <2>2. PICK m \in T : \A k \in T : m <= k
      <3> HIDE DEF T
      <3> QED
        BY <1>1, <2>1, MinimoExiste
    <2>3. CASE m = 0
      <3> DEFINE g == [i \in 0..0 |-> x0]
      <3>1. g \in [0..0 -> S] /\ \A i \in 0..0 : g[i] = IF i = 0 THEN x0 ELSE H[g[i - 1]]
        OBVIOUS
      <3>2. Es(0)
        BY <3>1
      <3> QED
        BY <2>2, <2>3, <3>2
    <2>4. CASE m # 0
      <3>1. m \in Nat /\ m - 1 \in Nat /\ m - 1 \notin T
        <4> HIDE DEF T
        <4> QED
          BY <2>1, <2>2, <2>4
      <3>2. PICK g \in [0..(m - 1) -> S] :
                   \A i \in 0..(m - 1) : g[i] = IF i = 0 THEN x0 ELSE H[g[i - 1]]
        BY <3>1
      <3> DEFINE h == [i \in 0..m |-> IF i = m THEN H[g[m - 1]] ELSE g[i]]
      <3>3. m - 1 \in 0..(m - 1) /\ \A i \in 0..m : i # m => i \in 0..(m - 1)
        BY <3>1
      <3>4. h \in [0..m -> S]
        BY <3>2, <3>3
      <3>5. ASSUME NEW i \in 0..m PROVE h[i] = IF i = 0 THEN x0 ELSE H[h[i - 1]]
        <4>1. CASE i = 0
          BY <2>4, <3>1, <3>2, <3>3, <4>1
        <4>2. CASE i # 0
          <5>1. i - 1 \in 0..(m - 1) /\ i - 1 # m /\ i - 1 \in 0..m
            BY <3>1, <4>2
          <5>2. h[i - 1] = g[i - 1]
            BY <5>1
          <5>3. CASE i = m
            BY <4>2, <5>2, <5>3
          <5>4. CASE i # m
            BY <3>2, <3>3, <4>2, <5>2, <5>4
          <5> QED
            BY <5>3, <5>4
        <4> QED
          BY <4>1, <4>2
      <3> HIDE DEF h
      <3>6. Es(m)
        BY <3>4, <3>5
      <3> QED
        BY <2>2, <3>6
    <2> QED
      BY <2>3, <2>4
  <1>2. PICK g \in [0..n -> S] : \A i \in 0..n : g[i] = IF i = 0 THEN x0 ELSE H[g[i - 1]]
    BY <1>1
  <1>3. Recurre(g, x0, H, n)
    BY <1>2 DEF Recurre
  <1> QED
    BY <1>3

\* Bytes of whole blocks.
LEMMA BytesDe ==
    ASSUME NEW m \in Nat, NEW n \in Nat, m <= n
    PROVE  /\ BlockSize * m \in Nat /\ BlockSize * m <= BlockSize * n
           /\ BlockSize * (m + 1) = BlockSize * m + BlockSize
           /\ n # 0 => BlockSize <= BlockSize * n
  <1>1. ASSUME NEW d \in Nat, d > 0
        PROVE  d * m \in Nat /\ d * m <= d * n /\ d * (m + 1) = d * m + d /\ (n # 0 => d <= d * n)
    OBVIOUS
  <1> QED
    BY <1>1, Constantes

\* A number of blocks that fit before x, and the block and the place of x.
LEMMA CabenEn ==
    ASSUME NEW x \in Nat, NEW m \in Int, BlockSize * m <= x
    PROVE  m <= x \div BlockSize
  <1>1. PICK w : w = x \div BlockSize
    OBVIOUS
  <1>2. w \in Nat /\ x < BlockSize * w + BlockSize /\ BlockSize \in Nat /\ BlockSize > 0
    BY <1>1, Division, Constantes
  <1>3. ASSUME m >= w + 1 PROVE FALSE
    <2>1. BlockSize * m >= BlockSize * (w + 1)
      BY <1>2, <1>3
    <2>2. BlockSize * (w + 1) = BlockSize * w + BlockSize
      BY <1>2
    <2>3. BlockSize * w \in Int /\ BlockSize * m \in Int
      BY <1>2
    <2> QED
      BY <1>2, <2>1, <2>2, <2>3
  <1> QED
    BY <1>1, <1>2, <1>3

\* The remainder.
LEMMA Resto ==
    ASSUME NEW x \in Nat
    PROVE  /\ x \div BlockSize \in Nat /\ x % BlockSize \in Nat /\ x % BlockSize < BlockSize
           /\ x = BlockSize * (x \div BlockSize) + (x % BlockSize)
  <1>1. ASSUME NEW d \in Nat, d > 0
        PROVE  /\ x \div d \in Nat /\ x % d \in Nat /\ x % d < d
               /\ x = d * (x \div d) + (x % d)
    BY <1>1
  <1> QED
    BY <1>1, Constantes

\* Only one block and one place.
LEMMA BloqueUnico ==
    ASSUME NEW x \in Nat, NEW m \in Nat, NEW o \in Nat, o < BlockSize, x = BlockSize * m + o
    PROVE  x \div BlockSize = m /\ x % BlockSize = o
  <1>1. PICK w, z : w = x \div BlockSize /\ z = x % BlockSize
    OBVIOUS
  <1>2. /\ w \in Nat /\ z \in Nat /\ z < BlockSize /\ x = BlockSize * w + z
        /\ BlockSize \in Nat /\ BlockSize > 0
    BY <1>1, Resto, Constantes
  <1>3. m <= w
    BY <1>1, <1>2, CabenEn
  <1>4. ASSUME w >= m + 1 PROVE FALSE
    <2>1. BlockSize * w >= BlockSize * (m + 1)
      BY <1>2, <1>4
    <2>2. BlockSize * (m + 1) = BlockSize * m + BlockSize
      BY <1>2
    <2>3. BlockSize * w \in Int /\ BlockSize * m \in Int
      BY <1>2
    <2> QED
      BY <1>2, <2>1, <2>2, <2>3
  <1>5. w = m
    BY <1>2, <1>3, <1>4
  <1>6. BlockSize * m \in Int
    BY <1>2
  <1> QED
    BY <1>1, <1>2, <1>5, <1>6

\* The block of the last byte of an access.
Ultimo(p, cant) == (p + cant - 1) \div BlockSize

\* How far an access reaches, and that BloquesAcceso never counts too many blocks.
LEMMA Alcance ==
    ASSUME NEW p \in Nat, NEW cant \in Nat \ {0}, NEW k, k = p \div BlockSize, NEW off, off = p % BlockSize,
           NEW u, u = Ultimo(p, cant), NEW n, n = BloquesAcceso(p, cant)
    PROVE  /\ k \in Nat /\ off \in Nat /\ off < BlockSize /\ p = BlockSize * k + off /\ k <= u
           /\ u \in Nat /\ BlockSize * u <= p + cant - 1 /\ p + cant - 1 < BlockSize * u + BlockSize
           /\ n \in Nat /\ n >= 1 /\ n <= u - k + 1
  <1>1. /\ k \in Nat /\ off \in Nat /\ off < BlockSize /\ p = BlockSize * k + off
        /\ BlockSize \in Nat /\ BlockSize > 0
    BY Resto, Constantes
  <1>2. p + cant - 1 \in Nat
    OBVIOUS
  <1>3. u \in Nat /\ BlockSize * u <= p + cant - 1 /\ p + cant - 1 < BlockSize * u + BlockSize
    BY <1>1, <1>2, Division DEF Ultimo
  <1>4. PICK q, r : q = cant \div BlockSize /\ r = cant % BlockSize
    OBVIOUS
  <1>5. q \in Nat /\ r \in Nat /\ r < BlockSize /\ cant = BlockSize * q + r
    BY <1>4, Resto
  <1>6. n = q + (IF r > BlockSize - off THEN 1 ELSE 0) + (IF r > 0 THEN 1 ELSE 0)
    BY <1>4 DEF BloquesAcceso
  <1>7. PICK x, y : x = BlockSize * k /\ y = BlockSize * q
    OBVIOUS
  <1>8. x \in Nat /\ y \in Nat /\ p + cant - 1 = x + y + off + r - 1
    BY <1>1, <1>5, <1>7
  <1>9. \A m \in Int : BlockSize * m <= p + cant - 1 => m <= u
    BY <1>2, CabenEn DEF Ultimo
  <1>10. /\ BlockSize * (k + q) = x + y /\ BlockSize * (k + q + 1) = x + y + BlockSize
         /\ BlockSize * (k + q - 1) = x + y - BlockSize
    BY <1>1, <1>5, <1>7
  <1>11. k <= u
    BY <1>1, <1>5, <1>7, <1>8, <1>9
  <1>12. CASE r > BlockSize - off
    <2>1. k + q + 1 <= u
      BY <1>1, <1>5, <1>8, <1>9, <1>10, <1>12
    <2> QED
      BY <1>1, <1>3, <1>5, <1>6, <1>11, <1>12, <2>1
  <1>13. CASE ~(r > BlockSize - off) /\ r > 0
    <2>1. k + q <= u
      BY <1>1, <1>5, <1>8, <1>9, <1>10, <1>13
    <2> QED
      BY <1>1, <1>3, <1>5, <1>6, <1>11, <1>13, <2>1
  <1>14. CASE ~(r > BlockSize - off) /\ r = 0
    <2>1. k + q - 1 <= u
      BY <1>1, <1>5, <1>8, <1>9, <1>10, <1>14
    <2>2. q # 0
      BY <1>1, <1>5, <1>14
    <2> QED
      BY <1>1, <1>3, <1>5, <1>6, <1>11, <1>14, <2>1, <2>2
  <1> QED
    BY <1>5, <1>12, <1>13, <1>14

-----------------------------------------------------------------------------
(* The accesses that are copied right                                      *)

\* A copy of bytes to their places, inside one block.
Correcta(p, cant, c) ==
    /\ c.bloque \in Nat /\ c.desde \in Nat /\ c.pos \in Nat /\ c.n \in Nat
    /\ BlockSize * c.bloque + c.desde = p + c.pos
    /\ c.desde + c.n <= BlockSize
    /\ c.pos + c.n <= cant

\* Correct copies that cover the access are what should be copied.
LEMMA CopiasCorrectas ==
    ASSUME NEW a \in [puntero : Nat, cant : Nat \ {0}],
           \A c \in Copias(a.puntero, a.cant) : Correcta(a.puntero, a.cant, c),
           \A i \in 0..(a.cant - 1) : \E c \in Copias(a.puntero, a.cant) : c.pos <= i /\ i < c.pos + c.n
    PROVE  ~Desborda(a) /\ Movidos(a) = Debidos(a)
  <1>1. PICK p, cant, C : p = a.puntero /\ cant = a.cant /\ C = Copias(a.puntero, a.cant)
    OBVIOUS
  <1>2. p \in Nat /\ cant \in Nat \ {0}
    BY <1>1
  <1>3. ~Desborda(a)
    BY DEF Desborda, Correcta
  <1>4. ASSUME NEW c \in C, NEW j \in 0..(c.n - 1)
        PROVE  /\ c.pos + j \in 0..(cant - 1)
               /\ (p + (c.pos + j)) \div BlockSize = c.bloque
               /\ (p + (c.pos + j)) % BlockSize = c.desde + j
    <2>1. /\ c.bloque \in Nat /\ c.desde \in Nat /\ c.pos \in Nat /\ c.n \in Nat /\ j \in Nat /\ j < c.n
          /\ BlockSize * c.bloque + c.desde = p + c.pos
          /\ c.desde + c.n <= BlockSize /\ c.pos + c.n <= cant
      BY <1>1, <1>4 DEF Correcta
    <2>2. BlockSize \in Nat /\ BlockSize * c.bloque \in Nat
      BY <2>1, Constantes
    <2>3. /\ p + (c.pos + j) \in Nat /\ c.desde + j \in Nat /\ c.desde + j < BlockSize
          /\ p + (c.pos + j) = BlockSize * c.bloque + (c.desde + j)
      BY <1>2, <2>1, <2>2
    <2>4. c.pos + j \in 0..(cant - 1)
      BY <1>2, <2>1
    <2> QED
      BY <2>1, <2>3, <2>4, BloqueUnico
  <1>5. Movidos(a) = UNION {{<<c.pos + j, c.bloque, c.desde + j>> : j \in 0..(c.n - 1)} : c \in C}
    BY <1>1 DEF Movidos
  <1>6. Debidos(a) = {<<i, (p + i) \div BlockSize, (p + i) % BlockSize>> : i \in 0..(cant - 1)}
    BY <1>1 DEF Debidos
  <1>7. ASSUME NEW m \in Movidos(a) PROVE m \in Debidos(a)
    <2>1. PICK c \in C : \E j \in 0..(c.n - 1) : m = <<c.pos + j, c.bloque, c.desde + j>>
      BY <1>5
    <2> PICK j \in 0..(c.n - 1) : m = <<c.pos + j, c.bloque, c.desde + j>>
      BY <2>1
    <2>2. PICK i : i = c.pos + j
      OBVIOUS
    <2>3. i \in 0..(cant - 1) /\ m = <<i, (p + i) \div BlockSize, (p + i) % BlockSize>>
      BY <1>4, <2>1, <2>2
    <2> QED
      BY <1>6, <2>3
  <1>8. ASSUME NEW m \in Debidos(a) PROVE m \in Movidos(a)
    <2>1. PICK i \in 0..(cant - 1) : m = <<i, (p + i) \div BlockSize, (p + i) % BlockSize>>
      BY <1>6
    <2>2. PICK c \in C : c.pos <= i /\ i < c.pos + c.n
      BY <1>1
    <2>3. c.pos \in Nat /\ c.n \in Nat
      BY <1>1 DEF Correcta
    <2>4. PICK j : j = i - c.pos
      OBVIOUS
    <2>5. j \in 0..(c.n - 1) /\ c.pos + j = i
      BY <2>2, <2>3, <2>4
    <2>6. m = <<c.pos + j, c.bloque, c.desde + j>>
      BY <1>4, <2>1, <2>5
    <2> QED
      BY <1>5, <2>5, <2>6
  <1> QED
    BY <1>3, <1>7, <1>8

\* The bytes copied before each turn of the loop from the first block.
PasoHechos(cant, h) == IF MasDeUnBloque(cant - h) THEN h + BlockSize ELSE h
EsHechos(g, p, cant, v) ==
    g = [i \in 0..v |-> IF i = 0 THEN BlockSize - p
                        ELSE IF MasDeUnBloque(cant - g[i - 1]) THEN g[i - 1] + BlockSize ELSE g[i - 1]]

CopiasPrimero(p, cant, v, h) ==
    IF v = 0 THEN {Copia(0, p, cant, 0)}
    ELSE {Copia(0, p, BlockSize - p, 0)}
           \cup {Copia(i + 1, 0, IF MasDeUnBloque(cant - h[i]) THEN BlockSize ELSE cant - h[i], h[i])
                   : i \in 0..(v - 1)}

\* DesdePrimero, with its recursive function named.
LEMMA FormaPrimero ==
    ASSUME NEW p \in Nat, NEW cant \in Nat \ {0}, NEW v \in Nat, v = BloquesAcceso(p, cant) - 1
    PROVE  \E h : /\ EsHechos(h, p, cant, v)
                  /\ DesdePrimero(p, cant) = CopiasPrimero(p, cant, v, h)
  <1>1. PICK h : h = CHOOSE g : EsHechos(g, p, cant, v)
    OBVIOUS
  <1>2. \E g : EsHechos(g, p, cant, v)
    <2> DEFINE H == [x \in Int |-> PasoHechos(cant, x)]
    <2>1. BlockSize \in Nat /\ BlockSize - p \in Int /\ H \in [Int -> Int]
      BY Constantes DEF PasoHechos, MasDeUnBloque
    <2> HIDE DEF H
    <2>2. PICK g \in [0..v -> Int] : Recurre(g, BlockSize - p, H, v)
      BY <2>1, Recurrencia
    <2>3. ASSUME NEW i \in 0..v, i # 0
          PROVE  H[g[i - 1]] = IF MasDeUnBloque(cant - g[i - 1]) THEN g[i - 1] + BlockSize ELSE g[i - 1]
      <3>1. i - 1 \in 0..v
        BY <2>3
      <3>2. g[i - 1] \in Int
        BY <3>1
      <3> QED
        BY <3>2 DEF H, PasoHechos
    <2>4. [i \in 0..v |-> IF i = 0 THEN BlockSize - p ELSE H[g[i - 1]]]
            = [i \in 0..v |-> IF i = 0 THEN BlockSize - p
                 ELSE IF MasDeUnBloque(cant - g[i - 1]) THEN g[i - 1] + BlockSize ELSE g[i - 1]]
      BY <2>3
    <2>5. EsHechos(g, p, cant, v)
      BY <2>2, <2>4 DEF EsHechos, Recurre
    <2> QED
      BY <2>5
  <1>3. EsHechos(h, p, cant, v)
    BY <1>1, <1>2
  <1>4. DesdePrimero(p, cant) = CopiasPrimero(p, cant, v, h)
    BY <1>1 DEF DesdePrimero, EsHechos, CopiasPrimero
  <1> QED
    BY <1>3, <1>4

\* From the first block, when the number of blocks is right, every byte goes to its place.
LEMMA PrimeroExacto ==
    ASSUME NEW p \in Nat, p < BlockSize, NEW cant \in Nat \ {0},
           BloquesAcceso(p, cant) = Ultimo(p, cant) + 1
    PROVE  /\ \A c \in DesdePrimero(p, cant) : Correcta(p, cant, c)
           /\ \A i \in 0..(cant - 1) : \E c \in DesdePrimero(p, cant) : c.pos <= i /\ i < c.pos + c.n
  <1>1. PICK u : u = Ultimo(p, cant)
    OBVIOUS
  <1>2. BlockSize \in Nat /\ BlockSize > 0 /\ p = BlockSize * 0 + p
    BY Constantes
  <1>3. p \div BlockSize = 0 /\ p % BlockSize = p
    BY <1>2, BloqueUnico
  <1>4. /\ u \in Nat /\ BlockSize * u <= p + cant - 1 /\ p + cant - 1 < BlockSize * u + BlockSize
        /\ u = BloquesAcceso(p, cant) - 1 /\ BlockSize * u \in Nat
    <2>1. /\ u \in Nat /\ BlockSize * u <= p + cant - 1 /\ p + cant - 1 < BlockSize * u + BlockSize
      BY <1>1, <1>3, Alcance
    <2> QED
      BY <1>1, <1>2, <2>1
  <1>5. PICK h : EsHechos(h, p, cant, u) /\ DesdePrimero(p, cant) = CopiasPrimero(p, cant, u, h)
    BY <1>4, FormaPrimero
  <1>6. CASE u = 0
    <2>1. DesdePrimero(p, cant) = {Copia(0, p, cant, 0)}
      BY <1>5, <1>6 DEF CopiasPrimero
    <2>2. BlockSize * 0 = 0 /\ BlockSize * u = 0
      BY <1>2, <1>6
    <2>3. Correcta(p, cant, Copia(0, p, cant, 0))
      BY <1>2, <1>4, <2>2 DEF Correcta, Copia
    <2>4. \A i \in 0..(cant - 1) : Copia(0, p, cant, 0).pos <= i
                                   /\ i < Copia(0, p, cant, 0).pos + Copia(0, p, cant, 0).n
      BY DEF Copia
    <2> QED
      BY <2>1, <2>3, <2>4
  <1>7. CASE u # 0
    <2> DEFINE largo(i) == IF MasDeUnBloque(cant - h[i]) THEN BlockSize ELSE cant - h[i]
               primera == Copia(0, p, BlockSize - p, 0)
               copia(i) == Copia(i + 1, 0, largo(i), h[i])
    <2>1. DesdePrimero(p, cant) = {primera} \cup {copia(i) : i \in 0..(u - 1)}
      BY <1>5, <1>7 DEF CopiasPrimero
    <2>2. \A i \in 0..u : h[i] = IF i = 0 THEN BlockSize - p
                                 ELSE IF MasDeUnBloque(cant - h[i - 1]) THEN h[i - 1] + BlockSize ELSE h[i - 1]
      <3>1. PICK g : g = [i \in 0..u |-> IF i = 0 THEN BlockSize - p
                        ELSE IF MasDeUnBloque(cant - h[i - 1]) THEN h[i - 1] + BlockSize ELSE h[i - 1]]
        OBVIOUS
      <3>2. h = g
        BY <1>5, <3>1 DEF EsHechos
      <3> QED
        BY <3>1, <3>2
    <2>3. ASSUME NEW i \in 0..(u - 1)
          PROVE  h[i] = BlockSize * (i + 1) - p
      <3> DEFINE T == {k \in 0..(u - 1) : h[k] # BlockSize * (k + 1) - p}
      <3>1. ASSUME T # {} PROVE FALSE
        <4>1. T \subseteq Nat
          OBVIOUS
        <4>2. PICK m \in T : \A k \in T : m <= k
          <5> HIDE DEF T
          <5> QED
            BY <3>1, <4>1, MinimoExiste
        <4>3. m # 0
          <5>1. h[0] = BlockSize - p /\ BlockSize * (0 + 1) = BlockSize
            BY <1>2, <1>4, <2>2
          <5> QED
            BY <5>1
        <4>4. m \in Nat /\ m <= u - 1 /\ m - 1 \in 0..(u - 1) /\ m - 1 \notin T /\ m \in 0..u
          <5>1. m \in 0..(u - 1)
            OBVIOUS
          <5> HIDE DEF T
          <5> QED
            BY <1>4, <4>2, <4>3, <5>1
        <4>5. h[m - 1] = BlockSize * ((m - 1) + 1) - p
          BY <4>4
        <4>6. PICK x : x = BlockSize * m
          OBVIOUS
        <4>7. x \in Nat /\ BlockSize * ((m - 1) + 1) = x /\ BlockSize * (m + 1) = x + BlockSize
          BY <1>2, <4>4, <4>6
        <4>8. x + BlockSize <= BlockSize * u
          BY <1>2, <1>4, <4>4, <4>7
        <4>9. h[m - 1] = x - p /\ MasDeUnBloque(cant - h[m - 1])
          BY <1>2, <1>4, <4>5, <4>7, <4>8 DEF MasDeUnBloque
        <4>10. h[m] = h[m - 1] + BlockSize
          BY <2>2, <4>3, <4>4, <4>9
        <4>11. h[m] = BlockSize * (m + 1) - p
          BY <1>2, <4>7, <4>9, <4>10
        <4> QED
          BY <4>11
      <3> QED
        BY <3>1
    <2>4. ASSUME NEW i \in 0..(u - 1)
          PROVE  /\ BlockSize * (i + 1) \in Nat /\ BlockSize * (i + 1) <= BlockSize * u
                 /\ h[i] = BlockSize * (i + 1) - p /\ h[i] \in Nat
                 /\ largo(i) \in Nat /\ largo(i) <= BlockSize /\ h[i] + largo(i) <= cant
                 /\ (h[i] + BlockSize <= cant => largo(i) = BlockSize)
                 /\ (h[i] + BlockSize >= cant => h[i] + largo(i) = cant)
      <3>1. i \in Nat /\ i + 1 <= u
        BY <1>4
      <3>2. BlockSize * (i + 1) \in Nat /\ BlockSize * (i + 1) <= BlockSize * u
        BY <1>2, <1>4, <3>1
      <3>3. h[i] = BlockSize * (i + 1) - p
        BY <2>3
      <3>4. BlockSize * (i + 1) >= BlockSize
        BY <1>2, <3>1
      <3>5. h[i] \in Nat /\ cant - h[i] \in Nat
        BY <1>2, <1>4, <3>2, <3>3, <3>4
      <3>6. largo(i) = IF BlockSize < cant - h[i] THEN BlockSize ELSE cant - h[i]
        BY <1>2, <3>5 DEF MasDeUnBloque
      <3> HIDE DEF largo
      <3> QED
        BY <1>2, <1>4, <3>2, <3>3, <3>4, <3>5, <3>6
    <2> HIDE DEF largo
    <2>5. Correcta(p, cant, primera)
      <3>1. BlockSize <= BlockSize * u
        <4>1. u \in Nat /\ u <= u
          BY <1>4
        <4> QED
          BY <1>7, <4>1, BytesDe
      <3>2. BlockSize * 0 = 0
        BY <1>2
      <3> QED
        BY <1>2, <1>4, <3>1, <3>2 DEF Correcta, Copia
    <2>6. ASSUME NEW i \in 0..(u - 1) PROVE Correcta(p, cant, copia(i))
      <3>1. i + 1 \in Nat
        BY <1>4
      <3> QED
        BY <1>2, <2>4, <3>1 DEF Correcta, Copia
    <2>7. ASSUME NEW i \in 0..(cant - 1)
          PROVE  \E c \in DesdePrimero(p, cant) : c.pos <= i /\ i < c.pos + c.n
      <3>1. CASE i < BlockSize - p
        <4>1. primera.pos <= i /\ i < primera.pos + primera.n
          BY <1>2, <3>1 DEF Copia
        <4> QED
          BY <2>1, <4>1
      <3>2. CASE ~(i < BlockSize - p)
        <4>1. PICK m : m = (p + i) \div BlockSize
          OBVIOUS
        <4>2. p + i \in Nat /\ p + i <= p + cant - 1 /\ p + cant - 1 \in Nat
          OBVIOUS
        <4>3. m \in Nat /\ BlockSize * m <= p + i /\ p + i < BlockSize * m + BlockSize
          BY <1>2, <4>1, <4>2, Division
        <4>4. m <= u
          BY <1>1, <1>2, <4>1, <4>2, DivisionMonotona DEF Ultimo
        <4>5. m # 0
          BY <1>2, <3>2, <4>3
        <4>6. m - 1 \in 0..(u - 1) /\ (m - 1) + 1 = m
          BY <1>4, <4>3, <4>4, <4>5
        <4>7. PICK j : j = m - 1
          OBVIOUS
        <4>8. h[j] = BlockSize * m - p /\ j \in 0..(u - 1) /\ BlockSize * m \in Nat
          BY <2>4, <4>6, <4>7
        <4>9. h[j] <= i /\ i < h[j] + largo(j)
          BY <1>2, <2>4, <4>3, <4>8
        <4>10. copia(j).pos <= i /\ i < copia(j).pos + copia(j).n
          BY <4>9 DEF Copia
        <4> QED
          BY <2>1, <4>8, <4>10
      <3> QED
        BY <3>1, <3>2
    <2> HIDE DEF primera, copia
    <2> QED
      BY <2>1, <2>5, <2>6, <2>7
  <1> QED
    BY <1>6, <1>7

\* The state of the loop from a later block.
Estado == [off : Int, pos : Int, faltan : Int]
PasoEstado(e) ==
    LET pos == e.pos + BlockSize - e.off
    IN IF MasDeUnBloque(e.faltan)
       THEN [off |-> 0, pos |-> pos, faltan |-> e.faltan - pos]
       ELSE e
EsEstado(g, p, cant, v) ==
    g = [i \in 0..v |-> IF i = 0 THEN [off |-> p % BlockSize, pos |-> 0, faltan |-> cant]
                        ELSE PasoEstado(g[i - 1])]
CopiaEn(p, i, e) ==
    Copia(p \div BlockSize + i, e.off, IF MasDeUnBloque(e.faltan) THEN BlockSize - e.off ELSE e.faltan, e.pos)

CopiasIndirecto(p, v, g) == {CopiaEn(p, i, g[i]) : i \in 0..(v - 1)}

\* DesdeIndirecto, with its recursive function named.
LEMMA FormaIndirecto ==
    ASSUME NEW p \in Nat, NEW cant \in Nat \ {0}, NEW v \in Nat, v = BloquesAcceso(p, cant)
    PROVE  \E g : EsEstado(g, p, cant, v) /\ DesdeIndirecto(p, cant) = CopiasIndirecto(p, v, g)
  <1>1. PICK g : g = CHOOSE e : EsEstado(e, p, cant, v)
    OBVIOUS
  <1>2. \E e : EsEstado(e, p, cant, v)
    <2> DEFINE H == [e \in Estado |-> PasoEstado(e)]
    <2>1. PICK x0 : x0 = [off |-> p % BlockSize, pos |-> 0, faltan |-> cant]
      OBVIOUS
    <2>2. x0 \in Estado
      BY <2>1, Resto DEF Estado
    <2>3. ASSUME NEW e \in Estado PROVE PasoEstado(e) \in Estado
      BY Constantes DEF Estado, PasoEstado, MasDeUnBloque
    <2>4. H \in [Estado -> Estado]
      BY <2>3
    <2> HIDE DEF H
    <2>5. PICK e \in [0..v -> Estado] : Recurre(e, x0, H, v)
      BY <2>2, <2>4, Recurrencia
    <2>6. ASSUME NEW i \in 0..v, i # 0 PROVE H[e[i - 1]] = PasoEstado(e[i - 1])
      <3>1. i - 1 \in 0..v
        BY <2>6
      <3>2. e[i - 1] \in Estado
        BY <3>1
      <3> QED
        BY <3>2 DEF H
    <2>7. [i \in 0..v |-> IF i = 0 THEN x0 ELSE H[e[i - 1]]]
            = [i \in 0..v |-> IF i = 0 THEN x0 ELSE PasoEstado(e[i - 1])]
      BY <2>6
    <2>8. EsEstado(e, p, cant, v)
      BY <2>1, <2>5, <2>7 DEF EsEstado, Recurre
    <2> QED
      BY <2>8
  <1>3. EsEstado(g, p, cant, v)
    BY <1>1, <1>2
  <1>4. DesdeIndirecto(p, cant) = CopiasIndirecto(p, v, g)
    BY <1>1 DEF DesdeIndirecto, EsEstado, PasoEstado, CopiaEn, CopiasIndirecto
  <1> QED
    BY <1>3, <1>4

\* Its values.
LEMMA Estados ==
    ASSUME NEW p, NEW cant, NEW v, NEW g, EsEstado(g, p, cant, v)
    PROVE  /\ 0 \in 0..v => g[0] = [off |-> p % BlockSize, pos |-> 0, faltan |-> cant]
           /\ \A i \in 0..v : i # 0 => g[i] = PasoEstado(g[i - 1])
  <1>1. PICK h : h = [i \in 0..v |-> IF i = 0 THEN [off |-> p % BlockSize, pos |-> 0, faltan |-> cant]
                                     ELSE PasoEstado(g[i - 1])]
    OBVIOUS
  <1>2. g = h
    BY <1>1 DEF EsEstado
  <1> QED
    BY <1>1, <1>2

\* From a later block, one block or two with more than a block of bytes.
LEMMA IndirectoExacto ==
    ASSUME NEW p \in Nat, NEW cant \in Nat \ {0}, NEW n, n = BloquesAcceso(p, cant),
           n = Ultimo(p, cant) - p \div BlockSize + 1, n = 1 \/ (n = 2 /\ cant > BlockSize)
    PROVE  /\ \A c \in DesdeIndirecto(p, cant) : Correcta(p, cant, c)
           /\ \A i \in 0..(cant - 1) : \E c \in DesdeIndirecto(p, cant) : c.pos <= i /\ i < c.pos + c.n
  <1>1. PICK k, off, u : k = p \div BlockSize /\ off = p % BlockSize /\ u = Ultimo(p, cant)
    OBVIOUS
  <1>2. /\ k \in Nat /\ off \in Nat /\ off < BlockSize /\ p = BlockSize * k + off
        /\ u \in Nat /\ BlockSize * u <= p + cant - 1 /\ p + cant - 1 < BlockSize * u + BlockSize
    BY <1>1, Alcance
  <1>3. BlockSize \in Nat /\ BlockSize > 0 /\ n \in Nat /\ n >= 1 /\ u = k + n - 1
    <2>1. n = u - k + 1
      BY <1>1
    <2>2. n \in Nat /\ n >= 1
      OBVIOUS
    <2> QED
      BY <1>2, <2>1, <2>2, Constantes
  <1>4. PICK g : EsEstado(g, p, cant, n) /\ DesdeIndirecto(p, cant) = CopiasIndirecto(p, n, g)
    BY <1>3, FormaIndirecto
  <1>5. /\ g[0] = [off |-> off, pos |-> 0, faltan |-> cant]
        /\ \A i \in 0..n : i # 0 => g[i] = PasoEstado(g[i - 1])
    <2>1. 0 \in 0..n
      BY <1>3
    <2> QED
      BY <1>1, <1>4, <2>1, Estados
  <1>6. CASE n = 1
    <2>1. u = k
      BY <1>2, <1>3, <1>6
    <2>2. BlockSize * k \in Nat /\ off + cant <= BlockSize
      BY <1>2, <1>3, <2>1
    <2>3. DesdeIndirecto(p, cant) = {CopiaEn(p, 0, g[0])}
      BY <1>4, <1>6 DEF CopiasIndirecto
    <2>4. CopiaEn(p, 0, g[0]) = Copia(k, off, cant, 0)
      <3>1. k + 0 = k /\ ~MasDeUnBloque(cant)
        BY <1>2, <1>3, <2>2 DEF MasDeUnBloque
      <3> QED
        BY <1>1, <1>5, <3>1 DEF CopiaEn
    <2>5. Correcta(p, cant, Copia(k, off, cant, 0))
      BY <1>2, <1>3, <2>2 DEF Correcta, Copia
    <2>6. \A i \in 0..(cant - 1) : Copia(k, off, cant, 0).pos <= i
                                   /\ i < Copia(k, off, cant, 0).pos + Copia(k, off, cant, 0).n
      BY DEF Copia
    <2> QED
      BY <2>3, <2>4, <2>5, <2>6
  <1>7. CASE n = 2 /\ cant > BlockSize
    <2>1. u = k + 1 /\ BlockSize * (k + 1) = BlockSize * k + BlockSize /\ BlockSize * k \in Nat
      BY <1>2, <1>3, <1>7
    <2>2. PICK d : d = BlockSize - off
      OBVIOUS
    <2>3. d \in Nat /\ d > 0 /\ d <= BlockSize /\ cant - d \in Nat /\ cant - d <= BlockSize
      BY <1>2, <1>3, <1>7, <2>1, <2>2
    <2>4. DesdeIndirecto(p, cant) = {CopiaEn(p, 0, g[0]), CopiaEn(p, 1, g[1])}
      BY <1>4, <1>7 DEF CopiasIndirecto
    <2>5. CopiaEn(p, 0, g[0]) = Copia(k, off, d, 0)
      <3>1. k + 0 = k /\ MasDeUnBloque(cant)
        BY <1>2, <1>7 DEF MasDeUnBloque
      <3> QED
        BY <1>1, <1>5, <2>2, <3>1 DEF CopiaEn
    <2>6. g[1] = [off |-> 0, pos |-> d, faltan |-> cant - d]
      <3>1. g[1] = PasoEstado(g[0])
        BY <1>5, <1>7
      <3>2. MasDeUnBloque(cant) /\ 0 + BlockSize - off = d
        BY <1>2, <1>3, <1>7, <2>2 DEF MasDeUnBloque
      <3> QED
        BY <1>5, <3>1, <3>2 DEF PasoEstado
    <2>7. CopiaEn(p, 1, g[1]) = Copia(k + 1, 0, cant - d, d)
      <3>1. ~MasDeUnBloque(cant - d)
        BY <1>3, <2>3 DEF MasDeUnBloque
      <3> QED
        BY <1>1, <2>6, <3>1 DEF CopiaEn
    <2>8. Correcta(p, cant, Copia(k, off, d, 0))
      BY <1>2, <1>3, <1>7, <2>1, <2>2, <2>3 DEF Correcta, Copia
    <2>9. Correcta(p, cant, Copia(k + 1, 0, cant - d, d))
      BY <1>2, <1>3, <1>7, <2>1, <2>2, <2>3 DEF Correcta, Copia
    <2>10. ASSUME NEW i \in 0..(cant - 1)
           PROVE  \/ 0 <= i /\ i < 0 + d
                  \/ d <= i /\ i < d + (cant - d)
      BY <2>3
    <2>11. /\ Copia(k, off, d, 0).pos = 0 /\ Copia(k, off, d, 0).n = d
           /\ Copia(k + 1, 0, cant - d, d).pos = d /\ Copia(k + 1, 0, cant - d, d).n = cant - d
      BY DEF Copia
    <2> QED
      BY <2>4, <2>5, <2>7, <2>8, <2>9, <2>10, <2>11
  <1> QED
    BY <1>6, <1>7

\* What cant_bytes is in each turn, as long as every turn copies a whole block: the
\* recursive function of Segura.
Cuenta(F, p, cant, n) ==
    /\ F[0] = cant
    /\ \A k \in 1..n : F[k] = F[k - 1] - (BlockSize * k - (p % BlockSize))

\* There is such a function.
LEMMA CuentaExiste ==
    ASSUME NEW p \in Nat, NEW cant \in Nat \ {0}, NEW n \in Nat
    PROVE  \E F : F = [k \in 0..n |-> IF k = 0 THEN cant
                                     ELSE F[k - 1] - (BlockSize * k - (p % BlockSize))]
  <1> DEFINE S == Nat \X Int
             H == [e \in S |-> <<e[1] + 1, e[2] - (BlockSize * (e[1] + 1) - (p % BlockSize))>>]
  <1>1. PICK off : off = p % BlockSize
    OBVIOUS
  <1>2. off \in Nat /\ BlockSize \in Nat
    BY <1>1, Resto, Constantes
  <1>3. ASSUME NEW x \in Nat, NEW y \in Int PROVE y - (BlockSize * (x + 1) - off) \in Int
    <2>1. BlockSize * (x + 1) \in Int
      BY <1>2
    <2> QED
      BY <1>2, <2>1
  <1>4. H \in [S -> S]
    BY <1>1, <1>3
  <1>5. PICK x0 : x0 = <<0, cant>>
    OBVIOUS
  <1>6. x0 \in S
    BY <1>5
  <1>7. ASSUME NEW e \in S
        PROVE  H[e] = <<e[1] + 1, e[2] - (BlockSize * (e[1] + 1) - (p % BlockSize))>>
    OBVIOUS
  <1> HIDE DEF H
  <1>8. PICK g \in [0..n -> S] : Recurre(g, x0, H, n)
    <2> HIDE DEF S
    <2> QED
      BY <1>4, <1>6, Recurrencia
  <1>9. \A i \in 0..n : g[i] = IF i = 0 THEN x0 ELSE H[g[i - 1]]
    <2>1. PICK h : h = [i \in 0..n |-> IF i = 0 THEN x0 ELSE H[g[i - 1]]]
      OBVIOUS
    <2>2. g = h
      BY <1>8, <2>1 DEF Recurre
    <2> QED
      BY <2>1, <2>2
  <1>10. ASSUME NEW i \in 0..n PROVE g[i][1] = i
    <2> DEFINE T == {k \in 0..n : g[k][1] # k}
    <2>1. ASSUME T # {} PROVE FALSE
      <3>1. T \subseteq Nat
        OBVIOUS
      <3>2. PICK m \in T : \A k \in T : m <= k
        <4> HIDE DEF T
        <4> QED
          BY <2>1, <3>1, MinimoExiste
      <3>3. m \in 0..n /\ g[m][1] # m
        OBVIOUS
      <3>4. m # 0
        BY <1>5, <1>9, <3>3
      <3>5. m - 1 \in 0..n /\ m - 1 \notin T
        <4> HIDE DEF T
        <4> QED
          BY <3>1, <3>2, <3>3, <3>4
      <3>6. g[m - 1][1] = m - 1
        BY <3>5
      <3>7. g[m - 1] \in S
        BY <3>5
      <3>8. g[m] = H[g[m - 1]]
        BY <1>9, <3>3, <3>4
      <3>9. g[m][1] = g[m - 1][1] + 1
        BY <1>7, <3>7, <3>8
      <3> QED
        BY <3>3, <3>6, <3>9
    <2> QED
      BY <2>1
  <1> DEFINE F == [k \in 0..n |-> g[k][2]]
  <1>11. ASSUME NEW k \in 0..n
         PROVE  F[k] = IF k = 0 THEN cant ELSE F[k - 1] - (BlockSize * k - (p % BlockSize))
    <2>1. CASE k = 0
      BY <1>5, <1>9, <2>1
    <2>2. CASE k # 0
      <3>1. k - 1 \in 0..n /\ (k - 1) + 1 = k
        BY <2>2
      <3>2. g[k] = H[g[k - 1]] /\ g[k - 1] \in S /\ g[k - 1][1] = k - 1
        BY <1>9, <1>10, <2>2, <3>1
      <3>3. g[k][2] = g[k - 1][2] - (BlockSize * k - (p % BlockSize))
        BY <1>7, <3>1, <3>2
      <3> QED
        BY <2>2, <3>1, <3>3
    <2> QED
      BY <2>1, <2>2
  <1>12. F = [k \in 0..n |-> IF k = 0 THEN cant ELSE F[k - 1] - (BlockSize * k - (p % BlockSize))]
    <2>1. DOMAIN F = 0..n /\ F = [k \in 0..n |-> F[k]]
      OBVIOUS
    <2> HIDE DEF F
    <2>2. [k \in 0..n |-> F[k]]
            = [k \in 0..n |-> IF k = 0 THEN cant ELSE F[k - 1] - (BlockSize * k - (p % BlockSize))]
      BY <1>11
    <2> QED
      BY <2>1, <2>2
  <1> HIDE DEF F
  <1> QED
    BY <1>12

\* Every turn copies a whole block, and the last one ends with the access.
Entera(p, cant, n, F) ==
    /\ (p + cant) % BlockSize = 0
    /\ \A k \in 0..(n - 1) : MasDeUnBloque(F[k])

\* Segura, with its recursive function named.
LEMMA FormaSegura ==
    ASSUME NEW a \in [puntero : Nat, cant : Nat \ {0}], NEW n, n = BloquesAcceso(a.puntero, a.cant)
    PROVE  \E F : /\ Cuenta(F, a.puntero, a.cant, n)
                  /\ Segura(a) <=>
                       /\ n = Ultimo(a.puntero, a.cant) - a.puntero \div BlockSize + 1
                       /\ \/ a.puntero < BlockSize \/ n = 1 \/ (n = 2 /\ a.cant > BlockSize)
                          \/ Entera(a.puntero, a.cant, n, F)
  <1>1. PICK p, cant : p = a.puntero /\ cant = a.cant
    OBVIOUS
  <1>2. p \in Nat /\ cant \in Nat \ {0}
    BY <1>1
  <1>3. n \in Nat
    <2>1. PICK k, off, u : k = p \div BlockSize /\ off = p % BlockSize /\ u = Ultimo(p, cant)
      OBVIOUS
    <2> QED
      BY <1>1, <1>2, <2>1, Alcance
  <1>4. PICK F : F = CHOOSE f : f = [k \in 0..n |-> IF k = 0 THEN a.cant
                                     ELSE f[k - 1] - (BlockSize * k - (a.puntero % BlockSize))]
    OBVIOUS
  <1>5. F = [k \in 0..n |-> IF k = 0 THEN a.cant
                                     ELSE F[k - 1] - (BlockSize * k - (a.puntero % BlockSize))]
    BY <1>1, <1>2, <1>3, <1>4, CuentaExiste
  <1>6. Cuenta(F, a.puntero, a.cant, n)
    <2>1. PICK h : h = [k \in 0..n |-> IF k = 0 THEN a.cant
                                     ELSE F[k - 1] - (BlockSize * k - (a.puntero % BlockSize))]
      OBVIOUS
    <2>2. F = h
      BY <1>5, <2>1
    <2>3. 0 \in 0..n /\ \A k \in 1..n : k \in 0..n /\ k # 0
      BY <1>3
    <2> QED
      BY <2>1, <2>2, <2>3 DEF Cuenta
  <1>7. Segura(a) <=>
          /\ n = Ultimo(a.puntero, a.cant) - a.puntero \div BlockSize + 1
          /\ \/ a.puntero < BlockSize \/ n = 1 \/ (n = 2 /\ a.cant > BlockSize)
             \/ Entera(a.puntero, a.cant, n, F)
    BY <1>4 DEF Segura, Ultimo, Entera
  <1> QED
    BY <1>6, <1>7

\* While every turn before turn k copies a whole block, the state in turn k is this one.
EnVuelta(p, F, k) ==
    [off |-> IF k = 0 THEN p % BlockSize ELSE 0,
     pos |-> IF k = 0 THEN 0 ELSE BlockSize * k - (p % BlockSize),
     faltan |-> F[k]]

\* One turn of a whole block.
LEMMA VueltaEntera ==
    ASSUME NEW p \in Nat, NEW F, NEW n \in Nat, NEW cant, Cuenta(F, p, cant, n),
           NEW k \in Nat, k + 1 <= n, MasDeUnBloque(F[k])
    PROVE  PasoEstado(EnVuelta(p, F, k)) = EnVuelta(p, F, k + 1)
  <1>1. PICK off, x, y : off = p % BlockSize /\ x = BlockSize * k /\ y = BlockSize * (k + 1)
    OBVIOUS
  <1>2. off \in Nat /\ BlockSize \in Nat /\ x \in Nat /\ y = x + BlockSize /\ (k = 0 => x = 0)
    <2>1. off \in Nat /\ BlockSize \in Nat
      BY <1>1, Resto, Constantes
    <2>2. x \in Nat /\ y = x + BlockSize
      BY <1>1, BytesDe
    <2>3. k = 0 => x = 0
      BY <1>1, <2>1
    <2> QED
      BY <2>1, <2>2, <2>3
  <1>3. k + 1 \in 1..n /\ (k + 1) - 1 = k /\ k + 1 # 0
    OBVIOUS
  <1>4. F[k + 1] = F[k] - (y - off)
    BY <1>1, <1>3 DEF Cuenta
  <1>5. PICK e : e = EnVuelta(p, F, k)
    OBVIOUS
  <1>6. e.faltan = F[k] /\ e.pos + BlockSize - e.off = y - off
    <2>1. CASE k = 0
      <3>1. e.off = off /\ e.pos = 0 /\ e.faltan = F[k]
        BY <1>1, <1>5, <2>1 DEF EnVuelta
      <3> QED
        BY <1>2, <2>1, <3>1
    <2>2. CASE k # 0
      <3>1. e.off = 0 /\ e.pos = x - off /\ e.faltan = F[k]
        BY <1>1, <1>5, <2>2 DEF EnVuelta
      <3> QED
        BY <1>2, <3>1
    <2> QED
      BY <2>1, <2>2
  <1>7. PasoEstado(e) = [off |-> 0, pos |-> y - off, faltan |-> F[k] - (y - off)]
    BY <1>6 DEF PasoEstado
  <1>8. EnVuelta(p, F, k + 1) = [off |-> 0, pos |-> y - off, faltan |-> F[k + 1]]
    BY <1>1, <1>3 DEF EnVuelta
  <1> QED
    BY <1>4, <1>5, <1>7, <1>8

\* The loop, as long as every turn copies a whole block.
LEMMA VueltasEnteras ==
    ASSUME NEW p \in Nat, NEW cant \in Nat \ {0}, NEW n \in Nat, NEW g, EsEstado(g, p, cant, n),
           NEW F, Cuenta(F, p, cant, n), NEW k \in 0..n,
           \A j \in 0..(k - 1) : MasDeUnBloque(F[j])
    PROVE  g[k] = EnVuelta(p, F, k)
  <1>1. /\ g[0] = [off |-> p % BlockSize, pos |-> 0, faltan |-> cant]
        /\ \A i \in 0..n : i # 0 => g[i] = PasoEstado(g[i - 1])
    <2>1. 0 \in 0..n
      OBVIOUS
    <2> QED
      BY <2>1, Estados
  <1> DEFINE T == {m \in 0..k : g[m] # EnVuelta(p, F, m)}
  <1>2. ASSUME T # {} PROVE FALSE
    <2>1. T \subseteq Nat
      OBVIOUS
    <2>2. PICK m \in T : \A j \in T : m <= j
      <3> HIDE DEF T
      <3> QED
        BY <1>2, <2>1, MinimoExiste
    <2>3. m \in 0..k /\ g[m] # EnVuelta(p, F, m)
      OBVIOUS
    <2>4. m # 0
      <3>1. g[0] = EnVuelta(p, F, 0)
        BY <1>1 DEF EnVuelta, Cuenta
      <3> QED
        BY <2>3, <3>1
    <2>5. PICK j : j = m - 1
      OBVIOUS
    <2>6. j \in Nat /\ j + 1 = m /\ j + 1 <= n /\ j \in 0..(k - 1) /\ m \in 0..n /\ j \notin T /\ j \in 0..k
      <3> HIDE DEF T
      <3> QED
        BY <2>1, <2>2, <2>3, <2>4, <2>5
    <2>7. g[j] = EnVuelta(p, F, j)
      BY <2>6
    <2>8. g[m] = PasoEstado(g[j])
      BY <1>1, <2>4, <2>5, <2>6
    <2>9. PasoEstado(EnVuelta(p, F, j)) = EnVuelta(p, F, m)
      BY <2>6, VueltaEntera
    <2> QED
      BY <2>3, <2>7, <2>8, <2>9
  <1>3. k \in 0..k
    OBVIOUS
  <1> QED
    BY <1>2, <1>3

\* After a turn that is not of a whole block the state stays.
LEMMA QuedaParado ==
    ASSUME NEW p, NEW cant, NEW n \in Nat, NEW g, EsEstado(g, p, cant, n),
           NEW k \in 0..n, ~MasDeUnBloque(g[k].faltan), NEW i \in k..n
    PROVE  g[i] = g[k]
  <1>1. \A j \in 0..n : j # 0 => g[j] = PasoEstado(g[j - 1])
    <2>1. PICK h : h = [j \in 0..n |-> IF j = 0 THEN [off |-> p % BlockSize, pos |-> 0, faltan |-> cant]
                                       ELSE PasoEstado(g[j - 1])]
      OBVIOUS
    <2>2. g = h
      BY <2>1 DEF EsEstado
    <2> QED
      BY <2>1, <2>2
  <1> DEFINE T == {m \in k..n : g[m] # g[k]}
  <1>2. ASSUME T # {} PROVE FALSE
    <2>1. T \subseteq Nat
      OBVIOUS
    <2>2. PICK m \in T : \A j \in T : m <= j
      <3> HIDE DEF T
      <3> QED
        BY <1>2, <2>1, MinimoExiste
    <2>3. m \in k..n /\ g[m] # g[k] /\ m # k
      OBVIOUS
    <2>4. m - 1 \in k..n /\ m - 1 \notin T /\ m \in 0..n /\ m # 0
      <3> HIDE DEF T
      <3> QED
        BY <2>1, <2>2, <2>3
    <2>5. g[m - 1] = g[k]
      BY <2>4
    <2>6. g[m] = PasoEstado(g[k])
      BY <1>1, <2>4, <2>5
    <2> QED
      BY <2>3, <2>6 DEF PasoEstado
  <1> QED
    BY <1>2

\* From a later block, whole blocks up to the end of the access.
LEMMA IndirectoEntero ==
    ASSUME NEW p \in Nat, NEW cant \in Nat \ {0}, NEW n, n = BloquesAcceso(p, cant),
           n = Ultimo(p, cant) - p \div BlockSize + 1,
           NEW F, Cuenta(F, p, cant, n), Entera(p, cant, n, F)
    PROVE  /\ \A c \in DesdeIndirecto(p, cant) : Correcta(p, cant, c)
           /\ \A i \in 0..(cant - 1) : \E c \in DesdeIndirecto(p, cant) : c.pos <= i /\ i < c.pos + c.n
  <1>1. PICK k, off, u : k = p \div BlockSize /\ off = p % BlockSize /\ u = Ultimo(p, cant)
    OBVIOUS
  <1>2. /\ k \in Nat /\ off \in Nat /\ off < BlockSize /\ p = BlockSize * k + off /\ k <= u
        /\ u \in Nat /\ BlockSize * u <= p + cant - 1 /\ p + cant - 1 < BlockSize * u + BlockSize
    BY <1>1, Alcance
  <1>3. BlockSize \in Nat /\ BlockSize > 0 /\ n \in Nat /\ n >= 1 /\ u = k + n - 1
    <2>1. n = u - k + 1
      BY <1>1
    <2> QED
      BY <1>2, <2>1, Constantes
  <1>4. PICK g : EsEstado(g, p, cant, n) /\ DesdeIndirecto(p, cant) = CopiasIndirecto(p, n, g)
    BY <1>3, FormaIndirecto
  <1>5. p + cant = BlockSize * u + BlockSize
    <2>1. PICK q : q = (p + cant) \div BlockSize
      OBVIOUS
    <2>2. p + cant \in Nat
      OBVIOUS
    <2>3. q \in Nat /\ p + cant = BlockSize * q
      <3>1. q \in Nat /\ p + cant = BlockSize * q + ((p + cant) % BlockSize)
        BY <2>1, <2>2, Resto
      <3>2. BlockSize * q \in Nat /\ (p + cant) % BlockSize = 0
        BY <1>3, <3>1 DEF Entera
      <3> QED
        BY <3>1, <3>2
    <2>4. ASSUME q <= u PROVE FALSE
      <3>1. BlockSize * q <= BlockSize * u
        BY <1>2, <2>3, <2>4, BytesDe
      <3>2. BlockSize * q \in Nat /\ BlockSize * u \in Nat
        BY <1>2, <1>3, <2>3
      <3> QED
        BY <1>2, <2>3, <3>1, <3>2
    <2>5. u + 1 \in Nat /\ u + 1 <= q /\ u <= u
      BY <1>2, <2>3, <2>4
    <2>6. BlockSize * (u + 1) <= BlockSize * q /\ BlockSize * (u + 1) = BlockSize * u + BlockSize
      BY <1>2, <2>3, <2>5, BytesDe
    <2>7. BlockSize * u \in Nat /\ BlockSize * q \in Nat
      BY <1>2, <1>3, <2>3
    <2> QED
      BY <1>2, <1>3, <2>3, <2>6, <2>7
  <1>6. ASSUME NEW i \in 0..(n - 1)
        PROVE  CopiaEn(p, i, g[i])
                 = Copia(k + i, IF i = 0 THEN off ELSE 0, IF i = 0 THEN BlockSize - off ELSE BlockSize,
                         IF i = 0 THEN 0 ELSE BlockSize * i - off)
    <2>1. i \in 0..n /\ \A j \in 0..(i - 1) : j \in 0..(n - 1)
      BY <1>3
    <2>2. g[i] = EnVuelta(p, F, i)
      BY <1>3, <1>4, <2>1, VueltasEnteras DEF Entera
    <2>3. MasDeUnBloque(F[i])
      BY DEF Entera
    <2>4. BlockSize - 0 = BlockSize
      BY <1>3
    <2>5. CASE i = 0
      BY <1>1, <2>2, <2>3, <2>5 DEF CopiaEn, EnVuelta
    <2>6. CASE i # 0
      BY <1>1, <2>2, <2>3, <2>4, <2>6 DEF CopiaEn, EnVuelta
    <2> QED
      BY <2>5, <2>6
  <1>7. ASSUME NEW i \in 0..(n - 1)
        PROVE  /\ i \in Nat /\ k + i \in Nat /\ BlockSize * i \in Nat
               /\ BlockSize * (k + i) = BlockSize * k + BlockSize * i /\ BlockSize * k \in Nat
               /\ BlockSize * i + BlockSize <= cant + off
               /\ i # 0 => BlockSize <= BlockSize * i
               /\ i = 0 => BlockSize * i = 0
    <2>1. i \in Nat /\ k + i \in Nat /\ k + i <= u
      BY <1>2, <1>3
    <2>2. BlockSize * i \in Nat /\ BlockSize * k \in Nat /\ (i # 0 => BlockSize <= BlockSize * i)
          /\ (i = 0 => BlockSize * i = 0)
      <3>1. i <= i
        BY <2>1
      <3> QED
        BY <1>2, <1>3, <2>1, <3>1, BytesDe
    <2>3. BlockSize * (k + i) = BlockSize * k + BlockSize * i
      BY <1>2, <1>3, <2>1
    <2>4. BlockSize * (k + i) <= BlockSize * u
      BY <1>2, <2>1, BytesDe
    <2>5. BlockSize * u \in Nat
      BY <1>2, <1>3
    <2> QED
      BY <1>2, <1>3, <1>5, <2>1, <2>2, <2>3, <2>4, <2>5
  <1>8. ASSUME NEW i \in 0..(n - 1) PROVE Correcta(p, cant, CopiaEn(p, i, g[i]))
    <2>1. PICK c : c = CopiaEn(p, i, g[i])
      OBVIOUS
    <2>2. PICK x : x = BlockSize * i
      OBVIOUS
    <2>3. /\ c.bloque = k + i /\ c.desde = (IF i = 0 THEN off ELSE 0)
          /\ c.n = (IF i = 0 THEN BlockSize - off ELSE BlockSize)
          /\ c.pos = (IF i = 0 THEN 0 ELSE x - off)
      <3>1. PICK d, l, q : /\ d = (IF i = 0 THEN off ELSE 0)
                           /\ l = (IF i = 0 THEN BlockSize - off ELSE BlockSize)
                           /\ q = (IF i = 0 THEN 0 ELSE BlockSize * i - off)
        OBVIOUS
      <3>2. c = Copia(k + i, d, l, q)
        BY <1>6, <2>1, <3>1
      <3>3. c.bloque = k + i /\ c.desde = d /\ c.n = l /\ c.pos = q
        BY <3>2 DEF Copia
      <3> QED
        BY <2>2, <3>1, <3>3
    <2>4. BlockSize * c.bloque = BlockSize * k + x
      BY <1>7, <2>2, <2>3
    <2>5. /\ i \in Nat /\ k + i \in Nat /\ x \in Nat /\ BlockSize * k \in Nat
          /\ x + BlockSize <= cant + off /\ (i # 0 => BlockSize <= x) /\ (i = 0 => x = 0)
      BY <1>7, <2>2
    <2>6. Correcta(p, cant, c)
      BY <1>2, <1>3, <2>3, <2>4, <2>5 DEF Correcta
    <2> QED
      BY <2>1, <2>6
  <1>9. ASSUME NEW b \in 0..(cant - 1)
        PROVE  \E i \in 0..(n - 1) : CopiaEn(p, i, g[i]).pos <= b
                                     /\ b < CopiaEn(p, i, g[i]).pos + CopiaEn(p, i, g[i]).n
    <2>1. PICK m : m = (p + b) \div BlockSize
      OBVIOUS
    <2>2. p + b \in Nat /\ p \in Nat /\ p <= p + b /\ p + b <= p + cant - 1 /\ p + cant - 1 \in Nat
      OBVIOUS
    <2>3. m \in Nat /\ BlockSize * m <= p + b /\ p + b < BlockSize * m + BlockSize
      BY <1>3, <2>1, <2>2, Division
    <2>4. k <= m /\ m <= u
      BY <1>1, <1>3, <2>1, <2>2, DivisionMonotona DEF Ultimo
    <2>5. PICK i : i = m - k
      OBVIOUS
    <2>6. i \in 0..(n - 1) /\ m = k + i
      BY <1>2, <1>3, <2>3, <2>4, <2>5
    <2>7. PICK x, y : x = BlockSize * i /\ y = BlockSize * k
      OBVIOUS
    <2>8. BlockSize * m = y + x /\ x \in Nat /\ y \in Nat /\ p = y + off /\ (i = 0 => x = 0)
      BY <1>2, <1>7, <2>6, <2>7
    <2>9. PICK c : c = CopiaEn(p, i, g[i])
      OBVIOUS
    <2>10. /\ c.n = (IF i = 0 THEN BlockSize - off ELSE BlockSize)
           /\ c.pos = (IF i = 0 THEN 0 ELSE x - off)
      <3>1. PICK d, l, q : /\ d = (IF i = 0 THEN off ELSE 0)
                           /\ l = (IF i = 0 THEN BlockSize - off ELSE BlockSize)
                           /\ q = (IF i = 0 THEN 0 ELSE BlockSize * i - off)
        OBVIOUS
      <3>2. c = Copia(k + i, d, l, q)
        BY <1>6, <2>6, <2>9, <3>1
      <3>3. c.n = l /\ c.pos = q
        BY <3>2 DEF Copia
      <3> QED
        BY <2>7, <3>1, <3>3
    <2>11. c.pos <= b /\ b < c.pos + c.n
      BY <1>2, <1>3, <2>3, <2>8, <2>10
    <2> QED
      BY <2>6, <2>9, <2>11
  <1>10. \A c \in DesdeIndirecto(p, cant) : Correcta(p, cant, c)
    BY <1>4, <1>8 DEF CopiasIndirecto
  <1>11. ASSUME NEW b \in 0..(cant - 1)
         PROVE  \E c \in DesdeIndirecto(p, cant) : c.pos <= b /\ b < c.pos + c.n
    <2>1. PICK i \in 0..(n - 1) : CopiaEn(p, i, g[i]).pos <= b
                                  /\ b < CopiaEn(p, i, g[i]).pos + CopiaEn(p, i, g[i]).n
      BY <1>9
    <2>2. CopiaEn(p, i, g[i]) \in DesdeIndirecto(p, cant)
      BY <1>4 DEF CopiasIndirecto
    <2> QED
      BY <2>1, <2>2
  <1> QED
    BY <1>10, <1>11

\* A turn of the loop when what is left was already counted wrong: it stays so.
Escaso(cant, e) ==
    /\ e.off \in Nat /\ e.off < BlockSize
    /\ e.pos \in Nat /\ e.faltan \in Int
    /\ e.pos + e.faltan < cant

\* From the third turn on, cant_bytes is less than what is left.
LEMMA CuentaEscasa ==
    ASSUME NEW p \in Nat, NEW cant \in Nat \ {0}, NEW n \in Nat, n >= 3, NEW g, EsEstado(g, p, cant, n),
           (p % BlockSize) + cant > BlockSize * 2,
           NEW i \in 2..n
    PROVE  Escaso(cant, g[i])
  <1>1. PICK off : off = p % BlockSize
    OBVIOUS
  <1>2. off \in Nat /\ off < BlockSize /\ BlockSize \in Nat /\ BlockSize > 0 /\ off + cant > BlockSize + BlockSize
    <2>1. off \in Nat /\ off < BlockSize /\ BlockSize \in Nat /\ BlockSize > 0
      BY <1>1, Resto, Constantes
    <2>2. BlockSize * 2 = BlockSize + BlockSize
      BY <2>1
    <2> QED
      BY <1>1, <2>1, <2>2
  <1>3. /\ g[0] = [off |-> off, pos |-> 0, faltan |-> cant]
        /\ \A j \in 0..n : j # 0 => g[j] = PasoEstado(g[j - 1])
    BY <1>1, Estados
  <1>4. g[1] = [off |-> 0, pos |-> BlockSize - off, faltan |-> cant - (BlockSize - off)]
    <2>1. g[1] = PasoEstado(g[0])
      <3>1. 1 \in 0..n /\ 1 - 1 = 0
        OBVIOUS
      <3> QED
        BY <1>3, <3>1
    <2>2. MasDeUnBloque(cant) /\ 0 + BlockSize - off = BlockSize - off
      BY <1>2 DEF MasDeUnBloque
    <2> QED
      BY <1>3, <2>1, <2>2 DEF PasoEstado
  <1>5. Escaso(cant, g[2])
    <2>1. g[2] = PasoEstado(g[1])
      <3>1. 2 \in 0..n /\ 2 - 1 = 1
        OBVIOUS
      <3> QED
        BY <1>3, <3>1
    <2>2. MasDeUnBloque(cant - (BlockSize - off))
      BY <1>2 DEF MasDeUnBloque
    <2>3. PICK d : d = BlockSize - off
      OBVIOUS
    <2>4. g[2] = [off |-> 0, pos |-> d + BlockSize - 0, faltan |-> (cant - d) - (d + BlockSize - 0)]
      BY <1>4, <2>1, <2>2, <2>3 DEF PasoEstado
    <2> QED
      BY <1>2, <2>3, <2>4 DEF Escaso
  <1>6. ASSUME NEW e, Escaso(cant, e) PROVE Escaso(cant, PasoEstado(e))
    BY <1>2, <1>6 DEF PasoEstado, Escaso
  <1> DEFINE T == {j \in 2..n : ~Escaso(cant, g[j])}
  <1>7. ASSUME T # {} PROVE FALSE
    <2>1. T \subseteq Nat
      OBVIOUS
    <2>2. PICK m \in T : \A j \in T : m <= j
      <3> HIDE DEF T
      <3> QED
        BY <1>7, <2>1, MinimoExiste
    <2>3. m \in 2..n /\ ~Escaso(cant, g[m])
      OBVIOUS
    <2>4. m # 2
      BY <1>5, <2>3
    <2>5. m - 1 \in 2..n /\ m \in 0..n /\ m # 0 /\ m - 1 \notin T
      <3> HIDE DEF T
      <3> QED
        BY <2>1, <2>2, <2>3, <2>4
    <2>6. Escaso(cant, g[m - 1])
      BY <2>5
    <2>7. g[m] = PasoEstado(g[m - 1])
      BY <1>3, <2>5
    <2> QED
      BY <1>6, <2>3, <2>6, <2>7
  <1> QED
    BY <1>7

-----------------------------------------------------------------------------
(* The others are not                                                      *)

\* What is copied, one byte at a time.
LEMMA ByteMovido ==
    ASSUME NEW a, NEW m \in Movidos(a)
    PROVE  \E c \in Copias(a.puntero, a.cant) : \E j \in 0..(c.n - 1) :
             m = <<c.pos + j, c.bloque, c.desde + j>>
  BY DEF Movidos

\* The block number of every copy.
LEMMA HastaBloque ==
    ASSUME NEW p \in Nat, NEW cant \in Nat \ {0}, NEW c \in Copias(p, cant)
    PROVE  c.bloque \in Nat /\ c.bloque <= p \div BlockSize + BloquesAcceso(p, cant) - 1
  <1>1. PICK k, n : k = p \div BlockSize /\ n = BloquesAcceso(p, cant)
    OBVIOUS
  <1>2. k \in Nat /\ n \in Nat /\ n >= 1
    <2>1. PICK off, u : off = p % BlockSize /\ u = Ultimo(p, cant)
      OBVIOUS
    <2> QED
      BY <1>1, <2>1, Alcance
  <1>3. CASE p < BlockSize
    <2>1. PICK v : v = n - 1
      OBVIOUS
    <2>2. v \in Nat
      BY <1>2, <2>1
    <2>3. PICK h : DesdePrimero(p, cant) = CopiasPrimero(p, cant, v, h)
      BY <1>1, <2>1, <2>2, FormaPrimero
    <2>4. c \in CopiasPrimero(p, cant, v, h)
      BY <1>3, <2>3 DEF Copias
    <2>5. c.bloque = 0 \/ \E i \in 0..(v - 1) : c.bloque = i + 1
      BY <2>4 DEF CopiasPrimero, Copia
    <2> QED
      BY <1>1, <1>2, <2>1, <2>2, <2>5
  <1>4. CASE ~(p < BlockSize)
    <2>1. PICK g : DesdeIndirecto(p, cant) = CopiasIndirecto(p, n, g)
      BY <1>1, <1>2, FormaIndirecto
    <2>2. PICK i \in 0..(n - 1) : c = CopiaEn(p, i, g[i])
      BY <1>4, <2>1 DEF Copias, CopiasIndirecto
    <2>3. c.bloque = k + i
      BY <1>1, <2>2 DEF CopiaEn, Copia
    <2> QED
      BY <1>1, <1>2, <2>3
  <1> QED
    BY <1>3, <1>4

\* The last byte of an access is to be copied.
LEMMA UltimoByte ==
    ASSUME NEW a \in [puntero : Nat, cant : Nat \ {0}]
    PROVE  \E o : <<a.cant - 1, Ultimo(a.puntero, a.cant), o>> \in Debidos(a)
  <1>1. PICK i : i = a.cant - 1
    OBVIOUS
  <1>2. i \in 0..(a.cant - 1) /\ a.puntero + i = a.puntero + a.cant - 1
    BY <1>1
  <1>3. <<i, (a.puntero + i) \div BlockSize, (a.puntero + i) % BlockSize>> \in Debidos(a)
    BY <1>2 DEF Debidos
  <1>4. (a.puntero + i) \div BlockSize = Ultimo(a.puntero, a.cant)
    BY <1>2 DEF Ultimo
  <1> QED
    BY <1>1, <1>3, <1>4

\* With too few blocks the last byte is not copied.
LEMMA FaltanBloques ==
    ASSUME NEW a \in [puntero : Nat, cant : Nat \ {0}], Movidos(a) = Debidos(a)
    PROVE  BloquesAcceso(a.puntero, a.cant)
             = Ultimo(a.puntero, a.cant) - a.puntero \div BlockSize + 1
  <1>1. PICK p, cant : p = a.puntero /\ cant = a.cant
    OBVIOUS
  <1>2. p \in Nat /\ cant \in Nat \ {0}
    BY <1>1
  <1>3. PICK k, off, u, n : /\ k = p \div BlockSize /\ off = p % BlockSize
                            /\ u = Ultimo(p, cant) /\ n = BloquesAcceso(p, cant)
    OBVIOUS
  <1>4. k \in Nat /\ u \in Nat /\ n \in Nat /\ n <= u - k + 1
    BY <1>2, <1>3, Alcance
  <1>5. PICK o : <<cant - 1, u, o>> \in Movidos(a)
    BY <1>1, <1>3, UltimoByte
  <1>6. PICK c \in Copias(p, cant) : \E j \in 0..(c.n - 1) :
          <<cant - 1, u, o>> = <<c.pos + j, c.bloque, c.desde + j>>
    BY <1>1, <1>5, ByteMovido
  <1>7. c.bloque = u
    BY <1>6
  <1>8. u <= k + n - 1
    BY <1>2, <1>3, <1>7, HastaBloque
  <1> QED
    BY <1>1, <1>3, <1>4, <1>8

\* From a later block the others are not copied right: the first turn that does not
\* copy a whole block is the last one that advances, too early; and with none, the last
\* copy passes the end of the access.
LEMMA IndirectoInexacto ==
    ASSUME NEW a \in [puntero : Nat, cant : Nat \ {0}], ~(a.puntero < BlockSize),
           Movidos(a) = Debidos(a), NEW n, n = BloquesAcceso(a.puntero, a.cant),
           NEW F, Cuenta(F, a.puntero, a.cant, n)
    PROVE  n = 1 \/ (n = 2 /\ a.cant > BlockSize) \/ Entera(a.puntero, a.cant, n, F)
  <1>1. PICK p, cant : p = a.puntero /\ cant = a.cant
    OBVIOUS
  <1>2. p \in Nat /\ cant \in Nat \ {0}
    BY <1>1
  <1>3. PICK k, off, u : k = p \div BlockSize /\ off = p % BlockSize /\ u = Ultimo(p, cant)
    OBVIOUS
  <1>4. /\ k \in Nat /\ off \in Nat /\ off < BlockSize /\ p = BlockSize * k + off
        /\ u \in Nat /\ BlockSize * u <= p + cant - 1
        /\ n \in Nat /\ n >= 1
    BY <1>1, <1>2, <1>3, Alcance
  <1>5. n = u - k + 1
    BY <1>1, <1>3, FaltanBloques
  <1>6. u = k + (n - 1) /\ BlockSize \in Nat /\ BlockSize > 0
    BY <1>4, <1>5, Constantes
  <1>7. PICK g : EsEstado(g, p, cant, n) /\ DesdeIndirecto(p, cant) = CopiasIndirecto(p, n, g)
    BY <1>1, <1>2, <1>4, FormaIndirecto
  <1>8. Copias(p, cant) = CopiasIndirecto(p, n, g)
    BY <1>1, <1>7 DEF Copias
  <1>9. ASSUME n = 2, ~(cant > BlockSize) PROVE FALSE
    <2>1. BlockSize * k \in Nat /\ BlockSize * u = BlockSize * k + BlockSize /\ off + cant - 1 >= BlockSize
      <3>1. u = k + 1
        BY <1>4, <1>6, <1>9
      <3>2. BlockSize * k \in Nat /\ BlockSize * (k + 1) = BlockSize * k + BlockSize
        BY <1>4, BytesDe
      <3> QED
        BY <1>2, <1>4, <1>6, <3>1, <3>2
    <2>2. g[0] = [off |-> off, pos |-> 0, faltan |-> cant]
      <3>1. 0 \in 0..n
        BY <1>9
      <3> QED
        BY <1>3, <1>7, <3>1, Estados
    <2>3. PICK c : c = CopiaEn(p, 0, g[0])
      OBVIOUS
    <2>4. c \in Copias(p, cant) /\ c.desde = off /\ c.pos = 0 /\ c.n = cant
      <3>1. c \in CopiasIndirecto(p, n, g)
        BY <1>9, <2>3 DEF CopiasIndirecto
      <3>2. ~MasDeUnBloque(cant)
        BY <1>2, <1>6, <1>9 DEF MasDeUnBloque
      <3> QED
        BY <1>8, <2>2, <2>3, <3>1, <3>2 DEF CopiaEn, Copia
    <2>5. <<c.pos + (cant - 1), c.bloque, c.desde + (cant - 1)>> \in Movidos(a)
      <3>1. cant - 1 \in 0..(c.n - 1)
        BY <1>2, <2>4
      <3> QED
        BY <1>1, <2>4, <3>1 DEF Movidos
    <2>6. PICK i \in 0..(cant - 1) :
            <<c.pos + (cant - 1), c.bloque, c.desde + (cant - 1)>>
              = <<i, (p + i) \div BlockSize, (p + i) % BlockSize>>
      BY <1>1, <2>5 DEF Debidos
    <2>7. c.desde + (cant - 1) = (p + i) % BlockSize /\ p + i \in Nat
      BY <1>2, <2>6
    <2>8. off + (cant - 1) < BlockSize
      BY <2>4, <2>7, Resto
    <2> QED
      BY <1>2, <1>4, <1>6, <2>1, <2>8
  <1>10. ASSUME n >= 3 PROVE Entera(p, cant, n, F)
    <2>1. off + cant > BlockSize * 2
      <3>1. BlockSize * (k + (n - 1)) = BlockSize * k + BlockSize * (n - 1)
        BY <1>4, <1>6
      <3>2. BlockSize * k \in Nat /\ BlockSize * (n - 1) \in Nat /\ BlockSize * 2 <= BlockSize * (n - 1)
        <4>1. n - 1 \in Nat /\ 2 <= n - 1
          BY <1>4, <1>10
        <4> QED
          BY <1>4, <4>1, BytesDe
      <3> QED
        BY <1>2, <1>4, <1>6, <3>1, <3>2
    <2>2. PICK o : <<cant - 1, u, o>> \in Movidos(a)
      BY <1>1, <1>3, UltimoByte
    <2>3. PICK c \in Copias(p, cant) : \E j \in 0..(c.n - 1) :
            <<cant - 1, u, o>> = <<c.pos + j, c.bloque, c.desde + j>>
      BY <1>1, <2>2, ByteMovido
    <2>4. PICK j \in 0..(c.n - 1) : c.pos + j = cant - 1 /\ c.bloque = u
      BY <2>3
    <2>5. PICK i \in 0..(n - 1) : c = CopiaEn(p, i, g[i])
      BY <1>8 DEF CopiasIndirecto
    <2>6. c.bloque = k + i
      BY <1>3, <2>5 DEF CopiaEn, Copia
    <2>7. i = n - 1 /\ i \in 2..n /\ i \in 0..n
      BY <1>4, <1>6, <1>10, <2>4, <2>6
    <2>8. Escaso(cant, g[i])
      BY <1>2, <1>3, <1>4, <1>7, <1>10, <2>1, <2>7, CuentaEscasa
    <2>9. MasDeUnBloque(g[i].faltan)
      <3>1. ASSUME ~MasDeUnBloque(g[i].faltan) PROVE FALSE
        <4>1. c.pos = g[i].pos /\ c.n = g[i].faltan
          BY <2>5, <3>1 DEF CopiaEn, Copia
        <4>2. c.pos \in Nat /\ c.n \in Int /\ c.pos + c.n < cant
          BY <2>8, <4>1 DEF Escaso
        <4> QED
          BY <1>2, <2>4, <4>2
      <3> QED
        BY <3>1
    <2>10. ASSUME NEW w \in 0..(n - 1), ~MasDeUnBloque(F[w]) PROVE FALSE
      <3> DEFINE T == {x \in 0..(n - 1) : ~MasDeUnBloque(F[x])}
      <3>1. T \subseteq Nat /\ T # {}
        BY <2>10
      <3>2. PICK m \in T : \A x \in T : m <= x
        <4> HIDE DEF T
        <4> QED
          BY <3>1, MinimoExiste
      <3>3. m \in 0..(n - 1) /\ ~MasDeUnBloque(F[m])
        OBVIOUS
      <3>4. ASSUME NEW x \in 0..(m - 1) PROVE MasDeUnBloque(F[x])
        <4>1. x \in 0..(n - 1) /\ ~(m <= x)
          BY <1>4, <3>3
        <4>2. x \notin T
          <5> HIDE DEF T
          <5> QED
            BY <3>2, <4>1
        <4> QED
          BY <4>1, <4>2
      <3> HIDE DEF T
      <3>5. m \in 0..n /\ i \in m..n
        BY <1>4, <2>7, <3>3
      <3>6. g[m] = EnVuelta(p, F, m)
        <4>1. Cuenta(F, p, cant, n)
          BY <1>1
        <4> QED
          BY <1>2, <1>4, <1>7, <3>4, <3>5, <4>1, VueltasEnteras
      <3>7. ~MasDeUnBloque(g[m].faltan)
        BY <3>3, <3>6 DEF EnVuelta
      <3>8. g[i] = g[m]
        BY <1>4, <1>7, <3>5, <3>7, QuedaParado
      <3> QED
        BY <2>9, <3>7, <3>8
    <2>11. \A x \in 0..(n - 1) : MasDeUnBloque(F[x])
      BY <2>10
    <2>12. g[i] = EnVuelta(p, F, i)
      <3>1. Cuenta(F, p, cant, n) /\ \A x \in 0..(i - 1) : x \in 0..(n - 1)
        BY <1>1, <1>4, <2>7
      <3> QED
        BY <1>2, <1>4, <1>7, <2>7, <2>11, <3>1, VueltasEnteras
    <2>13. PICK x : x = BlockSize * i
      OBVIOUS
    <2>14. c.pos = x - off /\ c.n = BlockSize /\ BlockSize <= x /\ x \in Nat
           /\ BlockSize * u = BlockSize * k + x /\ BlockSize * k \in Nat
      <3>1. i # 0 /\ i \in Nat /\ i <= i /\ u = k + i
        BY <1>6, <1>10, <2>7
      <3>2. g[i].off = 0 /\ g[i].pos = x - off
        BY <1>3, <2>12, <2>13, <3>1 DEF EnVuelta
      <3>3. c.pos = x - off /\ c.n = BlockSize - 0
        BY <2>5, <2>9, <3>2 DEF CopiaEn, Copia
      <3>4. BlockSize <= x /\ x \in Nat /\ BlockSize * k \in Nat
        BY <1>4, <1>6, <2>13, <3>1, BytesDe
      <3>5. BlockSize * (k + i) = BlockSize * k + BlockSize * i
        BY <1>4, <1>6, <3>1
      <3> QED
        BY <1>6, <2>13, <3>1, <3>3, <3>4, <3>5
    <2>15. <<c.pos + (BlockSize - 1), c.bloque, c.desde + (BlockSize - 1)>> \in Movidos(a)
      <3>1. BlockSize - 1 \in 0..(c.n - 1)
        BY <1>6, <2>14
      <3> QED
        BY <1>1, <3>1 DEF Movidos
    <2>16. PICK b \in 0..(cant - 1) :
             <<c.pos + (BlockSize - 1), c.bloque, c.desde + (BlockSize - 1)>>
               = <<b, (p + b) \div BlockSize, (p + b) % BlockSize>>
      BY <1>1, <2>15 DEF Debidos
    <2>17. c.pos + (BlockSize - 1) <= cant - 1
      BY <1>2, <2>16
    <2>18. p + cant = BlockSize * u + BlockSize /\ BlockSize * u \in Nat
      <3>1. p + cant - 1 < BlockSize * u + BlockSize
        BY <1>2, <1>3, Alcance
      <3> QED
        BY <1>2, <1>4, <1>6, <2>14, <2>17, <3>1
    <2>19. (p + cant) % BlockSize = 0
      <3>1. u + 1 \in Nat /\ u <= u
        BY <1>4
      <3>2. BlockSize * (u + 1) = BlockSize * u + BlockSize
        BY <1>4, <3>1, BytesDe
      <3>3. p + cant \in Nat /\ p + cant = BlockSize * (u + 1) + 0 /\ 0 \in Nat /\ 0 < BlockSize
        BY <1>2, <1>6, <2>18, <3>2
      <3> QED
        BY <3>1, <3>3, BloqueUnico
    <2> QED
      BY <2>11, <2>19 DEF Entera
  <1> QED
    BY <1>1, <1>4, <1>9, <1>10

\* Segura describes the accesses that are copied right, whatever the size of a block.
LEMMA Exactitud ==
    ASSUME NEW a \in [puntero : Nat, cant : Nat \ {0}]
    PROVE  Segura(a) <=> (~Desborda(a) /\ Movidos(a) = Debidos(a))
  <1>1. PICK p, cant, n : p = a.puntero /\ cant = a.cant /\ n = BloquesAcceso(p, cant)
    OBVIOUS
  <1>2. p \in Nat /\ cant \in Nat \ {0}
    BY <1>1
  <1>3. PICK F : /\ Cuenta(F, p, cant, n)
                 /\ Segura(a) <=> /\ n = Ultimo(p, cant) - p \div BlockSize + 1
                                  /\ \/ p < BlockSize \/ n = 1 \/ (n = 2 /\ cant > BlockSize)
                                     \/ Entera(p, cant, n, F)
    BY <1>1, FormaSegura
  <1>4. ASSUME Segura(a) PROVE ~Desborda(a) /\ Movidos(a) = Debidos(a)
    <2>1. CASE p < BlockSize
      <3>1. p \div BlockSize = 0
        <4>1. p = BlockSize * 0 + p
          BY <1>2, Constantes
        <4> QED
          BY <1>2, <2>1, <4>1, BloqueUnico
      <3>2. Ultimo(p, cant) \in Nat
        <4>1. p + cant - 1 \in Nat
          BY <1>2
        <4> QED
          BY <4>1, Resto DEF Ultimo
      <3>3. BloquesAcceso(p, cant) = Ultimo(p, cant) + 1
        BY <1>1, <1>3, <1>4, <3>1, <3>2
      <3>4. /\ \A c \in DesdePrimero(p, cant) : Correcta(p, cant, c)
            /\ \A i \in 0..(cant - 1) : \E c \in DesdePrimero(p, cant) : c.pos <= i /\ i < c.pos + c.n
        BY <1>2, <2>1, <3>3, PrimeroExacto
      <3>5. Copias(p, cant) = DesdePrimero(p, cant)
        BY <2>1 DEF Copias
      <3> QED
        BY <1>1, <3>4, <3>5, CopiasCorrectas
    <2>2. CASE ~(p < BlockSize)
      <3>1. /\ \A c \in DesdeIndirecto(p, cant) : Correcta(p, cant, c)
            /\ \A i \in 0..(cant - 1) : \E c \in DesdeIndirecto(p, cant) : c.pos <= i /\ i < c.pos + c.n
        <4>1. n = Ultimo(p, cant) - p \div BlockSize + 1
          BY <1>3, <1>4
        <4>2. CASE n = 1 \/ (n = 2 /\ cant > BlockSize)
          BY <1>1, <1>2, <4>1, <4>2, IndirectoExacto
        <4>3. CASE Entera(p, cant, n, F)
          BY <1>1, <1>2, <1>3, <4>1, <4>3, IndirectoEntero
        <4> QED
          BY <1>3, <1>4, <2>2, <4>2, <4>3
      <3>2. Copias(p, cant) = DesdeIndirecto(p, cant)
        BY <2>2 DEF Copias
      <3> QED
        BY <1>1, <3>1, <3>2, CopiasCorrectas
    <2> QED
      BY <2>1, <2>2
  <1>5. ASSUME Movidos(a) = Debidos(a) PROVE Segura(a)
    <2>1. n = Ultimo(p, cant) - p \div BlockSize + 1
      BY <1>1, <1>5, FaltanBloques
    <2>2. p < BlockSize \/ n = 1 \/ (n = 2 /\ cant > BlockSize) \/ Entera(p, cant, n, F)
      BY <1>1, <1>3, <1>5, IndirectoInexacto
    <2> QED
      BY <1>3, <2>1, <2>2
  <1> QED
    BY <1>4, <1>5

\* Of the accesses within a file, the ones copied right are those that Segura describes,
\* whatever the size of a block, and whatever the programs ask for.
THEOREM FileSystemSeguraEsExacta == Spec => []SeguraEsExacta
  <1>1. Tipos => SeguraEsExacta
    <2> SUFFICES ASSUME Tipos, NEW f \in existe,
                        NEW a \in [puntero : 0..fcb[f].tamanio, cant : 1..fcb[f].tamanio]
                 PROVE  Segura(a) <=> (~Desborda(a) /\ Movidos(a) = Debidos(a))
      BY DEF SeguraEsExacta
    <2>1. fcb[f].tamanio \in Nat
      BY DEF Tipos, FcbEnDisco
    <2>2. a \in [puntero : Nat, cant : Nat \ {0}]
      BY <2>1
    <2> QED
      BY <2>2, Exactitud
  <1> QED
    BY <1>1, InitTipos, NextTipos, PTL DEF Spec

-----------------------------------------------------------------------------
(* Types                                                                   *)

\* A copy from a place of the stream on, right or wrong.
EnElFlujo(c) == c.pos \in Nat /\ c.n \in Int

\* That is what the loop from the first block does.
LEMMA FlujoPrimero ==
    ASSUME NEW p \in Nat, p < BlockSize, NEW cant \in Nat \ {0}, NEW c \in DesdePrimero(p, cant)
    PROVE  EnElFlujo(c)
  <1>1. PICK u, v : u = Ultimo(p, cant) /\ v = BloquesAcceso(p, cant) - 1
    OBVIOUS
  <1>2. BlockSize \in Nat /\ BlockSize > 0 /\ p \div BlockSize = 0
    <2>1. BlockSize \in Nat /\ BlockSize > 0 /\ p = BlockSize * 0 + p
      BY Constantes
    <2> QED
      BY <2>1, BloqueUnico
  <1>3. u \in Nat /\ BlockSize * u <= p + cant - 1 /\ v \in Nat /\ v <= u
    <2>1. PICK off, n : off = p % BlockSize /\ n = BloquesAcceso(p, cant)
      OBVIOUS
    <2>2. u \in Nat /\ BlockSize * u <= p + cant - 1 /\ n \in Nat /\ n >= 1 /\ n <= u - 0 + 1
      BY <1>1, <1>2, <2>1, Alcance
    <2> QED
      BY <1>1, <2>1, <2>2
  <1>4. PICK h : EsHechos(h, p, cant, v) /\ DesdePrimero(p, cant) = CopiasPrimero(p, cant, v, h)
    BY <1>1, <1>3, FormaPrimero
  <1>5. CASE v = 0
    <2>1. c = Copia(0, p, cant, 0)
      BY <1>4, <1>5 DEF CopiasPrimero
    <2> QED
      BY <2>1 DEF Copia, EnElFlujo
  <1>6. CASE v # 0
    <2>1. BlockSize - p \in Nat /\ BlockSize - p <= cant
      <3>1. u # 0 /\ u <= u
        BY <1>3, <1>6
      <3>2. BlockSize <= BlockSize * u /\ BlockSize * u \in Nat
        BY <1>3, <3>1, BytesDe
      <3> QED
        BY <1>2, <1>3, <3>2
    <2>2. \A i \in 0..v : h[i] = IF i = 0 THEN BlockSize - p
                                 ELSE IF MasDeUnBloque(cant - h[i - 1]) THEN h[i - 1] + BlockSize ELSE h[i - 1]
      <3>1. PICK g : g = [i \in 0..v |-> IF i = 0 THEN BlockSize - p
                        ELSE IF MasDeUnBloque(cant - h[i - 1]) THEN h[i - 1] + BlockSize ELSE h[i - 1]]
        OBVIOUS
      <3>2. h = g
        BY <1>4, <3>1 DEF EsHechos
      <3> QED
        BY <3>1, <3>2
    <2> DEFINE T == {k \in 0..v : h[k] \notin Nat}
    <2>3. ASSUME T # {} PROVE FALSE
      <3>1. T \subseteq Nat
        OBVIOUS
      <3>2. PICK m \in T : \A k \in T : m <= k
        <4> HIDE DEF T
        <4> QED
          BY <2>3, <3>1, MinimoExiste
      <3>3. m \in 0..v /\ h[m] \notin Nat
        OBVIOUS
      <3>4. m # 0
        BY <2>1, <2>2, <3>3
      <3>5. m - 1 \in 0..v /\ m - 1 \notin T
        <4> HIDE DEF T
        <4> QED
          BY <1>3, <3>1, <3>2, <3>3, <3>4
      <3>6. h[m - 1] \in Nat
        BY <3>5
      <3>7. h[m] = IF MasDeUnBloque(cant - h[m - 1]) THEN h[m - 1] + BlockSize ELSE h[m - 1]
        BY <2>2, <3>3, <3>4
      <3> QED
        BY <1>2, <3>3, <3>6, <3>7
    <2>4. \A i \in 0..v : h[i] \in Nat
      BY <2>3
    <2>5. CASE c = Copia(0, p, BlockSize - p, 0)
      BY <2>1, <2>5 DEF Copia, EnElFlujo
    <2>6. CASE c # Copia(0, p, BlockSize - p, 0)
      <3>1. PICK i \in 0..(v - 1) :
              c = Copia(i + 1, 0, IF MasDeUnBloque(cant - h[i]) THEN BlockSize ELSE cant - h[i], h[i])
        BY <1>4, <1>6, <2>6 DEF CopiasPrimero
      <3>2. i \in 0..v
        BY <1>3
      <3>3. c.pos = h[i] /\ c.n = IF MasDeUnBloque(cant - h[i]) THEN BlockSize ELSE cant - h[i]
        BY <3>1 DEF Copia
      <3> QED
        BY <1>2, <2>4, <3>2, <3>3 DEF EnElFlujo
    <2> QED
      BY <2>5, <2>6
  <1> QED
    BY <1>5, <1>6

\* A state of the loop.
Alcanza(e) ==
    /\ e.off \in Nat /\ e.off < BlockSize
    /\ e.pos \in Nat /\ e.faltan \in Int

\* So does the loop from a later block.
LEMMA FlujoIndirecto ==
    ASSUME NEW p \in Nat, NEW cant \in Nat \ {0}, NEW c \in DesdeIndirecto(p, cant)
    PROVE  EnElFlujo(c)
  <1>1. PICK k, off, u, n : /\ k = p \div BlockSize /\ off = p % BlockSize
                            /\ u = Ultimo(p, cant) /\ n = BloquesAcceso(p, cant)
    OBVIOUS
  <1>2. off \in Nat /\ off < BlockSize /\ n \in Nat /\ n >= 1 /\ BlockSize \in Nat /\ BlockSize > 0
    BY <1>1, Alcance, Constantes
  <1>3. PICK g : EsEstado(g, p, cant, n) /\ DesdeIndirecto(p, cant) = CopiasIndirecto(p, n, g)
    BY <1>1, <1>2, FormaIndirecto
  <1>4. /\ g[0] = [off |-> off, pos |-> 0, faltan |-> cant]
        /\ \A j \in 0..n : j # 0 => g[j] = PasoEstado(g[j - 1])
    <2>1. 0 \in 0..n
      BY <1>2
    <2> QED
      BY <1>1, <1>3, <2>1, Estados
  <1>5. Alcanza(g[0])
    BY <1>2, <1>4 DEF Alcanza
  <1>6. ASSUME NEW e, Alcanza(e) PROVE Alcanza(PasoEstado(e))
    BY <1>2, <1>6 DEF PasoEstado, Alcanza
  <1> DEFINE T == {j \in 0..n : ~Alcanza(g[j])}
  <1>7. ASSUME T # {} PROVE FALSE
    <2>1. T \subseteq Nat
      OBVIOUS
    <2>2. PICK m \in T : \A j \in T : m <= j
      <3> HIDE DEF T
      <3> QED
        BY <1>7, <2>1, MinimoExiste
    <2>3. m \in 0..n /\ ~Alcanza(g[m])
      OBVIOUS
    <2>4. m # 0
      BY <1>5, <2>3
    <2>5. m - 1 \in 0..n /\ m - 1 \notin T
      <3> HIDE DEF T
      <3> QED
        BY <1>2, <2>1, <2>2, <2>3, <2>4
    <2>6. Alcanza(g[m - 1])
      BY <2>5
    <2>7. g[m] = PasoEstado(g[m - 1])
      BY <1>4, <2>3, <2>4
    <2> QED
      BY <1>6, <2>3, <2>6, <2>7
  <1>8. PICK i \in 0..(n - 1) : c = CopiaEn(p, i, g[i])
    BY <1>3 DEF CopiasIndirecto
  <1>9. Alcanza(g[i])
    <2>1. i \in 0..n
      BY <1>2
    <2> QED
      BY <1>7, <2>1
  <1> QED
    BY <1>2, <1>8, <1>9 DEF CopiaEn, Copia, Alcanza, EnElFlujo

\* Every byte that is copied has a place in the stream, or past its end, and is in a
\* block up to the last.
LEMMA MovidosEnElFlujo ==
    ASSUME NEW a \in [puntero : Nat, cant : Nat \ {0}], NEW m \in Movidos(a)
    PROVE  /\ m[1] \in Nat /\ m[2] \in Nat
           /\ m[2] <= a.puntero \div BlockSize + BloquesAcceso(a.puntero, a.cant) - 1
  <1>1. PICK p, cant : p = a.puntero /\ cant = a.cant
    OBVIOUS
  <1>2. p \in Nat /\ cant \in Nat \ {0}
    BY <1>1
  <1>3. PICK c \in Copias(p, cant) : \E j \in 0..(c.n - 1) : m = <<c.pos + j, c.bloque, c.desde + j>>
    BY <1>1, ByteMovido
  <1>4. PICK j \in 0..(c.n - 1) : m = <<c.pos + j, c.bloque, c.desde + j>>
    BY <1>3
  <1>5. EnElFlujo(c)
    BY <1>2, FlujoPrimero, FlujoIndirecto DEF Copias
  <1>6. c.bloque \in Nat /\ c.bloque <= p \div BlockSize + BloquesAcceso(p, cant) - 1
    BY <1>2, HastaBloque
  <1>7. m[1] = c.pos + j /\ m[2] = c.bloque
    BY <1>4
  <1>8. m[1] \in Nat
    BY <1>2, <1>5, <1>7 DEF EnElFlujo
  <1> QED
    BY <1>1, <1>6, <1>7, <1>8

\* A set of naturals with a bound has a greatest element, so Ultima is one of the bytes.
LEMMA UltimaEsta ==
    ASSUME NEW M, M # {}, NEW K \in Int, \A m \in M : m[2] \in Nat /\ m[2] <= K
    PROVE  Ultima(M) \in M
  <1> DEFINE D == {K - m[2] : m \in M}
  <1>1. D \subseteq Nat /\ D # {}
    OBVIOUS
  <1>2. PICK d \in D : \A e \in D : d <= e
    <2> HIDE DEF D
    <2> QED
      BY <1>1, MinimoExiste
  <1>3. PICK m \in M : d = K - m[2]
    BY <1>2
  <1>4. ASSUME NEW n \in M PROVE n[2] <= m[2]
    <2>1. K - n[2] \in D
      OBVIOUS
    <2>2. d <= K - n[2]
      BY <1>2, <2>1
    <2>3. n[2] \in Nat /\ m[2] \in Nat
      OBVIOUS
    <2> HIDE DEF D
    <2> QED
      BY <1>3, <2>2, <2>3
  <1>5. \E x \in M : \A n \in M : n[2] <= x[2]
    BY <1>4
  <1> QED
    BY <1>5 DEF Ultima

\* F_WRITE leaves values in the blocks, even when it copies the wrong ones.
LEMMA EscribeValores ==
    ASSUME NEW f \in Archivos, NEW a \in Accesos, NEW info \in Datos, write_file(f, a, info),
           datos \in [Bytes -> Valores]
    PROVE  datos' \in [Bytes -> Valores]
  <1>1. a \in [puntero : Nat, cant : Nat \ {0}] /\ info \in Seq(Valores) /\ Len(info) = a.cant
    BY FileSystemAssumption DEF write_file
  <1>2. PICK K : K = a.puntero \div BlockSize + BloquesAcceso(a.puntero, a.cant) - 1
    OBVIOUS
  <1>3. K \in Int
    <2>1. PICK p, cant, k, off, u, n :
            /\ p = a.puntero /\ cant = a.cant /\ k = p \div BlockSize /\ off = p % BlockSize
            /\ u = Ultimo(p, cant) /\ n = BloquesAcceso(p, cant)
      OBVIOUS
    <2>2. p \in Nat /\ cant \in Nat \ {0}
      BY <1>1, <2>1
    <2>3. k \in Nat
      BY <2>1, <2>2, Resto, Constantes
    <2>4. n \in Nat
      <3>1. k = p \div BlockSize /\ off = p % BlockSize /\ u = Ultimo(p, cant) /\ n = BloquesAcceso(p, cant)
        BY <2>1
      <3> QED
        BY ONLY <2>2, <3>1, Alcance
    <2> QED
      BY <1>2, <2>1, <2>3, <2>4
  <1> DEFINE En(x) == {m \in Movidos(a) : EnDisco(fcb[f], m) = x}
  <1>4. PICK basura \in [{m[1] : m \in Movidos(a)} \ 0..(a.cant - 1) -> Valores] :
          datos' = [x \in Bytes |-> IF En(x) = {} THEN datos[x]
                                    ELSE IF Ultima(En(x))[1] < a.cant THEN info[Ultima(En(x))[1] + 1]
                                         ELSE basura[Ultima(En(x))[1]]]
    BY DEF write_file
  <1>5. ASSUME NEW x \in Bytes, En(x) # {}
        PROVE  (IF Ultima(En(x))[1] < a.cant THEN info[Ultima(En(x))[1] + 1]
                ELSE basura[Ultima(En(x))[1]]) \in Valores
    <2>1. PICK M : M = En(x)
      OBVIOUS
    <2>2. M \subseteq Movidos(a) /\ M # {}
      BY <1>5, <2>1
    <2>3. \A m \in M : m[1] \in Nat /\ m[2] \in Nat /\ m[2] <= K
      BY <1>1, <1>2, <2>2, MovidosEnElFlujo
    <2>4. Ultima(M) \in M
      BY <1>3, <2>2, <2>3, UltimaEsta
    <2>5. PICK i : i = Ultima(M)[1]
      OBVIOUS
    <2>6. i \in Nat /\ i \in {m[1] : m \in Movidos(a)}
      BY <2>2, <2>3, <2>4, <2>5
    <2>7. CASE i < a.cant
      <3>1. i + 1 \in 1..Len(info)
        BY <1>1, <2>6, <2>7
      <3>2. info[i + 1] \in Valores
        BY <1>1, <3>1
      <3> QED
        BY <2>1, <2>5, <2>7, <3>2
    <2>8. CASE ~(i < a.cant)
      <3>1. i \in {m[1] : m \in Movidos(a)} \ 0..(a.cant - 1)
        BY <1>1, <2>6, <2>8
      <3>2. basura[i] \in Valores
        BY <1>4, <3>1
      <3> QED
        BY <2>1, <2>5, <2>8, <3>2
    <2> QED
      BY <2>7, <2>8
  <1> HIDE DEF En
  <1> QED
    BY <1>4, <1>5

Codigos ==
    {"nada", "FILE_OPEN", "FILE_NOT_EXIST", "FILE_NOT_EXISTS", "FILE_CREATED",
     "FILE_TRUNCATED", "FILE_READ", "FILE_WRITTEN", "ERROR"}

\* Every answer has one of the codes the kernel knows.
LEMMA NextCodigo == respuesta.codigo \in Codigos /\ [Next]_vars => respuesta'.codigo \in Codigos
  <1> SUFFICES ASSUME respuesta.codigo \in Codigos, [Next]_vars PROVE respuesta'.codigo \in Codigos
    OBVIOUS
  <1> USE DEF Codigos
  <1>1. CASE UNCHANGED vars
    BY <1>1 DEF vars
  <1>2. ASSUME NEW f \in Archivos, open_file(f) \/ create_file(f) PROVE respuesta'.codigo \in Codigos
    BY <1>2 DEF open_file, create_file, Respuesta
  <1>3. ASSUME NEW f \in Archivos, NEW n \in Tamanios,
               TruncarRechazado(f, n) \/ Crecer(f, n) \/ Achicar(f, n) \/ Igual(f, n)
        PROVE  respuesta'.codigo \in Codigos
    BY <1>3 DEF TruncarRechazado, Rechazar, Respuesta, Crecer, Achicar, Igual
  <1>4. ASSUME NEW f \in Archivos, NEW a \in Accesos, AccesoRechazado(f, a) \/ LecturaRechazada(f, a)
        PROVE  respuesta'.codigo \in Codigos
    BY <1>4 DEF AccesoRechazado, LecturaRechazada, Rechazar, Respuesta
  <1>5. ASSUME NEW f \in Archivos, NEW a \in Accesos, read_file(f, a) PROVE respuesta'.codigo = "FILE_READ"
    BY <1>5 DEF read_file, Acceso
  <1>6. ASSUME NEW f \in Archivos, NEW a \in Accesos, NEW info \in Datos,
               write_file(f, a, info) \/ EscrituraSinDatos(f, a, info)
        PROVE  respuesta'.codigo = "FILE_WRITTEN"
    <2>1. respuesta' = Acceso("FILE_WRITTEN", f, a, info)
      BY <1>6, Zenon DEF write_file, EscrituraSinDatos
    <2> QED
      BY <2>1 DEF Acceso
  <1>7. CASE TomarIndirecto \/ CrearIndirecto \/ update_fcb \/ Parar
    BY <1>7 DEF TomarIndirecto, CrearIndirecto, update_fcb, Parar, Respuesta
  <1> QED
    BY <1>1, <1>2, <1>3, <1>4, <1>5, <1>6, <1>7 DEF Next

\* Only F_WRITE changes the data.
LEMMA NextDatos == datos \in [Bytes -> Valores] /\ [Next]_vars => datos' \in [Bytes -> Valores]
  <1> SUFFICES ASSUME datos \in [Bytes -> Valores], [Next]_vars PROVE datos' \in [Bytes -> Valores]
    OBVIOUS
  <1>1. CASE UNCHANGED vars
    BY <1>1 DEF vars
  <1>2. ASSUME NEW f \in Archivos, open_file(f) \/ create_file(f) PROVE datos' = datos
    BY <1>2 DEF open_file, create_file, disco
  <1>3. ASSUME NEW f \in Archivos, NEW n \in Tamanios,
               TruncarRechazado(f, n) \/ Crecer(f, n) \/ Achicar(f, n) \/ Igual(f, n)
        PROVE  datos' = datos
    BY <1>3 DEF TruncarRechazado, Rechazar, disco, Crecer, Achicar, Igual
  <1>4. ASSUME NEW f \in Archivos, NEW a \in Accesos,
               AccesoRechazado(f, a) \/ LecturaRechazada(f, a) \/ read_file(f, a)
        PROVE  datos' = datos
    BY <1>4 DEF AccesoRechazado, LecturaRechazada, Rechazar, read_file, disco
  <1>5. ASSUME NEW f \in Archivos, NEW a \in Accesos, NEW info \in Datos, EscrituraSinDatos(f, a, info)
        PROVE  datos' = datos
    BY <1>5 DEF EscrituraSinDatos, disco
  <1>6. ASSUME NEW f \in Archivos, NEW a \in Accesos, NEW info \in Datos, write_file(f, a, info)
        PROVE  datos' \in [Bytes -> Valores]
    BY <1>6, EscribeValores
  <1>7. CASE TomarIndirecto \/ CrearIndirecto \/ update_fcb \/ Parar
    BY <1>7 DEF TomarIndirecto, CrearIndirecto, update_fcb, Parar, disco
  <1> QED
    BY <1>1, <1>2, <1>3, <1>4, <1>5, <1>6, <1>7 DEF Next

\* The types, whatever the programs ask for and wherever the process stops: an access
\* copied wrong, past the end of the stream even, still leaves values in the blocks.
THEOREM FileSystemTipos == Spec => []TypeOK
  <1> DEFINE J == Tipos /\ datos \in [Bytes -> Valores] /\ respuesta.codigo \in Codigos
  <1>1. Init => J
    <2> SUFFICES ASSUME Init PROVE J
      OBVIOUS
    <2>1. datos \in [Bytes -> Valores]
      BY FileSystemAssumption DEF Init
    <2>2. respuesta.codigo = "nada"
      BY DEF Init, Respuesta
    <2> QED
      BY <2>1, <2>2, InitTipos DEF Codigos
  <1>2. J /\ [Next]_vars => J'
    BY NextTipos, NextDatos, NextCodigo DEF Bytes, Codigos
  <1>3. J => TypeOK
    <2>1. FcbEnDisco \subseteq Fcb
      BY DEF FcbEnDisco, Fcb, Punteros
    <2> QED
      BY <2>1 DEF TypeOK, Tipos, Codigos
  <1> QED
    BY <1>1, <1>2, <1>3, PTL DEF Spec

-----------------------------------------------------------------------------
(* The bytes of a file and their places on the disk                        *)

\* Where byte i of a file with FCB c and pointers s is.
Lugar(c, s, i) == Inicio(c, s, (i - 1) \div BlockSize) + ((i - 1) % BlockSize)

\* What it holds, on a disk d.
Texto(c, s, d) == [i \in 1..c.tamanio |-> d[Lugar(c, s, i)]]

Contenido == [f \in existe |-> Texto(fcb[f], PunterosDe(f), datos)]

\* The number of the block that is number k in a file.
Numero(c, s, k) == IF k = 0 THEN c.directo ELSE s[k]

\* The block of a byte is one of those that its size asks for.
LEMMA BloqueDe ==
    ASSUME NEW n \in Nat, NEW i \in 1..n, NEW k, k = (i - 1) \div BlockSize
    PROVE  k \in Nat /\ k + 1 <= CantBloques(n)
  <1>1. PICK o : o = (i - 1) % BlockSize
    OBVIOUS
  <1>2. i - 1 \in Nat /\ i \in Nat /\ i <= n
    OBVIOUS
  <1>3. k \in Nat /\ o \in Nat /\ o < BlockSize /\ i - 1 = BlockSize * k + o
    BY <1>1, <1>2, Resto
  <1>4. BlockSize \in Nat /\ BlockSize > 0
    BY Constantes
  <1>5. BlockSize * (k + 1) = BlockSize * k + BlockSize
    BY <1>3, BytesDe
  <1>6. PICK x : x = BlockSize * k
    OBVIOUS
  <1>7. x \in Nat
    BY <1>3, <1>6, BytesDe
  <1>8. n + BlockSize - 1 \in Nat /\ x + BlockSize <= n + BlockSize - 1
    BY <1>2, <1>3, <1>4, <1>6, <1>7
  <1>9. BlockSize * (k + 1) <= n + BlockSize - 1 /\ k + 1 \in Int
    BY <1>3, <1>5, <1>6, <1>8
  <1> QED
    BY <1>3, <1>8, <1>9, CabenEn DEF CantBloques

\* A file whose pointers cover its size has a block of its own for each of its bytes.
LEMMA NumeroEsta ==
    ASSUME NEW c \in FcbEnDisco, NEW s \in Seq(Punteros \ {0}), 1 + Len(s) >= CantBloques(c.tamanio),
           NEW i \in 1..c.tamanio, NEW k, k = (i - 1) \div BlockSize
    PROVE  /\ k \in Nat /\ k <= Len(s)
           /\ Numero(c, s, k) \in Ocupa(c, s)
           /\ Inicio(c, s, k) = BlockSize * Numero(c, s, k)
  <1>1. c.tamanio \in Nat /\ c.tamanio # 0 /\ Len(s) \in Nat
    BY DEF FcbEnDisco
  <1>2. k \in Nat /\ k + 1 <= CantBloques(c.tamanio) /\ CantBloques(c.tamanio) \in Nat
    <2>1. PICK n \in Nat : n = c.tamanio
      BY <1>1
    <2>2. i \in 1..n
      BY <2>1
    <2>3. k \in Nat /\ k + 1 <= CantBloques(n)
      BY ONLY <2>2, n \in Nat, k = (i - 1) \div BlockSize, BloqueDe
    <2>4. n <= n
      OBVIOUS
    <2> QED
      BY <2>1, <2>3, <2>4, CantBloquesCrece
  <1>3. k <= Len(s)
    BY <1>1, <1>2
  <1>4. k # 0 => Contains(s, s[k])
    BY <1>1, <1>2, <1>3 DEF Contains
  <1>5. Numero(c, s, k) \in Ocupa(c, s)
    BY <1>1, <1>4, OcupaDe DEF Numero
  <1> QED
    BY <1>2, <1>3, <1>5 DEF Numero, Inicio

\* Different numbers are different blocks.
LEMMA NumeroUnico ==
    ASSUME NEW c \in FcbEnDisco, NEW s \in Seq(Punteros \ {0}), Separado(c, s),
           NEW j \in Nat, NEW k \in Nat, j <= Len(s), k <= Len(s), Numero(c, s, j) = Numero(c, s, k)
    PROVE  j = k
  <1>1. Len(s) \in Nat
    OBVIOUS
  <1>2. \A m \in Nat : m <= Len(s) /\ m # 0 => s[m] # c.directo
    BY <1>1 DEF Separado, Contains
  <1> QED
    BY <1>1, <1>2 DEF Numero, Separado, SinRepetidos

\* A byte of a block is a byte of the disk, and of no other block.
LEMMA ByteDeBloque ==
    ASSUME NEW b \in Bloques, NEW o \in Nat, o < BlockSize
    PROVE  /\ BlockSize * b + o \in Bytes
           /\ \A d \in Bloques, q \in Nat :
                q < BlockSize /\ BlockSize * d + q = BlockSize * b + o => d = b /\ q = o
  <1>1. BlockSize \in Nat /\ BlockSize > 0 /\ BlockCount \in Nat /\ BlockCount > 0
    BY Constantes
  <1>2. b \in Nat /\ b + 1 <= BlockCount /\ b + 1 \in Nat
    BY <1>1 DEF Bloques
  <1>3. BlockSize * b \in Nat /\ BlockSize * (b + 1) = BlockSize * b + BlockSize
        /\ BlockSize * (b + 1) <= BlockSize * BlockCount /\ BlockSize * BlockCount \in Nat
    BY <1>1, <1>2, BytesDe
  <1>4. PICK x, y : x = BlockSize * b /\ y = BlockSize * BlockCount
    OBVIOUS
  <1>5. BlockCount * BlockSize = y
    BY <1>1, <1>4
  <1>6. x + o \in 0..(y - 1)
    BY <1>1, <1>3, <1>4
  <1>7. ASSUME NEW d \in Bloques, NEW q \in Nat, q < BlockSize, BlockSize * d + q = BlockSize * b + o
        PROVE  d = b /\ q = o
    <2>1. d \in Nat
      BY DEF Bloques
    <2>2. BlockSize * b + o \in Nat
      BY <1>3, <1>4
    <2> QED
      BY <1>2, <1>7, <2>1, <2>2, BloqueUnico
  <1> QED
    BY <1>4, <1>5, <1>6, <1>7 DEF Bytes

\* Sound files that cover their sizes: every byte of every file has a place of its own.
LEMMA LugarPropio ==
    ASSUME NEW v, NEW s, NEW bits, Sanos(v, s, bits), bits \subseteq Bloques,
           \A g \in Archivos : v[g] \in FcbEnDisco /\ s[g] \in Seq(Punteros \ {0}),
           \A g \in Archivos : v[g].tamanio > 0 => 1 + Len(s[g]) >= CantBloques(v[g].tamanio),
           NEW f \in Archivos, NEW i \in 1..v[f].tamanio
    PROVE  /\ Lugar(v[f], s[f], i) \in Bytes
           /\ \A g \in Archivos : \A j \in 1..v[g].tamanio :
                Lugar(v[g], s[g], j) = Lugar(v[f], s[f], i) => g = f /\ j = i
  <1>1. \A g \in Archivos : v[g].tamanio \in Nat /\ Len(s[g]) \in Nat
    BY DEF FcbEnDisco
  <1>2. /\ \A g \in Archivos : Ocupa(v[g], s[g]) \subseteq Bloques
        /\ \A g \in Archivos : v[g].tamanio # 0 => Separado(v[g], s[g])
        /\ \A g, h \in Archivos : g # h => Ocupa(v[g], s[g]) \cap Ocupa(v[h], s[h]) = {}
    BY DEF Sanos
  <1> DEFINE N(g, j) == Numero(v[g], s[g], (j - 1) \div BlockSize)
  <1>3. ASSUME NEW g \in Archivos, NEW j \in 1..v[g].tamanio
        PROVE  /\ (j - 1) \div BlockSize \in Nat /\ (j - 1) \div BlockSize <= Len(s[g])
               /\ N(g, j) \in Ocupa(v[g], s[g]) /\ N(g, j) \in Bloques
               /\ (j - 1) % BlockSize \in Nat /\ (j - 1) % BlockSize < BlockSize
               /\ j - 1 = BlockSize * ((j - 1) \div BlockSize) + ((j - 1) % BlockSize)
               /\ Lugar(v[g], s[g], j) = BlockSize * N(g, j) + ((j - 1) % BlockSize)
               /\ Separado(v[g], s[g])
    <2>1. v[g].tamanio > 0 /\ v[g].tamanio # 0 /\ j - 1 \in Nat
      BY <1>1
    <2>2. (j - 1) % BlockSize \in Nat /\ (j - 1) % BlockSize < BlockSize
          /\ j - 1 = BlockSize * ((j - 1) \div BlockSize) + ((j - 1) % BlockSize)
      BY <2>1, Resto
    <2>3. /\ (j - 1) \div BlockSize \in Nat /\ (j - 1) \div BlockSize <= Len(s[g])
          /\ N(g, j) \in Ocupa(v[g], s[g])
          /\ Inicio(v[g], s[g], (j - 1) \div BlockSize) = BlockSize * N(g, j)
      BY <2>1, NumeroEsta
    <2> QED
      BY <1>2, <2>1, <2>2, <2>3 DEF Lugar
  <1> HIDE DEF N
  <1>4. Lugar(v[f], s[f], i) \in Bytes
    BY <1>3, ByteDeBloque
  <1>5. ASSUME NEW g \in Archivos, NEW j \in 1..v[g].tamanio, Lugar(v[g], s[g], j) = Lugar(v[f], s[f], i)
        PROVE  g = f /\ j = i
    <2>1. N(g, j) = N(f, i) /\ (j - 1) % BlockSize = (i - 1) % BlockSize
      BY <1>3, <1>5, ByteDeBloque
    <2>2. g = f
      BY <1>2, <1>3, <2>1
    <2>3. (j - 1) \div BlockSize = (i - 1) \div BlockSize
      BY <1>3, <2>1, <2>2, NumeroUnico DEF N
    <2>4. j - 1 = i - 1
      BY <1>3, <2>1, <2>3
    <2>5. j \in Int /\ i \in Int
      OBVIOUS
    <2> QED
      BY <2>2, <2>4, <2>5
  <1> QED
    BY <1>4, <1>5

\* So it is of the FCBs that update_fcb will leave, once a growth has all its blocks.
LEMMA LugarVista ==
    ASSUME IInv, ~caida, op = ninguna \/ op.faltan = 0, NEW f \in Archivos, NEW i \in 1..Vista[f].tamanio
    PROVE  /\ Lugar(Vista[f], Listado[f], i) \in Bytes
           /\ \A g \in Archivos : \A j \in 1..Vista[g].tamanio :
                Lugar(Vista[g], Listado[g], j) = Lugar(Vista[f], Listado[f], i) => g = f /\ j = i
  <1>1. PICK v, s : v = Vista /\ s = Listado
    OBVIOUS
  <1>2. \A g \in Archivos : v[g] \in FcbEnDisco /\ s[g] \in Seq(Punteros \ {0})
    BY <1>1, VistaTipo DEF IInv
  <1>3. \A g \in Archivos : Pendientes(g) = 0
    BY DEF Pendientes, EnCurso
  <1>4. \A g \in Archivos : CubreCon(v[g].tamanio, s[g], 0, paro)
    BY <1>1, <1>3 DEF IInv, Bloqueo, Cubierto
  <1>5. \A g \in Archivos : Len(s[g]) \in Nat
    BY <1>2
  <1>6. \A g \in Archivos : v[g].tamanio > 0 => 1 + Len(s[g]) >= CantBloques(v[g].tamanio)
    BY <1>4, <1>5 DEF CubreCon
  <1>7. Sanos(v, s, bitmap) /\ bitmap \subseteq Bloques /\ i \in 1..v[f].tamanio
    BY <1>1 DEF IInv, Bloqueo, Tipos
  <1>8. /\ Lugar(v[f], s[f], i) \in Bytes
        /\ \A g \in Archivos : \A j \in 1..v[g].tamanio :
             Lugar(v[g], s[g], j) = Lugar(v[f], s[f], i) => g = f /\ j = i
    BY ONLY <1>2, <1>6, <1>7, f \in Archivos, LugarPropio
  <1> QED
    BY <1>1, <1>8

-----------------------------------------------------------------------------
(* A truncation under way: the content is still the one of the FCB on disk *)

\* What a truncation of a file with FCB v to size n keeps: c is its copy of the FCB, q the
\* pointers it began with, s those it has now.  A growth only adds to them.
ConservaDe(fase, v, n, c, q, s) ==
    /\ v.tamanio > 0 => 1 + Len(q) >= CantBloques(v.tamanio)
    /\ v.tamanio > 0 /\ n > 0 => c.directo = v.directo
    /\ v.indirecto = 0 => q = <<>>
    /\ \A k \in 1..Len(q) : k <= Len(s) => s[k] = q[k]
    /\ fase = "crece" => Len(q) <= Len(s)

Conserva ==
    op # ninguna =>
        ConservaDe(op.fase, fcb[op.archivo], op.tamanio, op.c, op.punteros, PunterosEn(punt, op.c))

\* In the next state.
LEMMA ConservaPrima ==
    ASSUME op' # ninguna =>
             ConservaDe(op'.fase, fcb'[op'.archivo], op'.tamanio, op'.c, op'.punteros, PunterosEn(punt', op'.c))
    PROVE  Conserva'
  BY DEF Conserva, ConservaDe, PunterosEn, CantBloques

\* The pointers of the files, named.
LEMMA PunterosSon ==
    /\ \A f : PunterosDe(f) = IF EnCurso(f) THEN op.punteros ELSE PunterosEn(punt, fcb[f])
    /\ \A f : PunterosDe(f)' = IF EnCurso(f)' THEN op'.punteros ELSE PunterosEn(punt', fcb'[f])
  BY DEF PunterosDe, EnCurso, PunterosEn, obtenerPunterosIndirectos

\* The same FCBs, data and pointers are the same content.
LEMMA MismoContenido ==
    ASSUME UNCHANGED <<existe, fcb, datos>>,
           \A g \in existe : PunterosDe(g)' = PunterosDe(g)
    PROVE  Contenido' = Contenido
  BY DEF Contenido, Texto, Lugar, Inicio

\* What is stored in a pointer block of one file, or in a free block, is not seen in others.
LEMMA AjenosIguales ==
    ASSUME IInv, ~caida, NEW f \in Archivos, NEW i \in Bloques,
           i \in Ocupa(Vista[f], Listado[f]) \/ i \notin bitmap, NEW t, punt' = [punt EXCEPT ![i] = t],
           NEW g \in Archivos, g # f, ~EnCurso(g)
    PROVE  PunterosEn(punt', fcb[g]) = PunterosEn(punt, fcb[g])
  <1>1. Vista[g] = fcb[g] /\ Vista[g] \in FcbEnDisco
    BY Vistas, VistaTipo DEF IInv
  <1>2. fcb[g].indirecto = 0 \/ fcb[g].indirecto # i
    <2>1. Sanos(Vista, Listado, bitmap)
      BY DEF IInv, Bloqueo
    <2>2. Vista[g].indirecto = 0 \/ Vista[g].indirecto # i
      BY ONLY <2>1, f \in Archivos, g \in Archivos, g # f,
              i \in Ocupa(Vista[f], Listado[f]) \/ i \notin bitmap, OtroIndirecto
    <2> QED
      BY <1>1, <2>2
  <1>3. fcb[g].indirecto \in Bloques /\ punt \in [Bloques -> Seq(Punteros \ {0})]
    BY <1>1 DEF FcbEnDisco, IInv, Tipos
  <1> QED
    BY <1>2, <1>3 DEF PunterosEn

\* A truncation starts.
LEMMA ConservaEmpieza ==
    ASSUME IInv, op = ninguna, NEW fase \in {"crece", "guarda"}, NEW f \in Archivos,
           NEW n \in Tamanios, NEW k \in Nat, NEW d \in FcbEnDisco, Empieza(fase, f, n, k, d), fcb' = fcb,
           fcb[f].tamanio > 0 /\ n > 0 => d.directo = fcb[f].directo,
           NEW q, q = PunterosEn(punt, fcb[f]),
           \A j \in 1..Len(q) : j <= Len(PunterosEn(punt', d)) => PunterosEn(punt', d)[j] = q[j],
           fase = "crece" => Len(q) <= Len(PunterosEn(punt', d)),
           \A g \in Archivos : g # f => PunterosEn(punt', fcb[g]) = PunterosEn(punt, fcb[g])
    PROVE  Conserva' /\ \A g \in Archivos : PunterosDe(g)' = PunterosDe(g)
  <1>1. op' = [fase |-> fase, archivo |-> f, tamanio |-> n, faltan |-> k, c |-> d, punteros |-> q]
    BY DEF Empieza, obtenerPunterosIndirectos, PunterosEn
  <1>2. op'.archivo = f /\ op'.tamanio = n /\ op'.c = d /\ op'.punteros = q /\ op'.fase = fase
    BY <1>1
  <1>3. op' # ninguna
    BY <1>2 DEF ninguna
  <1>4. fcb[f].tamanio > 0 => 1 + Len(q) >= CantBloques(fcb[f].tamanio)
    <2>1. CubreCon(fcb[f].tamanio, q, 0, paro)
      BY VistaLibre DEF IInv, Bloqueo, Cubierto
    <2>2. q \in Seq(Punteros \ {0})
      BY Reposo DEF PunterosEn, obtenerPunterosIndirectos
    <2>3. Len(q) \in Nat
      BY <2>2
    <2> QED
      BY <2>1, <2>3 DEF CubreCon
  <1>5. fcb[f].indirecto = 0 => q = <<>>
    BY DEF PunterosEn
  <1>6. Conserva'
    BY <1>2, <1>4, <1>5, ConservaPrima DEF ConservaDe
  <1>7. \A g \in Archivos : ~EnCurso(g) /\ (EnCurso(g)' <=> g = f)
    BY <1>2, <1>3 DEF EnCurso
  <1>8. \A g \in Archivos : PunterosDe(g)' = PunterosDe(g)
    BY <1>2, <1>7, PunterosSon
  <1> QED
    BY <1>6, <1>8

\* A growth starts.
LEMMA CrecerConserva ==
    ASSUME IInv, NEW f \in Archivos, NEW n \in Tamanios, Crecer(f, n)
    PROVE  Conserva' /\ Contenido' = Contenido
  <1>1. PICK c : c = fcb[f]
    OBVIOUS
  <1>2. PICK ad : ad = calculate_additionalBlocks(c, n)
    OBVIOUS
  <1>3. PICK b : b = obtener_bloque_libre(bitmap)
    OBVIOUS
  <1>4. /\ op = ninguna /\ ~caida /\ f \in existe /\ n > c.tamanio
        /\ UNCHANGED <<existe, fcb, punt, datos>>
    BY <1>1 DEF Crecer, Libre
  <1>5. c \in FcbEnDisco /\ c.tamanio \in Nat /\ n \in Nat
    BY <1>1, FileSystemAssumption DEF IInv, Tipos, FcbEnDisco
  <1>6. ad \in Nat
    BY <1>2, <1>4, <1>5, CantBloquesCrece DEF calculate_additionalBlocks
  <1>7. b \in Punteros
    BY <1>3, BloqueLibre
  <1>8. PICK k \in Nat, d \in FcbEnDisco :
          /\ Empieza("crece", f, n, k, d)
          /\ d.indirecto = c.indirecto
          /\ c.tamanio > 0 => d.directo = c.directo
    <2>1. CASE ad > 0 /\ c.tamanio = 0
      <3>1. Empieza("crece", f, n, ad - 1, [c EXCEPT !.directo = b])
        BY <1>1, <1>2, <1>3, <2>1 DEF Crecer
      <3>2. ad - 1 \in Nat
        BY <1>6, <2>1
      <3>3. [c EXCEPT !.directo = b] \in FcbEnDisco /\ [c EXCEPT !.directo = b].indirecto = c.indirecto
        BY <1>5, <1>7 DEF FcbEnDisco
      <3>4. ~(c.tamanio > 0)
        BY <2>1
      <3> QED
        BY <3>1, <3>2, <3>3, <3>4
    <2>2. CASE ~(ad > 0 /\ c.tamanio = 0)
      <3>1. Empieza("crece", f, n, ad, c)
        BY <1>1, <1>2, <1>3, <2>2 DEF Crecer
      <3> QED
        BY <1>5, <1>6, <3>1
    <2> QED
      BY <2>1, <2>2
  <1>9. PICK q : q = PunterosEn(punt, c)
    OBVIOUS
  <1>10. PunterosEn(punt', d) = q
    BY <1>4, <1>8, <1>9 DEF PunterosEn
  <1>11. q \in Seq(Punteros \ {0})
    BY <1>1, <1>4, <1>9, Reposo DEF PunterosEn, obtenerPunterosIndirectos
  <1>12. Len(q) <= Len(PunterosEn(punt', d))
    BY <1>10, <1>11
  <1>13. Conserva' /\ \A g \in Archivos : PunterosDe(g)' = PunterosDe(g)
    BY <1>1, <1>4, <1>8, <1>9, <1>10, <1>12, ConservaEmpieza
  <1> QED
    BY <1>4, <1>13, MismoContenido DEF IInv, Tipos

\* A file that keeps its size.
LEMMA IgualConserva ==
    ASSUME IInv, NEW f \in Archivos, NEW n \in Tamanios, Igual(f, n)
    PROVE  Conserva' /\ Contenido' = Contenido
  <1>1. /\ op = ninguna /\ Empieza("guarda", f, n, 0, fcb[f]) /\ UNCHANGED <<existe, fcb, punt, datos>>
    BY DEF Igual, Libre, disco
  <1>2. fcb[f] \in FcbEnDisco
    BY DEF IInv, Tipos
  <1>3. PICK q : q = PunterosEn(punt, fcb[f])
    OBVIOUS
  <1>4. PunterosEn(punt', fcb[f]) = q
    BY <1>1, <1>3
  <1>5. Conserva' /\ \A g \in Archivos : PunterosDe(g)' = PunterosDe(g)
    BY <1>1, <1>2, <1>3, <1>4, ConservaEmpieza
  <1> QED
    BY <1>1, <1>5, MismoContenido DEF IInv, Tipos

\* The file shrinks: what is left is a first part of its pointers.
LEMMA AchicarConserva ==
    ASSUME IInv, NEW f \in Archivos, NEW n \in Tamanios, Achicar(f, n)
    PROVE  Conserva' /\ Contenido' = Contenido
  <1>1. PICK c : c = fcb[f]
    OBVIOUS
  <1>2. PICK q : q = PunterosEn(punt, c)
    OBVIOUS
  <1>3. /\ op = ninguna /\ ~caida /\ f \in existe /\ n < c.tamanio
        /\ UNCHANGED <<existe, fcb, datos>>
    BY <1>1 DEF Achicar, Libre
  <1>4. c \in FcbEnDisco /\ c.tamanio \in Nat /\ c.indirecto \in Bloques /\ n \in Nat /\ c.tamanio # 0
    <2>1. n \in Nat
      BY FileSystemAssumption
    <2>2. c \in FcbEnDisco /\ c.tamanio \in Nat /\ c.indirecto \in Bloques
      BY <1>1 DEF IInv, Tipos, FcbEnDisco
    <2> QED
      BY <1>3, <2>1, <2>2
  <1>5. /\ Vista[f] = c /\ Listado[f] = q /\ q = obtenerPunterosIndirectos(c)
        /\ q \in Seq(Punteros \ {0})
    BY <1>1, <1>2, <1>3, Reposo DEF PunterosEn, obtenerPunterosIndirectos
  <1>6. PICK k : k = calculate_freeBlocks(c, n)
    OBVIOUS
  <1>7. k \in Nat /\ (n > 0 => k <= Len(q))
    <2>1. CubreCon(c.tamanio, q, 0, paro)
      BY <1>1, <1>2, <1>3, VistaLibre DEF IInv, Bloqueo, Cubierto
    <2>2. Len(q) \in Nat
      BY <1>5
    <2> QED
      BY <1>3, <1>4, <1>6, <2>1, <2>2, Sobran DEF calculate_freeBlocks
  <1>8. ASSUME NEW d \in FcbEnDisco, Empieza("guarda", f, n, 0, d), n > 0 => d.directo = c.directo,
               NEW t, t = PunterosEn(punt', d),
               \A j \in 1..Len(q) : j <= Len(t) => t[j] = q[j],
               \A g \in Archivos : g # f => PunterosEn(punt', fcb[g]) = PunterosEn(punt, fcb[g])
        PROVE  Conserva' /\ Contenido' = Contenido
    <2>1. Conserva' /\ \A g \in Archivos : PunterosDe(g)' = PunterosDe(g)
      BY <1>1, <1>2, <1>3, <1>8, ConservaEmpieza
    <2> QED
      BY <1>3, <2>1, MismoContenido DEF IInv, Tipos
  <1>9. CASE n = 0
    <2>1. Empieza("guarda", f, n, 0, Vacio) /\ punt' = punt
      BY <1>9 DEF Achicar
    <2>2. PunterosEn(punt', Vacio) = <<>>
      BY DEF PunterosEn, Vacio
    <2>3. \A j \in 1..Len(q) : j <= Len(<<>>) => <<>>[j] = q[j]
      BY <1>5
    <2> QED
      BY <1>8, <1>9, <2>1, <2>2, <2>3, PunterosTipo
  <1>10. CASE n # 0 /\ c.indirecto # 0 /\ Len(q) = k
    <2> DEFINE d == [c EXCEPT !.indirecto = 0]
    <2>1. Empieza("guarda", f, n, 0, d) /\ punt' = punt
      BY <1>1, <1>5, <1>6, <1>10 DEF Achicar
    <2>2. d \in FcbEnDisco /\ d.directo = c.directo /\ d.indirecto = 0
      BY <1>4, PunterosTipo DEF FcbEnDisco
    <2>3. PunterosEn(punt', d) = <<>>
      BY <2>2 DEF PunterosEn
    <2>4. \A j \in 1..Len(q) : j <= Len(<<>>) => <<>>[j] = q[j]
      BY <1>5
    <2> HIDE DEF d
    <2> QED
      BY <1>8, <2>1, <2>2, <2>3, <2>4
  <1>11. CASE n # 0 /\ c.indirecto # 0 /\ Len(q) # k
    <2> DEFINE t == SubSeq(q, 1, Len(q) - k)
    <2>1. Empieza("guarda", f, n, 0, c) /\ punt' = [punt EXCEPT ![c.indirecto] = t]
      BY <1>1, <1>5, <1>6, <1>11 DEF Achicar
    <2>2. PunterosEn(punt', c) = t
      BY <1>4, <1>11, <2>1 DEF PunterosEn, IInv, Tipos
    <2>3. Len(q) - k \in 0..Len(q)
      BY <1>4, <1>5, <1>7, <1>11
    <2>4. \A j \in 1..Len(q) : j <= Len(t) => t[j] = q[j]
      BY <1>5, <2>3
    <2>5. c.indirecto \in Ocupa(Vista[f], Listado[f])
      BY <1>4, <1>5, <1>11, OcupaDe
    <2> HIDE DEF t
    <2>6. \A g \in Archivos : g # f => PunterosEn(punt', fcb[g]) = PunterosEn(punt, fcb[g])
      BY <1>3, <1>4, <2>1, <2>5, AjenosIguales DEF EnCurso
    <2> QED
      BY <1>4, <1>8, <2>1, <2>2, <2>4, <2>6
  <1>12. CASE n # 0 /\ c.indirecto = 0
    <2>1. Empieza("guarda", f, n, 0, c) /\ punt' = punt
      BY <1>1, <1>12 DEF Achicar
    <2>2. PunterosEn(punt', c) = q
      BY <1>2, <2>1
    <2> QED
      BY <1>4, <1>8, <2>1, <2>2
  <1> QED
    BY <1>9, <1>10, <1>11, <1>12

\* A growth takes one more block: its pointers are the ones it had and perhaps one more.
LEMMA SigueConserva ==
    ASSUME IInv, Conserva, op # ninguna, ~caida, NEW f, f = op.archivo, NEW i \in Bloques, i # 0, NEW t,
           punt' = [punt EXCEPT ![i] = t], op'.c.indirecto = i, op'.c.directo = op.c.directo,
           op' # ninguna, Len(op.punteros) <= Len(t), op'.archivo = f, op'.tamanio = op.tamanio, op'.punteros = op.punteros,
           UNCHANGED <<existe, fcb, datos>>,
           i \in Ocupa(Vista[f], Listado[f]) \/ i \notin bitmap,
           \A j \in 1..Len(op.punteros) : j <= Len(t) => t[j] = op.punteros[j]
    PROVE  Conserva' /\ Contenido' = Contenido
  <1>1. op \in Operacion /\ f \in Archivos
    BY OperacionTipo DEF IInv, Operacion
  <1>2. PunterosEn(punt', op'.c) = t
    BY DEF PunterosEn, IInv, Tipos
  <1>3. ConservaDe(op.fase, fcb[f], op.tamanio, op.c, op.punteros, PunterosEn(punt, op.c))
    BY DEF Conserva
  <1>4. ConservaDe(op'.fase, fcb'[f], op'.tamanio, op'.c, op'.punteros, t)
    BY <1>3 DEF ConservaDe
  <1>5. Conserva'
    BY <1>2, <1>4, ConservaPrima
  <1>6. \A g : (EnCurso(g) <=> g = f) /\ (EnCurso(g)' <=> g = f)
    BY DEF EnCurso
  <1>7. \A g \in Archivos : g # f => PunterosEn(punt', fcb[g]) = PunterosEn(punt, fcb[g])
    BY <1>1, <1>6, AjenosIguales
  <1>8. \A g \in Archivos : PunterosDe(g)' = PunterosDe(g)
    BY <1>6, <1>7, PunterosSon
  <1> QED
    BY <1>5, <1>8, MismoContenido DEF IInv, Tipos

\* One more block in the pointers of the file.
LEMMA TomarConserva ==
    ASSUME IInv, Conserva, TomarIndirecto
    PROVE  Conserva' /\ Contenido' = Contenido
  <1>1. PICK f, i, b, s : /\ f = op.archivo /\ i = op.c.indirecto /\ b = obtener_bloque_libre(bitmap)
                          /\ s = PunterosEn(punt, op.c)
    OBVIOUS
  <1>2. /\ op.fase = "crece" /\ op.faltan > 0 /\ ~caida /\ i # 0
        /\ punt' = [punt EXCEPT ![i] = Anotar(s, b)] /\ op' = [op EXCEPT !.faltan = @ - 1]
        /\ UNCHANGED <<existe, fcb, datos>>
    BY <1>1 DEF TomarIndirecto, obtenerPunterosIndirectos, PunterosEn
  <1>3. op \in Operacion /\ op # ninguna /\ op.c \in FcbEnDisco /\ f \in Archivos /\ i \in Bloques
    <2>1. op \in Operacion /\ op # ninguna /\ op.c \in FcbEnDisco
      BY <1>2, OperacionTipo DEF IInv, Tipos
    <2> QED
      BY <1>1, <2>1 DEF Operacion, FcbEnDisco
  <1>4. /\ op'.archivo = f /\ op'.c = op.c /\ op'.tamanio = op.tamanio /\ op'.punteros = op.punteros
        /\ op'.fase = "crece"
    BY <1>1, <1>2, <1>3 DEF Operacion
  <1>5. op' # ninguna
    BY <1>4 DEF ninguna
  <1>6. s \in Seq(Punteros \ {0}) /\ b \in Punteros
    BY <1>1, <1>2, <1>3, BloqueLibre DEF PunterosEn, IInv, Tipos
  <1>7. /\ Len(s) \in Nat /\ Len(Anotar(s, b)) \in Nat /\ Len(Anotar(s, b)) >= Len(s)
        /\ \A j \in 1..Len(s) : Anotar(s, b)[j] = s[j]
    BY <1>6 DEF Anotar
  <1>8. op.punteros \in Seq(Punteros \ {0}) /\ Len(op.punteros) \in Nat
    BY <1>3 DEF Operacion
  <1>9. \A j \in 1..Len(op.punteros) : j <= Len(s) => s[j] = op.punteros[j]
    BY <1>1, <1>3 DEF Conserva, ConservaDe
  <1>10. Len(op.punteros) <= Len(s)
    BY <1>1, <1>2, <1>3 DEF Conserva, ConservaDe
  <1>11. \A j \in 1..Len(op.punteros) : j <= Len(Anotar(s, b)) => Anotar(s, b)[j] = op.punteros[j]
    BY <1>7, <1>8, <1>9, <1>10
  <1>12. i \in Ocupa(Vista[f], Listado[f])
    <2>1. EnCurso(f) /\ op.tamanio > 0
      BY <1>1, <1>2, <1>3 DEF EnCurso, IInv, Bloqueo, Creciendo
    <2>2. Vista[f] = [op.c EXCEPT !.tamanio = op.tamanio]
      BY <1>3, <2>1, Vistas
    <2>3. Vista[f].indirecto = i /\ Vista[f].tamanio # 0
      BY <1>1, <1>3, <2>1, <2>2 DEF FcbEnDisco
    <2>4. Listado[f] \in Seq(Punteros \ {0})
      BY <1>2, <1>3, VistaTipo DEF IInv
    <2> QED
      BY <1>2, <2>3, <2>4, OcupaDe
  <1>13. Len(op.punteros) <= Len(Anotar(s, b))
    BY <1>7, <1>8, <1>10
  <1> QED
    BY <1>1, <1>2, <1>3, <1>4, <1>5, <1>11, <1>12, <1>13, SigueConserva
\* The pointer block of the file and the first block in it.
LEMMA CrearConserva ==
    ASSUME IInv, Conserva, CrearIndirecto
    PROVE  Conserva' /\ Contenido' = Contenido
  <1>1. PICK f, i, b : /\ f = op.archivo /\ i = obtener_bloque_libre(bitmap)
                       /\ b = obtener_bloque_libre(Tomar(bitmap, i))
    OBVIOUS
  <1>2. /\ op.fase = "crece" /\ op.faltan > 0 /\ ~caida /\ op.c.indirecto = 0
        /\ op' = [op EXCEPT !.faltan = @ - 1, !.c.indirecto = i]
        /\ UNCHANGED <<existe, fcb, datos>>
    BY <1>1 DEF CrearIndirecto
  <1>3. /\ op \in Operacion /\ op # ninguna /\ op.c \in FcbEnDisco /\ f \in Archivos
        /\ op.faltan \in Nat
    <2>1. op \in Operacion /\ op # ninguna /\ op.c \in FcbEnDisco
      BY <1>2, OperacionTipo DEF IInv, Tipos
    <2> QED
      BY <1>1, <2>1 DEF Operacion
  <1>4. i # -1 /\ i # 0 /\ i \in Bloques /\ i \notin bitmap
    <2>1. 0 \in bitmap /\ Cardinality(Bloques \ bitmap) >= op.faltan + 1
      BY <1>2, <1>3 DEF IInv, Bloqueo, Creciendo
    <2>2. Cardinality(Bloques \ bitmap) # 0
      BY <1>2, <1>3, <2>1
    <2>3. Bloques \ bitmap # {}
      BY <2>2, FS_EmptySet
    <2> QED
      BY <1>1, <2>1, <2>3, BloqueLibre
  <1>5. punt' = [punt EXCEPT ![i] = Anotar(<<>>, b)]
    BY <1>1, <1>4 DEF CrearIndirecto
  <1>6. /\ op'.archivo = f /\ op'.c.indirecto = i /\ op'.c.directo = op.c.directo
        /\ op'.tamanio = op.tamanio /\ op'.punteros = op.punteros /\ op'.fase = "crece"
    BY <1>1, <1>2, <1>3 DEF Operacion, Fcb
  <1>7. op' # ninguna
    BY <1>6 DEF ninguna
  <1>8. op.punteros \in Seq(Punteros \ {0}) /\ Len(op.punteros) = 0
    <2>1. op.punteros \in Seq(Punteros \ {0})
      BY <1>3 DEF Operacion
    <2>2. Len(op.punteros) <= Len(PunterosEn(punt, op.c))
      BY <1>1, <1>2, <1>3 DEF Conserva, ConservaDe
    <2>3. PunterosEn(punt, op.c) = <<>>
      BY <1>2 DEF PunterosEn
    <2> QED
      BY <2>1, <2>2, <2>3
  <1>9. b \in Punteros
    BY <1>1, BloqueLibre
  <1>10. Len(Anotar(<<>>, b)) \in Nat
    BY <1>9 DEF Anotar
  <1>11. /\ Len(op.punteros) <= Len(Anotar(<<>>, b))
         /\ \A j \in 1..Len(op.punteros) : j <= Len(Anotar(<<>>, b)) => Anotar(<<>>, b)[j] = op.punteros[j]
    BY <1>8, <1>10
  <1> QED
    BY <1>1, <1>2, <1>3, <1>4, <1>5, <1>6, <1>7, <1>11, SigueConserva

\* A stop in the middle of a growth goes back to the content of the FCB on the disk.
LEMMA PararConserva ==
    ASSUME IInv, Conserva, Parar, "guarda" \notin Paradas
    PROVE  Conserva' /\ Contenido' = Contenido
  <1>1. PICK f, q, t : f = op.archivo /\ q = op.punteros /\ t = PunterosEn(punt, fcb[f])
    OBVIOUS
  <1>2. op.fase = "crece" /\ ~caida /\ op' = ninguna /\ UNCHANGED <<existe, fcb, punt, datos>>
    BY FileSystemAssumption DEF Parar, disco
  <1>3. op \in Operacion /\ op # ninguna /\ f \in Archivos /\ q \in Seq(Punteros \ {0})
    BY <1>1, <1>2, OperacionTipo DEF IInv, Operacion
  <1>4. Conserva'
    BY <1>2 DEF Conserva
  <1>5. \A g : (EnCurso(g) <=> g = f) /\ ~EnCurso(g)'
    BY <1>1, <1>2, <1>3 DEF EnCurso
  <1>6. PunterosDe(f) = q /\ PunterosDe(f)' = t /\ \A g : g # f => PunterosDe(g)' = PunterosDe(g)
    BY <1>1, <1>2, <1>5, PunterosSon
  <1>7. ASSUME NEW i \in 1..fcb[f].tamanio
        PROVE  Lugar(fcb[f], t, i) = Lugar(fcb[f], q, i)
    <2>1. PICK v, k : v = fcb[f] /\ k = (i - 1) \div BlockSize
      OBVIOUS
    <2>2. v \in FcbEnDisco /\ v.tamanio \in Nat /\ v.tamanio > 0 /\ i \in 1..v.tamanio
      BY <1>3, <2>1, <1>7 DEF IInv, Tipos, FcbEnDisco
    <2>3. Recuperable(punt, v, op.c)
      BY <1>1, <1>2, <2>1 DEF IInv, Bloqueo, Creciendo
    <2>4. v # Vacio
      BY <2>2 DEF Vacio
    <2>5. 1 + Len(t) >= CantBloques(v.tamanio) /\ v.indirecto \in {0, op.c.indirecto}
      BY <1>1, <2>1, <2>3, <2>4 DEF Recuperable
    <2>6. /\ 1 + Len(q) >= CantBloques(v.tamanio)
          /\ v.indirecto = 0 => q = <<>>
          /\ \A j \in 1..Len(q) : j <= Len(PunterosEn(punt, op.c)) => PunterosEn(punt, op.c)[j] = q[j]
      BY <1>1, <1>3, <2>1, <2>2 DEF Conserva, ConservaDe
    <2>7. t \in Seq(Punteros \ {0}) /\ Len(t) \in Nat /\ Len(q) \in Nat
      <3>1. t \in Seq(Punteros \ {0})
        BY <1>1, <2>1, <2>2 DEF PunterosEn, IInv, Tipos, FcbEnDisco
      <3> QED
        BY <1>3, <3>1
    <2>8. k \in Nat /\ k + 1 <= CantBloques(v.tamanio) /\ CantBloques(v.tamanio) \in Nat
      <3>1. PICK n \in Nat : n = v.tamanio
        BY <2>2
      <3>2. i \in 1..n /\ n <= n
        BY <2>2, <3>1
      <3>3. k \in Nat /\ k + 1 <= CantBloques(n)
        BY ONLY <2>1, <3>2, n \in Nat, BloqueDe
      <3> QED
        BY <3>1, <3>2, <3>3, CantBloquesCrece
    <2>9. k <= Len(t) /\ k <= Len(q)
      BY <2>5, <2>6, <2>7, <2>8
    <2>10. k # 0 => t[k] = q[k]
      <3> SUFFICES ASSUME k # 0 PROVE t[k] = q[k]
        OBVIOUS
      <3>1. k \in 1..Len(q) /\ v.indirecto # 0
        BY <2>6, <2>7, <2>8, <2>9
      <3>2. t = PunterosEn(punt, op.c)
        BY <1>1, <2>1, <2>5, <3>1 DEF PunterosEn
      <3> QED
        BY <2>6, <2>9, <3>1, <3>2
    <2> QED
      BY <2>1, <2>8, <2>9, <2>10 DEF Lugar, Inicio
  <1>8. Contenido' = Contenido
    <2>1. Texto(fcb[f], t, datos) = Texto(fcb[f], q, datos)
      BY <1>7 DEF Texto
    <2>2. \A g \in existe : Texto(fcb[g], PunterosDe(g)', datos) = Texto(fcb[g], PunterosDe(g), datos)
      BY <1>6, <2>1
    <2>3. Contenido' = [g \in existe |-> Texto(fcb[g], PunterosDe(g)', datos)]
      BY <1>2 DEF Contenido, Texto, Lugar, Inicio
    <2> QED
      BY <2>2, <2>3 DEF Contenido
  <1> QED
    BY <1>4, <1>8

-----------------------------------------------------------------------------
(* The steps of ArchivosAbs, in terms of the content                       *)

\* No content changes, and nothing is answered.
LEMMA AbsNada ==
    ASSUME Contenido' = Contenido, respuesta' = respuesta
    PROVE  UNCHANGED Abs!vars
  BY DEF Abs!vars, Contenido, Texto, Lugar

\* An answer, and no content changes.
LEMMA AbsContestar ==
    ASSUME Contenido' = Contenido,
           respuesta'.codigo \in {"nada", "FILE_OPEN", "FILE_NOT_EXIST", "FILE_NOT_EXISTS", "ERROR"}
    PROVE  Abs!Next
  BY DEF Abs!Next, Abs!Contestar, Contenido, Texto, Lugar

\* A new file, empty.
LEMMA AbsCrear ==
    ASSUME NEW f \in Archivos, f \notin DOMAIN Contenido,
           respuesta'.codigo = "FILE_CREATED", respuesta'.archivo = f,
           Contenido' = [g \in DOMAIN Contenido \cup {f} |-> IF g = f THEN <<>> ELSE Contenido[g]]
    PROVE  Abs!Next
  BY DEF Abs!Next, Abs!Crear, Contenido, Texto, Lugar

\* A file of another size, with the bytes that stay.
LEMMA AbsTruncar ==
    ASSUME respuesta'.codigo = "FILE_TRUNCATED", respuesta'.archivo \in DOMAIN Contenido,
           DOMAIN Contenido' = DOMAIN Contenido,
           \A g \in DOMAIN Contenido \ {respuesta'.archivo} : Contenido'[g] = Contenido[g],
           Contenido'[respuesta'.archivo] \in [1..respuesta'.tamanio -> Valores],
           \A i \in 1..respuesta'.tamanio : i <= Len(Contenido[respuesta'.archivo]) =>
               Contenido'[respuesta'.archivo][i] = Contenido[respuesta'.archivo][i]
    PROVE  Abs!Next
  <1>1. Abs!Truncar
    BY Zenon DEF Abs!Truncar, Contenido, Texto, Lugar
  <1> QED
    BY <1>1 DEF Abs!Next

\* Bytes of one file change, those that were asked for.
LEMMA AbsEscribir ==
    ASSUME respuesta'.codigo = "FILE_WRITTEN", respuesta'.archivo \in DOMAIN Contenido,
           respuesta'.puntero + Len(respuesta'.datos) <= Len(Contenido[respuesta'.archivo]),
           Contenido' = [Contenido EXCEPT ![respuesta'.archivo] =
              [i \in 1..Len(Contenido[respuesta'.archivo]) |->
                 IF i - respuesta'.puntero \in 1..Len(respuesta'.datos)
                 THEN respuesta'.datos[i - respuesta'.puntero]
                 ELSE Contenido[respuesta'.archivo][i]]]
    PROVE  Abs!Next
  <1>1. Abs!Escribir
    BY Zenon DEF Abs!Escribir, Contenido, Texto, Lugar
  <1> QED
    BY <1>1 DEF Abs!Next

\* The answer is a part of a file.
LEMMA AbsLeer ==
    ASSUME NEW f, NEW p, NEW s, respuesta'.codigo = "FILE_READ", respuesta'.archivo = f,
           respuesta'.puntero = p, respuesta'.datos = s, f \in DOMAIN Contenido,
           s = SubSeq(Contenido[f], p + 1, p + Len(s)),
           p + Len(s) <= Len(Contenido[f]), Contenido' = Contenido
    PROVE  Abs!Next
  BY DEF Abs!Next, Abs!Leer, Contenido, Texto, Lugar

-----------------------------------------------------------------------------
(* Each request is the step of ArchivosAbs that its answer says            *)

\* What a file holds.
LEMMA ContenidoDe ==
    ASSUME NEW f \in existe
    PROVE  /\ f \in DOMAIN Contenido
           /\ Contenido[f] = Texto(fcb[f], PunterosDe(f), datos)
  BY DEF Contenido

\* The same in the next state.
LEMMA ContenidoDePrima ==
    ASSUME NEW f \in existe'
    PROVE  /\ f \in DOMAIN Contenido'
           /\ Contenido'[f] = Texto(fcb'[f], PunterosDe(f)', datos')
  BY DEF Contenido, Texto, Lugar, Inicio

\* How long it is, and the bytes of it.
LEMMA TextoDe ==
    ASSUME NEW c, NEW s, NEW d, c.tamanio \in Nat
    PROVE  /\ Len(Texto(c, s, d)) = c.tamanio /\ DOMAIN Texto(c, s, d) = 1..c.tamanio
           /\ \A i \in 1..c.tamanio : Texto(c, s, d)[i] = d[Lugar(c, s, i)]
  <1>1. PICK n \in Nat : n = c.tamanio
    OBVIOUS
  <1> DEFINE t == [i \in 1..n |-> d[Lugar(c, s, i)]]
  <1>2. Len(t) = n /\ DOMAIN t = 1..n /\ \A i \in 1..n : t[i] = d[Lugar(c, s, i)]
    OBVIOUS
  <1>3. t = Texto(c, s, d)
    BY <1>1 DEF Texto
  <1> HIDE DEF t
  <1> QED
    BY <1>1, <1>2, <1>3

\* F_OPEN of a file that is not there.
LEMMA CrearAbs ==
    ASSUME IInv, NEW f \in Archivos, create_file(f)
    PROVE  Conserva' /\ Abs!Next
  <1>1. /\ op = ninguna /\ op' = ninguna /\ f \notin existe /\ existe' = existe \cup {f}
        /\ fcb' = [fcb EXCEPT ![f] = Vacio] /\ UNCHANGED <<punt, datos>>
        /\ respuesta'.codigo = "FILE_CREATED" /\ respuesta'.archivo = f
    BY DEF create_file, Libre
  <1>2. Conserva'
    BY <1>1 DEF Conserva
  <1>3. f \notin DOMAIN Contenido /\ DOMAIN Contenido = existe /\ DOMAIN Contenido' = existe'
    BY <1>1 DEF Contenido
  <1>4. fcb'[f] = Vacio /\ \A g \in Archivos : g # f => fcb'[g] = fcb[g]
    BY <1>1 DEF IInv, Tipos
  <1>5. Contenido'[f] = <<>>
    <2>1. fcb'[f].tamanio = 0
      BY <1>4 DEF Vacio
    <2>2. Contenido'[f] = Texto(fcb'[f], PunterosDe(f)', datos')
      BY <1>1, ContenidoDePrima
    <2>3. \A c, s, d : c.tamanio = 0 => Texto(c, s, d) = <<>>
      BY DEF Texto
    <2> QED
      BY <2>1, <2>2, <2>3
  <1>6. ASSUME NEW g \in existe PROVE Contenido'[g] = Contenido[g]
    <2>1. g # f /\ g \in Archivos /\ g \in existe'
      BY <1>1 DEF IInv, Tipos
    <2>2. fcb'[g] = fcb[g] /\ PunterosDe(g)' = PunterosDe(g)
      BY <1>1, <1>4, <2>1, PunterosSon DEF EnCurso
    <2> QED
      BY <1>1, <2>1, <2>2, ContenidoDe, ContenidoDePrima
  <1>7. Contenido' = [g \in DOMAIN Contenido \cup {f} |-> IF g = f THEN <<>> ELSE Contenido[g]]
    <2> DEFINE D == [g \in DOMAIN Contenido \cup {f} |-> IF g = f THEN <<>> ELSE Contenido[g]]
    <2>1. DOMAIN Contenido' = DOMAIN D /\ \A g \in DOMAIN D : Contenido'[g] = D[g]
      BY <1>1, <1>3, <1>5, <1>6
    <2>2. Contenido' = [g \in DOMAIN Contenido' |-> Contenido'[g]]
      BY DEF Contenido
    <2> QED
      BY <2>1, <2>2
  <1> QED
    BY <1>1, <1>2, <1>3, <1>7, AbsCrear

\* F_TRUNCATE, once its FCB is written: the bytes that stay are where they were.
LEMMA GuardarAbs ==
    ASSUME IInv, Conserva, update_fcb, datos \in [Bytes -> Valores]
    PROVE  Conserva' /\ Abs!Next
  <1>1. PICK f, n, q, s, v, w : /\ f = op.archivo /\ n = op.tamanio /\ q = op.punteros
                                /\ s = PunterosEn(punt, op.c) /\ v = fcb[f] /\ w = fcb'[f]
    OBVIOUS
  <1>2. /\ ~caida /\ op # ninguna /\ op \in Operacion /\ op.c \in FcbEnDisco /\ f \in Archivos
        /\ op.faltan = 0 /\ f \in existe /\ n \in Nat
    <2>1. ~caida /\ op.fase \in {"crece", "guarda"}
      BY DEF update_fcb
    <2>2. op # ninguna /\ op \in Operacion /\ op.c \in FcbEnDisco
      BY <2>1, OperacionTipo DEF IInv, Tipos
    <2>3. op.faltan = 0
      BY DEF update_fcb, IInv, Bloqueo
    <2>4. n \in Nat
      BY <1>1, <2>2, FileSystemAssumption DEF Operacion
    <2> QED
      BY <1>1, <2>1, <2>2, <2>3, <2>4 DEF Operacion, IInv, Bloqueo
  <1>3. /\ fcb' = [fcb EXCEPT ![f] = [op.c EXCEPT !.tamanio = n]]
        /\ op' = ninguna /\ UNCHANGED <<existe, punt, datos>>
        /\ respuesta'.codigo = "FILE_TRUNCATED" /\ respuesta'.archivo = f /\ respuesta'.tamanio = n
    BY <1>1 DEF update_fcb
  <1>4. /\ w = [op.c EXCEPT !.tamanio = n] /\ \A g \in Archivos : g # f => fcb'[g] = fcb[g]
        /\ fcb \in [Archivos -> FcbEnDisco] /\ existe \subseteq Archivos
    BY <1>1, <1>2, <1>3 DEF IInv, Tipos
  <1>5. w.tamanio = n /\ w.directo = op.c.directo /\ w.indirecto = op.c.indirecto
    BY <1>2, <1>4 DEF FcbEnDisco
  <1>6. Conserva'
    BY <1>3 DEF Conserva
  <1>7. \A g : (EnCurso(g) <=> g = f) /\ ~EnCurso(g)'
    BY <1>1, <1>2, <1>3 DEF EnCurso
  <1>8. /\ PunterosDe(f) = q /\ PunterosDe(f)' = s
        /\ \A g \in Archivos : g # f => PunterosDe(g)' = PunterosDe(g)
    <2>1. PunterosEn(punt', w) = s
      BY <1>1, <1>3, <1>5 DEF PunterosEn
    <2> QED
      BY <1>1, <1>3, <1>4, <1>7, <2>1, PunterosSon
  <1>9. DOMAIN Contenido' = DOMAIN Contenido /\ DOMAIN Contenido = existe
    BY <1>3 DEF Contenido
  <1>10. \A g \in DOMAIN Contenido \ {f} : Contenido'[g] = Contenido[g]
    BY <1>3, <1>4, <1>8, <1>9, ContenidoDe, ContenidoDePrima
  <1>11. Contenido'[f] = Texto(w, s, datos) /\ Vista[f] = w /\ Listado[f] = s
    <2>1. Contenido'[f] = Texto(w, s, datos)
      BY <1>1, <1>2, <1>3, <1>8, ContenidoDePrima
    <2>2. Vista[f] = w
      BY <1>1, <1>2, <1>4, <1>7, Vistas
    <2>3. Listado[f] = s
      BY <1>1, <1>2, <1>5, <2>2, Vistas DEF PunterosEn
    <2> QED
      BY <2>1, <2>2, <2>3
  <1>12. \A i \in 1..n : Lugar(w, s, i) \in Bytes
    BY <1>2, <1>5, <1>11, LugarVista
  <1>13. Contenido'[f] \in [1..n -> Valores]
    BY <1>5, <1>11, <1>12 DEF Texto
  <1>14. ASSUME NEW i \in 1..n, i <= Len(Contenido[f])
         PROVE  Contenido'[f][i] = Contenido[f][i]
    <2>1. v \in FcbEnDisco /\ v.tamanio \in Nat
      BY <1>1, <1>2, <1>4 DEF FcbEnDisco
    <2>2. Len(Contenido[f]) = v.tamanio /\ Contenido[f] = Texto(v, q, datos)
      BY <1>1, <1>2, <1>8, <2>1, ContenidoDe, TextoDe
    <2>3. i \in Nat /\ i \in 1..v.tamanio /\ v.tamanio > 0 /\ n > 0
      BY <1>2, <1>14, <2>1, <2>2
    <2>4. PICK k : k = (i - 1) \div BlockSize
      OBVIOUS
    <2>5. ConservaDe(op.fase, v, n, op.c, q, s)
      BY <1>1, <1>2 DEF Conserva
    <2>6. 1 + Len(q) >= CantBloques(v.tamanio) /\ op.c.directo = v.directo
          /\ \A j \in 1..Len(q) : j <= Len(s) => s[j] = q[j]
      BY <2>3, <2>5 DEF ConservaDe
    <2>7. 1 + Len(s) >= CantBloques(n) /\ s \in Seq(Punteros \ {0}) /\ Len(s) \in Nat
      <3>1. Vista[f] = w /\ Listado[f] = s /\ Pendientes(f) = 0
        BY <1>2, <1>11 DEF Pendientes
      <3>2. CubreCon(n, s, 0, paro)
        BY <1>2, <1>5, <3>1 DEF IInv, Bloqueo, Cubierto
      <3>3. s \in Seq(Punteros \ {0})
        BY <1>2, <3>1, VistaTipo DEF IInv
      <3>4. Len(s) \in Nat
        BY <3>3
      <3> QED
        BY <2>3, <3>2, <3>3, <3>4 DEF CubreCon
    <2>8. k \in Nat /\ k + 1 <= CantBloques(n) /\ k + 1 <= CantBloques(v.tamanio)
      <3>1. PICK m \in Nat : m = v.tamanio
        BY <2>1
      <3>2. k \in Nat /\ k + 1 <= CantBloques(n)
        BY ONLY <1>2, <2>4, i \in 1..n, BloqueDe
      <3>3. i \in 1..m
        BY <2>3, <3>1
      <3>4. k + 1 <= CantBloques(m)
        BY ONLY <2>4, <3>3, m \in Nat, BloqueDe
      <3> QED
        BY <3>1, <3>2, <3>4
    <2>9. CantBloques(n) \in Nat /\ CantBloques(v.tamanio) \in Nat
      <3>1. n <= n /\ v.tamanio <= v.tamanio
        BY <1>2, <2>1
      <3> QED
        BY <1>2, <2>1, <3>1, CantBloquesCrece
    <2>10. q \in Seq(Punteros \ {0}) /\ Len(q) \in Nat
      BY <1>1, <1>2 DEF Operacion
    <2>11. k <= Len(s) /\ k <= Len(q)
      BY <2>6, <2>7, <2>8, <2>9, <2>10
    <2>12. k # 0 => s[k] = q[k]
      BY <2>6, <2>8, <2>10, <2>11
    <2>13. Lugar(w, s, i) = Lugar(v, q, i)
      BY <1>5, <2>4, <2>6, <2>11, <2>12 DEF Lugar, Inicio
    <2> QED
      BY <1>2, <1>5, <1>11, <2>1, <2>2, <2>3, <2>13, TextoDe
  <1> QED
    BY <1>2, <1>3, <1>6, <1>9, <1>10, <1>13, <1>14, AbsTruncar

\* The move of byte i of the stream that Debidos asks for.
Debido(p, i) == <<i, (p + i) \div BlockSize, (p + i) % BlockSize>>

\* Its place is that of a byte of the file.
LEMMA DebidoEn ==
    ASSUME NEW c, NEW p \in Nat, NEW i \in Nat
    PROVE  EnDisco(c, Debido(p, i)) = Lugar(c, obtenerPunterosIndirectos(c), p + i + 1)
  <1>1. (p + i + 1) - 1 = p + i
    OBVIOUS
  <1> QED
    BY <1>1 DEF EnDisco, Debido, Lugar

\* Of one copy, the last is that one.
LEMMA UltimaSola ==
    ASSUME NEW m, m[2] \in Nat
    PROVE  Ultima({m}) = m
  <1>1. \E x \in {m} : \A n \in {m} : n[2] <= x[2]
    OBVIOUS
  <1> QED
    BY <1>1 DEF Ultima

\* A safe access within a file: what it moves, each byte from or to its own place.
LEMMA AccesoSeguro ==
    ASSUME IInv, Libre, NEW f \in existe, NEW a \in Accesos, Cabe(f, a), Segura(a)
    PROVE  /\ f \in Archivos /\ a.puntero \in Nat /\ a.cant \in Nat /\ a.cant > 0
           /\ a.puntero + a.cant <= fcb[f].tamanio
           /\ ~Desborda(a)
           /\ \A m : m \in Movidos(a) <=> \E i \in 0..(a.cant - 1) : m = Debido(a.puntero, i)
           /\ \A i \in 0..(a.cant - 1) :
                /\ a.puntero + i + 1 \in 1..fcb[f].tamanio
                /\ EnDisco(fcb[f], Debido(a.puntero, i)) = Lugar(fcb[f], PunterosDe(f), a.puntero + i + 1)
                /\ Debido(a.puntero, i)[2] \in Nat
           /\ \A g \in Archivos : fcb[g].tamanio \in Nat
           /\ \A g \in Archivos : \A j \in 1..fcb[g].tamanio : Lugar(fcb[g], PunterosDe(g), j) \in Bytes
           /\ \A g, h \in Archivos : \A j \in 1..fcb[g].tamanio, k \in 1..fcb[h].tamanio :
                Lugar(fcb[g], PunterosDe(g), j) = Lugar(fcb[h], PunterosDe(h), k) => g = h /\ j = k
  <1>1. PICK p, cant : p = a.puntero /\ cant = a.cant
    OBVIOUS
  <1>2. a \in [puntero : Nat, cant : Nat \ {0}] /\ p \in Nat /\ cant \in Nat /\ cant > 0
    BY <1>1, FileSystemAssumption
  <1>3. f \in Archivos /\ fcb \in [Archivos -> FcbEnDisco]
    BY DEF IInv, Tipos
  <1>4. \A g \in Archivos : fcb[g].tamanio \in Nat
    BY <1>3 DEF FcbEnDisco
  <1>5. p + cant <= fcb[f].tamanio
    BY <1>1, <1>2, <1>3, <1>4 DEF Cabe
  <1>6. ~Desborda(a) /\ Movidos(a) = Debidos(a)
    BY <1>2, Exactitud
  <1>7. \A m : m \in Movidos(a) <=> \E i \in 0..(cant - 1) : m = Debido(p, i)
    BY <1>1, <1>6 DEF Debidos, Debido
  <1>8. op = ninguna /\ ~caida
    BY DEF Libre
  <1>9. \A g \in Archivos : /\ Vista[g] = fcb[g] /\ Listado[g] = PunterosDe(g)
                            /\ PunterosDe(g) = obtenerPunterosIndirectos(fcb[g])
    BY <1>8, Reposo DEF PunterosDe
  <1>10. ASSUME NEW i \in 0..(cant - 1)
         PROVE  /\ p + i + 1 \in 1..fcb[f].tamanio
                /\ EnDisco(fcb[f], Debido(p, i)) = Lugar(fcb[f], PunterosDe(f), p + i + 1)
                /\ Debido(p, i)[2] \in Nat
    <2>1. i \in Nat /\ p + i \in Nat /\ p + i + 1 \in 1..fcb[f].tamanio
      BY <1>2, <1>3, <1>4, <1>5
    <2>2. (p + i) \div BlockSize \in Nat
      BY <2>1, Resto
    <2>3. Debido(p, i)[2] \in Nat
      BY <2>2 DEF Debido
    <2>4. EnDisco(fcb[f], Debido(p, i)) = Lugar(fcb[f], obtenerPunterosIndirectos(fcb[f]), p + i + 1)
      BY <1>2, <2>1, DebidoEn
    <2> QED
      BY <1>3, <1>9, <2>1, <2>3, <2>4
  <1>11. \A g \in Archivos : \A j \in 1..fcb[g].tamanio :
           /\ Lugar(fcb[g], PunterosDe(g), j) \in Bytes
           /\ \A h \in Archivos : \A k \in 1..fcb[h].tamanio :
                Lugar(fcb[h], PunterosDe(h), k) = Lugar(fcb[g], PunterosDe(g), j) => h = g /\ k = j
    BY <1>8, <1>9, LugarVista
  <1> QED
    BY <1>1, <1>2, <1>3, <1>4, <1>5, <1>6, <1>7, <1>10, <1>11

\* F_READ: the stream is that part of the content.
LEMMA LeerAbs ==
    ASSUME IInv, Conserva, CopiaSegura, NEW f \in Archivos, NEW a \in Accesos, read_file(f, a),
           datos \in [Bytes -> Valores]
    PROVE  Conserva' /\ Abs!Next
  <1> DEFINE c == fcb[f]
             cant == a.cant
             De(i) == {m \in Movidos(a) : m[1] = i - 1 /\ EnDisco(c, m) \in Bytes}
             huecos == {i \in 1..cant : De(i) = {}}
  <1>1. PICK p, T : p = a.puntero /\ T = Contenido[f]
    OBVIOUS
  <1>2. Libre /\ f \in existe /\ Cabe(f, a) /\ Segura(a) /\ UNCHANGED <<disco, op>>
    BY DEF read_file
  <1>3. /\ p \in Nat /\ cant \in Nat /\ cant > 0 /\ p + cant <= c.tamanio /\ c.tamanio \in Nat
        /\ \A m : m \in Movidos(a) <=> \E i \in 0..(cant - 1) : m = Debido(p, i)
        /\ \A i \in 0..(cant - 1) : /\ p + i + 1 \in 1..c.tamanio
                                    /\ EnDisco(c, Debido(p, i)) = Lugar(c, PunterosDe(f), p + i + 1)
                                    /\ Debido(p, i)[2] \in Nat
        /\ \A j \in 1..c.tamanio : Lugar(c, PunterosDe(f), j) \in Bytes
    BY <1>1, <1>2, AccesoSeguro
  <1>4. PICK basura \in [huecos -> Valores] :
          respuesta' = Acceso("FILE_READ", f, a,
              [i \in 1..cant |-> IF i \in huecos THEN basura[i] ELSE datos[EnDisco(c, Ultima(De(i)))]])
    BY DEF read_file
  <1>0. c = fcb[f] /\ cant = a.cant
    OBVIOUS
  <1> HIDE DEF c, cant
  <1>5. PICK s : s = [i \in 1..cant |-> IF i \in huecos THEN basura[i]
                                        ELSE datos[EnDisco(c, Ultima(De(i)))]]
    OBVIOUS
  <1>6. \A i \in 1..cant : De(i) = {Debido(p, i - 1)}
    <2> SUFFICES ASSUME NEW i \in 1..cant PROVE De(i) = {Debido(p, i - 1)}
      OBVIOUS
    <2>1. i - 1 \in 0..(cant - 1) /\ i - 1 \in Nat
      BY <1>3
    <2>2. Debido(p, i - 1) \in De(i)
      BY <1>3, <2>1 DEF Debido
    <2>3. \A m \in De(i) : m = Debido(p, i - 1)
      BY <1>3, <2>1 DEF Debido
    <2> QED
      BY <2>2, <2>3
  <1> HIDE DEF De
  <1>7. T = Texto(c, PunterosDe(f), datos) /\ Len(T) = c.tamanio /\ f \in DOMAIN Contenido
        /\ \A j \in 1..c.tamanio : T[j] = datos[Lugar(c, PunterosDe(f), j)]
    BY <1>0, <1>1, <1>2, <1>3, ContenidoDe, TextoDe
  <1>8. ASSUME NEW i \in 1..cant PROVE s[i] = T[p + i] /\ p + i \in 1..c.tamanio
    <2>1. i - 1 \in 0..(cant - 1) /\ p + (i - 1) + 1 = p + i
      BY <1>3
    <2>2. Ultima(De(i)) = Debido(p, i - 1)
      BY <1>3, <1>6, <2>1, UltimaSola
    <2>3. i \notin huecos
      BY <1>6
    <2>4. s[i] = datos[EnDisco(c, Debido(p, i - 1))]
      BY <1>5, <2>2, <2>3
    <2>5. p + i \in 1..c.tamanio /\ EnDisco(c, Debido(p, i - 1)) = Lugar(c, PunterosDe(f), p + i)
      BY <1>3, <2>1
    <2> QED
      BY <1>7, <2>4, <2>5
  <1> HIDE DEF huecos
  <1>9. T \in Seq(Valores)
    <2>1. \A j \in 1..c.tamanio : datos[Lugar(c, PunterosDe(f), j)] \in Valores
      BY <1>3
    <2>2. Texto(c, PunterosDe(f), datos) \in [1..c.tamanio -> Valores]
      BY <2>1 DEF Texto
    <2> QED
      BY <1>3, <1>7, <2>2
  <1>10. DOMAIN s = 1..cant /\ Len(s) = cant
    BY <1>3, <1>5
  <1>11. s = SubSeq(T, p + 1, p + Len(s))
    <2> DEFINE u == SubSeq(T, p + 1, p + cant)
    <2>1. /\ DOMAIN u = 1..cant /\ \A i \in 1..cant : u[i] = T[p + i]
      BY <1>3, <1>7, <1>9
    <2>2. s = [i \in 1..cant |-> s[i]] /\ u = [i \in 1..cant |-> u[i]]
      BY <1>5, <1>3, <1>9
    <2> QED
      BY <1>8, <1>10, <2>1, <2>2
  <1>12. /\ respuesta'.codigo = "FILE_READ" /\ respuesta'.archivo = f /\ respuesta'.puntero = p
         /\ respuesta'.datos = s
    BY <1>0, <1>1, <1>4, <1>5 DEF Acceso
  <1>13. Contenido' = Contenido
    BY <1>2, MismoContenido, PunterosSon DEF disco, EnCurso
  <1>14. Conserva'
    BY <1>2 DEF Conserva, Libre
  <1>15. /\ s = SubSeq(Contenido[f], p + 1, p + Len(s)) /\ f \in DOMAIN Contenido
         /\ p + Len(s) <= Len(Contenido[f])
    BY <1>1, <1>3, <1>7, <1>10, <1>11
  <1>16. Abs!Next
    BY <1>12, <1>13, <1>15, AbsLeer
  <1> QED
    BY <1>14, <1>16

\* F_WRITE: those bytes of the file change, and no other byte of any file.
LEMMA EscribirAbs ==
    ASSUME IInv, Conserva, CopiaSegura, NEW f \in Archivos, NEW a \in Accesos, NEW info \in Datos,
           write_file(f, a, info), datos \in [Bytes -> Valores]
    PROVE  Conserva' /\ Abs!Next
  <1> DEFINE En(x) == {m \in Movidos(a) : EnDisco(fcb[f], m) = x}
  <1>1. PICK p, cant : p = a.puntero /\ cant = a.cant
    OBVIOUS
  <1>2. /\ Libre /\ f \in existe /\ Cabe(f, a) /\ Segura(a) /\ Len(info) = cant
        /\ UNCHANGED <<existe, fcb, punt, op>>
        /\ respuesta' = Acceso("FILE_WRITTEN", f, a, info)
    BY <1>1 DEF write_file
  <1>3. PICK basura :
          datos' = [x \in Bytes |-> IF En(x) = {} THEN datos[x]
                                    ELSE IF Ultima(En(x))[1] < a.cant THEN info[Ultima(En(x))[1] + 1]
                                         ELSE basura[Ultima(En(x))[1]]]
    BY DEF write_file
  <1> DEFINE L(g, j) == Lugar(fcb[g], PunterosDe(g), j)
  <1>4. /\ p \in Nat /\ cant \in Nat /\ cant > 0 /\ p + cant <= fcb[f].tamanio
        /\ \A m : m \in Movidos(a) <=> \E i \in 0..(cant - 1) : m = Debido(p, i)
        /\ \A i \in 0..(cant - 1) : /\ p + i + 1 \in 1..fcb[f].tamanio
                                    /\ EnDisco(fcb[f], Debido(p, i)) = L(f, p + i + 1)
                                    /\ Debido(p, i)[2] \in Nat
        /\ \A g \in Archivos : fcb[g].tamanio \in Nat
        /\ \A g \in Archivos : \A j \in 1..fcb[g].tamanio : L(g, j) \in Bytes
        /\ \A g, h \in Archivos : \A j \in 1..fcb[g].tamanio, k \in 1..fcb[h].tamanio :
             L(g, j) = L(h, k) => g = h /\ j = k
    BY <1>1, <1>2, AccesoSeguro
  <1> HIDE DEF L
  <1>5. ASSUME NEW j \in 1..fcb[f].tamanio, j - p \in 1..cant
        PROVE  datos'[L(f, j)] = info[j - p]
    <2>1. PICK i : i = j - p - 1
      OBVIOUS
    <2>2. i \in 0..(cant - 1) /\ i + 1 = j - p /\ p + i + 1 = j /\ j \in Nat
      BY <1>4, <1>5, <2>1
    <2>3. Debido(p, i) \in En(L(f, j))
      BY <1>4, <2>2
    <2>4. ASSUME NEW m \in En(L(f, j)) PROVE m = Debido(p, i)
      <3>1. PICK k \in 0..(cant - 1) : m = Debido(p, k)
        BY <1>4
      <3>2. L(f, p + k + 1) = L(f, j)
        BY <1>4, <3>1
      <3>3. p + k + 1 = j
        BY <1>4, <3>2
      <3>4. k = i
        BY <1>4, <2>2, <3>3
      <3> QED
        BY <3>1, <3>4
    <2>5. En(L(f, j)) = {Debido(p, i)}
      BY <2>3, <2>4
    <2>6. Ultima(En(L(f, j))) = Debido(p, i)
      BY <1>4, <2>2, <2>5, UltimaSola
    <2>7. Debido(p, i)[1] = i
      BY DEF Debido
    <2>8. L(f, j) \in Bytes /\ En(L(f, j)) # {}
      BY <1>4, <2>3
    <2>9. i < a.cant
      BY <1>1, <1>4, <2>2
    <2> HIDE DEF En
    <2> QED
      BY <1>3, <2>2, <2>6, <2>7, <2>8, <2>9
  <1>6. ASSUME NEW g \in Archivos, NEW j \in 1..fcb[g].tamanio, ~(g = f /\ j - p \in 1..cant)
        PROVE  datos'[L(g, j)] = datos[L(g, j)]
    <2>1. ASSUME NEW m \in En(L(g, j)) PROVE FALSE
      <3>1. PICK k \in 0..(cant - 1) : m = Debido(p, k)
        BY <1>4
      <3>2. L(f, p + k + 1) = L(g, j) /\ p + k + 1 \in 1..fcb[f].tamanio
        BY <1>4, <3>1
      <3>3. g = f /\ j = p + k + 1
        BY <1>4, <3>2
      <3>4. j - p \in 1..cant
        BY <1>4, <3>3
      <3> QED
        BY <1>6, <3>3, <3>4
    <2>2. En(L(g, j)) = {} /\ L(g, j) \in Bytes
      BY <1>4, <2>1
    <2> HIDE DEF En
    <2> QED
      BY <1>3, <2>2
  <1> HIDE DEF En
  <1>7. existe \subseteq Archivos
    BY DEF IInv, Tipos
  <1>8. \A g \in existe : PunterosDe(g)' = PunterosDe(g)
    BY <1>2, PunterosSon DEF EnCurso
  <1>9. \A g \in existe : /\ Contenido[g] = Texto(fcb[g], PunterosDe(g), datos)
                          /\ Contenido'[g] = Texto(fcb[g], PunterosDe(g), datos')
    BY <1>2, <1>8, ContenidoDe, ContenidoDePrima
  <1>10. \A g \in existe : \A d : /\ Len(Texto(fcb[g], PunterosDe(g), d)) = fcb[g].tamanio
                                  /\ DOMAIN Texto(fcb[g], PunterosDe(g), d) = 1..fcb[g].tamanio
                                  /\ \A j \in 1..fcb[g].tamanio : Texto(fcb[g], PunterosDe(g), d)[j] = d[L(g, j)]
    BY <1>4, <1>7, TextoDe DEF L
  <1>11. ASSUME NEW g \in existe, g # f PROVE Contenido'[g] = Contenido[g]
    <2>1. \A j \in 1..fcb[g].tamanio : datos'[L(g, j)] = datos[L(g, j)]
      BY <1>6, <1>7, <1>11
    <2>2. Texto(fcb[g], PunterosDe(g), datos') = Texto(fcb[g], PunterosDe(g), datos)
      BY <2>1 DEF Texto, L
    <2> QED
      BY <1>9, <2>2
  <1> DEFINE nuevo == [i \in 1..Len(Contenido[f]) |->
                         IF i - p \in 1..Len(info) THEN info[i - p] ELSE Contenido[f][i]]
  <1>12. Contenido'[f] = nuevo
    <2>1. Len(Contenido[f]) = fcb[f].tamanio /\ Contenido'[f] = Texto(fcb[f], PunterosDe(f), datos')
      BY <1>2, <1>9, <1>10
    <2>2. ASSUME NEW i \in 1..fcb[f].tamanio
          PROVE  datos'[L(f, i)] = IF i - p \in 1..Len(info) THEN info[i - p] ELSE Contenido[f][i]
      <3>1. Contenido[f][i] = datos[L(f, i)]
        BY <1>2, <1>9, <1>10
      <3> QED
        BY <1>2, <1>5, <1>6, <3>1
    <2>3. Texto(fcb[f], PunterosDe(f), datos')
            = [i \in 1..fcb[f].tamanio |-> IF i - p \in 1..Len(info) THEN info[i - p] ELSE Contenido[f][i]]
      BY <2>2 DEF Texto, L
    <2> QED
      BY <2>1, <2>3
  <1> HIDE DEF nuevo
  <1>13. Contenido' = [Contenido EXCEPT ![f] = nuevo]
    <2>1. DOMAIN Contenido = existe /\ DOMAIN Contenido' = existe
      BY <1>2 DEF Contenido
    <2>2. Contenido' = [g \in existe |-> Contenido'[g]] /\ Contenido = [g \in existe |-> Contenido[g]]
      BY <1>2 DEF Contenido
    <2> QED
      BY <1>2, <1>11, <1>12, <2>1, <2>2
  <1>14. /\ respuesta'.codigo = "FILE_WRITTEN" /\ respuesta'.archivo = f /\ respuesta'.puntero = p
         /\ respuesta'.datos = info
    BY <1>1, <1>2 DEF Acceso
  <1>15. f \in DOMAIN Contenido /\ p + Len(info) <= Len(Contenido[f])
    BY <1>2, <1>4, <1>9, <1>10, ContenidoDe
  <1>16. Abs!Next
    BY <1>13, <1>14, <1>15, AbsEscribir DEF nuevo
  <1>17. Conserva'
    BY <1>2 DEF Conserva, Libre
  <1> QED
    BY <1>16, <1>17

\* The invariant of the refinement.
RInv == IInv /\ Conserva /\ datos \in [Bytes -> Valores]

\* The programs and the environment for which it holds.
Prudente == Holgado /\ CopiaSegura /\ ~FallaMemoria /\ "guarda" \notin Paradas

\* Requests that are refused or answered without a change.
LEMMA ContestarAbs ==
    ASSUME Conserva, UNCHANGED <<disco, op>>,
           respuesta'.codigo \in {"nada", "FILE_OPEN", "FILE_NOT_EXIST", "FILE_NOT_EXISTS", "ERROR"}
    PROVE  Conserva' /\ Abs!Next
  <1>1. UNCHANGED <<existe, fcb, bitmap, punt, datos>>
    BY DEF disco
  <1>2. Conserva'
    BY <1>1 DEF Conserva, ConservaDe, PunterosEn, CantBloques
  <1>3. \A g \in existe : PunterosDe(g)' = PunterosDe(g)
    BY <1>1, PunterosSon DEF EnCurso
  <1> QED
    BY <1>1, <1>2, <1>3, MismoContenido, AbsContestar

\* Every step is one of ArchivosAbs or changes neither content nor answer.
LEMMA NextRefina ==
    ASSUME Prudente, RInv, [Next]_vars
    PROVE  RInv' /\ (Abs!Next \/ UNCHANGED Abs!vars)
  <1>1. IInv' /\ datos' \in [Bytes -> Valores]
    BY NextBloqueo, NextDatos DEF Prudente, RInv
  <1> SUFFICES Conserva' /\ (Abs!Next \/ UNCHANGED Abs!vars)
    BY <1>1 DEF RInv
  <1>2. ASSUME NEW f \in Archivos, open_file(f)
        PROVE  Conserva' /\ Abs!Next
    BY <1>2, ContestarAbs DEF RInv, open_file, Respuesta
  <1>3. ASSUME NEW f \in Archivos, create_file(f)
        PROVE  Conserva' /\ Abs!Next
    BY <1>3, CrearAbs DEF RInv
  <1>4. ASSUME NEW f \in Archivos, NEW n \in Tamanios, TruncarRechazado(f, n)
        PROVE  Conserva' /\ Abs!Next
    BY <1>4, ContestarAbs DEF RInv, TruncarRechazado, Rechazar, Respuesta
  <1>5. ASSUME NEW f \in Archivos, NEW n \in Tamanios, Crecer(f, n) \/ Achicar(f, n) \/ Igual(f, n)
        PROVE  Conserva' /\ UNCHANGED Abs!vars
    <2>1. Conserva' /\ Contenido' = Contenido
      BY <1>5, CrecerConserva, AchicarConserva, IgualConserva DEF RInv
    <2>2. respuesta' = respuesta
      BY <1>5 DEF Crecer, Achicar, Igual
    <2> QED
      BY <2>1, <2>2, AbsNada
  <1>6. ASSUME NEW f \in Archivos, NEW a \in Accesos, AccesoRechazado(f, a) \/ LecturaRechazada(f, a)
        PROVE  Conserva' /\ Abs!Next
    BY <1>6, ContestarAbs DEF RInv, AccesoRechazado, LecturaRechazada, Rechazar, Respuesta
  <1>7. ASSUME NEW f \in Archivos, NEW a \in Accesos, read_file(f, a)
        PROVE  Conserva' /\ Abs!Next
    BY <1>7, LeerAbs DEF RInv, Prudente
  <1>8. ASSUME NEW f \in Archivos, NEW a \in Accesos, NEW info \in Datos, write_file(f, a, info)
        PROVE  Conserva' /\ Abs!Next
    BY <1>8, EscribirAbs DEF RInv, Prudente
  <1>9. ASSUME NEW f \in Archivos, NEW a \in Accesos, NEW info \in Datos, EscrituraSinDatos(f, a, info)
        PROVE  FALSE
    BY <1>9 DEF EscrituraSinDatos, Prudente
  <1>10. CASE TomarIndirecto \/ CrearIndirecto
    <2>1. Conserva' /\ Contenido' = Contenido
      BY <1>10, TomarConserva, CrearConserva DEF RInv
    <2>2. respuesta' = respuesta
      BY <1>10 DEF TomarIndirecto, CrearIndirecto
    <2> QED
      BY <2>1, <2>2, AbsNada
  <1>11. CASE update_fcb
    BY <1>11, GuardarAbs DEF RInv
  <1>12. CASE Parar
    <2>1. Conserva' /\ Contenido' = Contenido
      BY <1>12, PararConserva DEF RInv, Prudente
    <2>2. respuesta'.codigo = "nada"
      BY <1>12 DEF Parar, Respuesta
    <2> QED
      BY <2>1, <2>2, AbsContestar
  <1>13. CASE UNCHANGED vars
    <2>1. UNCHANGED <<existe, fcb, punt, datos, op, respuesta>>
      BY <1>13 DEF vars
    <2>2. Conserva'
      BY <2>1 DEF RInv, Conserva, ConservaDe, PunterosEn, CantBloques
    <2>3. \A g \in existe : PunterosDe(g)' = PunterosDe(g)
      BY <2>1, PunterosSon DEF EnCurso
    <2> QED
      BY <2>1, <2>2, <2>3, MismoContenido, AbsNada
  <1> QED
    BY <1>2, <1>3, <1>4, <1>5, <1>6, <1>7, <1>8, <1>9, <1>10, <1>11, <1>12, <1>13 DEF Next

\* Blocks, pointers, bitmap and copies implement files of bytes: a byte read is the last one
\* written there, F_TRUNCATE keeps the bytes that stay, and no request touches another file,
\* also when the process is stopped while a file grows.
THEOREM FileSystemImplementaAbs ==
    ASSUME Prudente
    PROVE  Spec => ImplementaAbs
  <1>1. Init => RInv /\ Abs!Init
    <2> SUFFICES ASSUME Init PROVE RInv /\ Abs!Init
      OBVIOUS
    <2>1. IInv
      BY InitBloqueo
    <2>2. datos \in [Bytes -> Valores]
      BY FileSystemAssumption DEF Init
    <2>3. Conserva
      BY DEF Init, Conserva
    <2>4. Contenido = <<>>
      BY DEF Init, Contenido
    <2>5. respuesta.codigo = "nada"
      BY DEF Init, Respuesta
    <2>6. Abs!Init
      BY <2>4, <2>5 DEF Abs!Init, Contenido, Texto, Lugar
    <2> QED
      BY <2>1, <2>2, <2>3, <2>6 DEF RInv
  <1>2. RInv /\ [Next]_vars => RInv' /\ [Abs!Next]_(Abs!vars)
    BY NextRefina
  <1> QED
    BY <1>1, <1>2, PTL DEF Spec, ImplementaAbs, Abs!Spec
=============================================================================
