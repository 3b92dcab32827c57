--------------------------- MODULE ConexionProofs ---------------------------
(* Two results about the connections, for any number of kernels and requests: that *)
(* memoria serves one connection of each module, and that every package is read as *)
(* it was sent. The second needs what the serialisation of Paquetes computes.      *)
EXTENDS Conexion, Listas, TLAPS

\* The states a connection goes through.
EstadosCon == {"no", "cola", "fallida", "respondida", "confirmada", "aceptada",
               "ignorada", "cerrada"}

\* The connection has, or had, a thread of memoria.
Servida(c) == c[2] = "memoria" /\ con[c] \in {"aceptada", "cerrada"}

\* Whoever got a thread was marked as connected, and nobody is unmarked.
Marcados == \A c \in Conexiones : Servida(c) => Rol(c[1]) \in conectados

\* The inductive invariant of the threads of memoria.
IInv == con \in [Conexiones -> EstadosCon] /\ Marcados /\ UnaPorModulo

\* What a step may do to the connections: leave them, or give one a state in which it
\* is not served, or close one that was.
Otra(c) ==
    \/ con' = con
    \/ \E e \in {"cola", "fallida", "respondida", "confirmada"} : con' = [con EXCEPT ![c] = e]
    \/ con[c] = "aceptada" /\ con' = [con EXCEPT ![c] = "cerrada"]

\* A step in which no connection comes to be served.
LEMMA PasoOtra ==
    ASSUME IInv, NEW c, Otra(c), conectados' = conectados
    PROVE  IInv'
<1>1. con' \in [Conexiones -> EstadosCon]
  BY DEF IInv, Otra, EstadosCon
<1>2. \A d \in Conexiones : Servida(d)' => Servida(d)
  BY DEF IInv, Otra, Servida
<1>3. Marcados'
  BY <1>2 DEF IInv, Marcados, Rol, EsKernel
<1>4. UnaPorModulo'
  BY <1>2 DEF IInv, UnaPorModulo, Servida, Rol, EsKernel
<1> QED
  BY <1>1, <1>3, <1>4 DEF IInv

\* The thread of the server: the one step that takes a connection.
LEMMA PasoAceptar ==
    ASSUME IInv, NEW c \in Conexiones, hs_server_to_module_valid(c)
    PROVE  IInv'
<1> DEFINE r == Rol(c[1])
<1>1. con' \in [Conexiones -> EstadosCon]
  BY DEF IInv, hs_server_to_module_valid, EstadosCon
<1>2. conectados \subseteq conectados'
  BY DEF hs_server_to_module_valid
<1>3. \A d \in Conexiones : d # c => con'[d] = con[d]
  BY DEF IInv, hs_server_to_module_valid
<1>4. Servida(c)' => r \notin conectados /\ r \in conectados'
  BY DEF IInv, hs_server_to_module_valid, Servida, verify_existence_module
<1>5. Marcados'
  BY <1>2, <1>3, <1>4 DEF IInv, Marcados, Servida, Rol, EsKernel
<1>6. \A d \in Conexiones : d # c /\ Servida(d)' => Rol(d[1]) \in conectados
  BY <1>3 DEF IInv, Marcados, Servida
<1>7. UnaPorModulo'
  BY <1>3, <1>4, <1>6 DEF IInv, UnaPorModulo, Servida, Rol, EsKernel
<1> QED
  BY <1>1, <1>5, <1>7 DEF IInv

\* Every step keeps the inductive invariant.
LEMMA PasoInv ==
    ASSUME IInv, [Next]_vars
    PROVE  IInv'
<1>1. ASSUME NEW p \in Procesos, Arrancar(p) PROVE IInv'
  BY <1>1, PasoOtra DEF Arrancar, Otra, memvars
<1>2. ASSUME NEW p \in Procesos, Conectar(p) PROVE IInv'
  <2>1. PICK s : Otra(<<p, s>>)
    BY <1>2 DEF Conectar, Otra
  <2> QED
    BY <1>2, <2>1, PasoOtra DEF Conectar, memvars
<1>3. CASE start_memory \/ end_memory_server \/ FinMemoria
  BY <1>3, PasoOtra DEF start_memory, end_memory_server, FinMemoria, Otra, memvars
<1>4. ASSUME NEW c \in Conexiones, Paso(c) PROVE IInv'
  <2>1. CASE hs_server_to_module_valid(c)
    BY <2>1, PasoAceptar
  <2>2. CASE hs_client_to_module_valid(c)
    BY <2>2, PasoOtra DEF hs_client_to_module_valid, Otra, memvars
  <2>3. CASE client_wait(c)
    BY <2>3, PasoOtra DEF client_wait, Otra
  <2>4. CASE get_package(c) \/ Responder(c) \/ RecibirRespuesta(c) \/ SinRespuesta(c)
    BY <2>4, PasoOtra DEF get_package, Responder, RecibirRespuesta, SinRespuesta, Otra, memvars
  <2>5. CASE RecibirEnd(c) \/ SinCliente(c)
    BY <2>5, PasoOtra DEF RecibirEnd, SinCliente, EnGetPackage, FinBucle, Otra
  <2> QED
    BY <1>4, <2>1, <2>2, <2>3, <2>4, <2>5 DEF Paso
<1>5. ASSUME NEW c \in Conexiones, Pedir(c) PROVE IInv'
  BY <1>5, PasoOtra DEF Pedir, Otra, memvars
<1>6. ASSUME NEW k \in Procesos, TerminarProceso(k) \/ wait_end(k) \/ Salir(k) PROVE IInv'
  BY <1>6, PasoOtra DEF TerminarProceso, wait_end, Salir, Otra, memvars
<1>7. CASE UNCHANGED vars
  BY <1>7, PasoOtra DEF vars, Otra, memvars
<1> QED
  BY <1>1, <1>2, <1>3, <1>4, <1>5, <1>6, <1>7 DEF Next

\* memoria gives a thread to one connection of each module, whatever is started, in
\* whatever order, and however often the kernel comes back (verify_existence_module).
THEOREM UnaConexionPorModulo == Spec => []UnaPorModulo
<1>1. Init => IInv
  BY DEF Init, IInv, Marcados, UnaPorModulo, Servida, EstadosCon
<1>2. IInv /\ [Next]_vars => IInv'
  BY PasoInv
<1>3. IInv => UnaPorModulo
  BY DEF IInv
<1> QED
  BY <1>1, <1>2, <1>3, PTL DEF Spec


-----------------------------------------------------------------------------
(* Sums of lengths                                                         *)

\* a[k] is the sum of the first k elements of f.
Parcial(f, n, a) ==
    a \in [0..n -> Nat] /\ a[0] = 0 /\ \A k \in 1..n : a[k] = a[k - 1] + f[k]

\* Every list of naturals has its partial sums.
LEMMA ParcialExiste ==
    ASSUME NEW n \in Nat, NEW f, \A k \in 1..n : f[k] \in Nat
    PROVE  \E a : Parcial(f, n, a)
  <1> DEFINE T == {m \in 0..n : ~\E a : Parcial(f, m, a)}
  <1>1. ASSUME T # {} PROVE FALSE
    <2>1. T \subseteq Nat
      OBVIOUS
    <2>2. PICK m \in T : \A k \in T : m <= k
      <3> HIDE DEF T
      <3> QED
        BY <1>1, <2>1, MinimoExiste
    <2>3. m \in 0..n /\ ~\E a : Parcial(f, m, a)
      OBVIOUS
    <2>4. CASE m = 0
      <3> DEFINE a == [i \in 0..0 |-> 0]
      <3>1. Parcial(f, 0, a)
        BY DEF Parcial
      <3> QED
        BY <2>3, <2>4, <3>1
    <2>5. CASE m # 0
      <3>1. m - 1 \in 0..n /\ m - 1 \notin T
        <4> HIDE DEF T
        <4> QED
          BY <2>1, <2>2, <2>3, <2>5
      <3>2. PICK a : Parcial(f, m - 1, a)
        BY <3>1
      <3> DEFINE b == [i \in 0..m |-> IF i = m THEN a[m - 1] + f[m] ELSE a[i]]
      <3>3. b \in [0..m -> Nat] /\ b[0] = 0
        BY <2>3, <2>5, <3>2 DEF Parcial
      <3>4. ASSUME NEW k \in 1..m PROVE b[k] = b[k - 1] + f[k]
        BY <2>3, <2>5, <3>2 DEF Parcial
      <3> HIDE DEF b
      <3>5. Parcial(f, m, b)
        BY <3>3, <3>4 DEF Parcial
      <3> QED
        BY <2>3, <3>5
    <2> QED
      BY <2>4, <2>5
  <1>2. n \notin T
    BY <1>1
  <1> QED
    BY <1>2

\* The fold that Suma is made of, on sets of indices.
EsIter(it, g, n) ==
    it = [s \in SUBSET (1..n) |-> IF s = {} THEN 0 ELSE it[s \ {Max(s)}] + g[Max(s)]]

\* The Max that the fold chooses.
LEMMA MaximoDe ==
    ASSUME NEW m \in Nat, NEW s \in SUBSET (1..m), m \in s
    PROVE  Max(s) = m
  <1>1. \A y \in s : m >= y
    OBVIOUS
  <1>2. \A x \in s : (\A y \in s : x >= y) => x = m
    BY <1>1
  <1>3. Max(s) = CHOOSE x \in s : \A y \in s : x >= y
    BY DEF Max
  <1> QED
    BY <1>1, <1>2, <1>3

\* The fold exists: by strong induction on the greatest index.
LEMMA IterExiste ==
    ASSUME NEW n \in Nat, NEW g
    PROVE  \E it : EsIter(it, g, n)
  <1> DEFINE T == {m \in Nat : ~\E it : EsIter(it, g, m)}
  <1>1. ASSUME T # {} PROVE FALSE
    <2>1. T \subseteq Nat
      OBVIOUS
    <2>2. PICK m \in T : \A k \in T : m <= k
      <3> HIDE DEF T
      <3> QED
        BY <1>1, <2>1, MinimoExiste
    <2>3. m \in Nat /\ ~\E it : EsIter(it, g, m)
      OBVIOUS
    <2>4. CASE m = 0
      <3> DEFINE it == [s \in SUBSET (1..0) |-> 0]
      <3>1. SUBSET (1..0) = {{}}
        OBVIOUS
      <3>2. EsIter(it, g, 0)
        BY <3>1 DEF EsIter
      <3> QED
        BY <2>3, <2>4, <3>2
    <2>5. CASE m # 0
      <3>1. m - 1 \in Nat /\ m - 1 \notin T
        <4> HIDE DEF T
        <4> QED
          BY <2>2, <2>3, <2>5
      <3>2. PICK it : EsIter(it, g, m - 1)
        BY <3>1
      <3> DEFINE h == [s \in SUBSET (1..m) |->
                         IF m \in s THEN it[s \ {m}] + g[m] ELSE it[s]]
      <3>3. ASSUME NEW s \in SUBSET (1..m)
            PROVE  h[s] = IF s = {} THEN 0 ELSE h[s \ {Max(s)}] + g[Max(s)]
        <4>1. CASE m \in s
          <5>1. Max(s) = m
            BY <2>3, <4>1, MaximoDe
          <5>2. s \ {m} \in SUBSET (1..m) /\ m \notin s \ {m}
            OBVIOUS
          <5>3. h[s \ {m}] = it[s \ {m}]
            BY <5>2
          <5> QED
            BY <4>1, <5>1, <5>3
        <4>2. CASE m \notin s
          <5>1. s \in SUBSET (1..(m - 1))
            BY <2>3, <2>5, <4>2
          <5>2. it[s] = IF s = {} THEN 0 ELSE it[s \ {Max(s)}] + g[Max(s)]
            BY <3>2, <5>1 DEF EsIter
          <5>3. s \ {Max(s)} \in SUBSET (1..m) /\ m \notin s \ {Max(s)}
            BY <4>2
          <5>4. h[s \ {Max(s)}] = it[s \ {Max(s)}] /\ h[s] = it[s]
            BY <4>2, <5>3
          <5> QED
            BY <5>2, <5>4
        <4> QED
          BY <4>1, <4>2
      <3>4. h = [s \in SUBSET (1..m) |-> h[s]]
        OBVIOUS
      <3> HIDE DEF h
      <3>5. EsIter(h, g, m)
        BY <3>3, <3>4 DEF EsIter
      <3> QED
        BY <2>3, <3>5
    <2> QED
      BY <2>4, <2>5
  <1>2. n \notin T
    BY <1>1
  <1> QED
    BY <1>2

\* Suma is that fold, on all the indices.
LEMMA SumaForma ==
    ASSUME NEW n \in Nat, NEW f \in Seq(Nat), n <= Len(f)
    PROVE  \E it : EsIter(it, SubSeq(f, 1, n), n) /\ Suma(f, n) = it[1..n]
  <1> DEFINE g == SubSeq(f, 1, n)
  <1>1. DOMAIN g = 1..n
    OBVIOUS
  <1>2. PICK it : it = CHOOSE i : EsIter(i, g, n)
    OBVIOUS
  <1> HIDE DEF g
  <1>3. EsIter(it, g, n)
    BY <1>2, IterExiste
  <1>4. Suma(f, n) = it[1..n]
    BY <1>1, <1>2 DEF Suma, FoldLeft, MapThenFoldSet, EsIter, g
  <1> QED
    BY <1>3, <1>4 DEF g

\* What Suma computes.
LEMMA SumaEs ==
    ASSUME NEW f \in Seq(Nat), NEW n \in Nat, n <= Len(f), NEW a, Parcial(f, n, a)
    PROVE  Suma(f, n) = a[n]
  <1> DEFINE g == SubSeq(f, 1, n)
  <1>1. PICK it : EsIter(it, g, n) /\ Suma(f, n) = it[1..n]
    BY SumaForma
  <1>2. \A k \in 1..n : g[k] = f[k]
    OBVIOUS
  <1> HIDE DEF g
  <1> DEFINE T == {k \in 0..n : it[1..k] # a[k]}
  <1>3. ASSUME T # {} PROVE FALSE
    <2>1. T \subseteq Nat
      OBVIOUS
    <2>2. PICK m \in T : \A k \in T : m <= k
      <3> HIDE DEF T
      <3> QED
        BY <1>3, <2>1, MinimoExiste
    <2>3. m \in 0..n /\ it[1..m] # a[m] /\ 1..m \in SUBSET (1..n)
      OBVIOUS
    <2>4. it[1..m] = IF 1..m = {} THEN 0 ELSE it[(1..m) \ {Max(1..m)}] + g[Max(1..m)]
      BY <1>1, <2>3 DEF EsIter
    <2>5. CASE m = 0
      BY <2>3, <2>4, <2>5 DEF Parcial
    <2>6. CASE m # 0
      <3>1. m \in 1..m /\ Max(1..m) = m
        BY <2>3, <2>6, MaximoDe
      <3>2. (1..m) \ {m} = 1..(m - 1)
        BY <2>3, <2>6
      <3>3. m - 1 \in 0..n /\ m - 1 \notin T
        <4> HIDE DEF T
        <4> QED
          BY <2>2, <2>3, <2>6
      <3>4. it[1..(m - 1)] = a[m - 1]
        BY <3>3
      <3>5. a[m] = a[m - 1] + f[m] /\ g[m] = f[m]
        BY <1>2, <2>3, <3>1 DEF Parcial
      <3>6. it[1..m] = it[1..(m - 1)] + g[m]
        BY <2>4, <3>1, <3>2
      <3> QED
        BY <2>3, <3>4, <3>5, <3>6
    <2> QED
      BY <2>5, <2>6
  <1>4. n \notin T
    BY <1>3
  <1> QED
    BY <1>1, <1>4


-----------------------------------------------------------------------------
(* Pieces of a stream                                                      *)

\* q is in the stream s, from offset o on.
EnLugar(s, o, q) == o + Len(q) <= Len(s) /\ \A j \in 1..Len(q) : s[o + j] = q[j]

\* What is in a stream is there when more follows.
LEMMA LugarAntes ==
    ASSUME NEW C, NEW s \in Seq(C), NEW t \in Seq(C), NEW q \in Seq(C), NEW o \in Nat,
           EnLugar(s, o, q)
    PROVE  EnLugar(s \o t, o, q)
  <1>1. Len(s \o t) = Len(s) + Len(t) /\ \A i \in 1..Len(s) : (s \o t)[i] = s[i]
    OBVIOUS
  <1>2. \A j \in 1..Len(q) : o + j \in 1..Len(s)
    BY DEF EnLugar
  <1> QED
    BY <1>1, <1>2 DEF EnLugar

\* A stream is at its own beginning.
LEMMA LugarPrincipio ==
    ASSUME NEW C, NEW s \in Seq(C)
    PROVE  EnLugar(s, 0, s)
  BY DEF EnLugar

\* What is appended to a stream is where it ended.
LEMMA LugarFinal ==
    ASSUME NEW C, NEW s \in Seq(C), NEW t \in Seq(C)
    PROVE  EnLugar(s \o t, Len(s), t)
  <1>1. Len(s \o t) = Len(s) + Len(t)
    OBVIOUS
  <1>2. \A j \in 1..Len(t) : (s \o t)[Len(s) + j] = t[j]
    OBVIOUS
  <1> QED
    BY <1>1, <1>2 DEF EnLugar

\* A piece of a piece.
LEMMA LugarDentro ==
    ASSUME NEW C, NEW s \in Seq(C), NEW q \in Seq(C), NEW r \in Seq(C), NEW o \in Nat, NEW p \in Nat,
           EnLugar(s, o, q), EnLugar(q, p, r)
    PROVE  EnLugar(s, o + p, r)
  <1>1. o + p + Len(r) <= Len(s)
    BY DEF EnLugar
  <1>2. ASSUME NEW j \in 1..Len(r) PROVE s[o + p + j] = r[j]
    <2>1. p + j \in 1..Len(q) /\ q[p + j] = r[j]
      BY DEF EnLugar
    <2>2. s[o + (p + j)] = q[p + j]
      BY <2>1 DEF EnLugar
    <2>3. o + (p + j) = o + p + j
      OBVIOUS
    <2> QED
      BY <2>1, <2>2, <2>3
  <1> QED
    BY <1>1, <1>2 DEF EnLugar

\* Tramo reads a piece.
LEMMA LeerTramo ==
    ASSUME NEW C, NEW s \in Seq(C), NEW q \in Seq(C), NEW o \in Nat, EnLugar(s, o, q)
    PROVE  Tramo(s, o, Len(q)) = q
  <1> DEFINE t == SubSeq(s, o + 1, o + Len(q))
  <1>1. o + Len(q) <= Len(s) /\ Len(q) \in Nat
    BY DEF EnLugar
  <1>2. t \in Seq(C) /\ Len(t) = Len(q)
    BY <1>1
  <1>3. ASSUME NEW j \in 1..Len(q) PROVE t[j] = q[j]
    <2>1. t[j] = s[o + j]
      BY <1>1
    <2> QED
      BY <2>1 DEF EnLugar
  <1> HIDE DEF t
  <1>4. t = q
    BY <1>2, <1>3
  <1> QED
    BY <1>4 DEF t, Tramo

\* The first cells of a piece, as uint32 reads them.
LEMMA LeerCeldas ==
    ASSUME NEW C, NEW s \in Seq(C), NEW q \in Seq(C), NEW o \in Nat, EnLugar(s, o, q)
    PROVE  /\ Len(q) >= 1 => uint32(s, o) = q[1]
           /\ Len(q) >= 2 => uint32(s, o + 1) = q[2]
           /\ Len(q) >= 3 => uint32(s, o + 2) = q[3]
  <1>1. Len(q) >= 1 => s[o + 1] = q[1]
    BY DEF EnLugar
  <1>2. Len(q) >= 2 => s[o + 2] = q[2]
    BY DEF EnLugar
  <1>3. Len(q) >= 3 => s[o + 3] = q[3]
    BY DEF EnLugar
  <1>4. (o + 1) + 1 = o + 2 /\ (o + 2) + 1 = o + 3
    OBVIOUS
  <1> QED
    BY <1>1, <1>2, <1>3, <1>4 DEF uint32

-----------------------------------------------------------------------------
(* Sequences one after the other                                           *)

\* How long each piece is.
Largos(qs) == [k \in 1..Len(qs) |-> Len(qs[k])]

\* The stream F is the pieces qs in their order; piece k begins at a[k - 1].
Encadena(F, qs, a) ==
    /\ Parcial(Largos(qs), Len(qs), a)
    /\ Len(F) = a[Len(qs)]
    /\ \A k \in 1..Len(qs) : EnLugar(F, a[k - 1], qs[k])

\* The fold that FlattenSeq is made of: the first pieces, one after the other.
EsAplanada(fl, qs, n) ==
    fl = [i \in 1..n |-> IF i = 1 THEN qs[i] ELSE fl[i - 1] \o qs[i]]

\* That fold exists.
LEMMA AplanadaExiste ==
    ASSUME NEW n \in Nat, NEW qs
    PROVE  \E fl : EsAplanada(fl, qs, n)
  <1> DEFINE T == {m \in Nat : ~\E fl : EsAplanada(fl, qs, m)}
  <1>1. ASSUME T # {} PROVE FALSE
    <2>1. T \subseteq Nat
      OBVIOUS
    <2>2. PICK m \in T : \A k \in T : m <= k
      <3> HIDE DEF T
      <3> QED
        BY <1>1, <2>1, MinimoExiste
    <2>3. m \in Nat /\ ~\E fl : EsAplanada(fl, qs, m)
      OBVIOUS
    <2>4. CASE m = 0
      <3> DEFINE fl == [i \in 1..0 |-> 0]
      <3>1. EsAplanada(fl, qs, 0)
        BY DEF EsAplanada
      <3> QED
        BY <2>3, <2>4, <3>1
    <2>5. CASE m # 0
      <3>1. m - 1 \in Nat /\ m - 1 \notin T
        <4> HIDE DEF T
        <4> QED
          BY <2>2, <2>3, <2>5
      <3>2. PICK fl : EsAplanada(fl, qs, m - 1)
        BY <3>1
      <3> DEFINE h == [i \in 1..m |-> IF i = m THEN IF m = 1 THEN qs[1] ELSE fl[m - 1] \o qs[m]
                                               ELSE fl[i]]
      <3>3. ASSUME NEW i \in 1..m PROVE h[i] = IF i = 1 THEN qs[i] ELSE h[i - 1] \o qs[i]
        <4>1. CASE i = m
          <5>1. CASE m = 1
            BY <4>1, <5>1
          <5>2. CASE m # 1
            <6>1. i - 1 \in 1..m /\ i - 1 # m /\ i # 1
              BY <2>3, <4>1, <5>2
            <6>2. h[i - 1] = fl[i - 1]
              BY <6>1
            <6> QED
              BY <4>1, <5>2, <6>1, <6>2
          <5> QED
            BY <5>1, <5>2
        <4>2. CASE i # m
          <5>1. i \in 1..(m - 1)
            BY <2>3, <4>2
          <5>2. fl[i] = IF i = 1 THEN qs[i] ELSE fl[i - 1] \o qs[i]
            BY <3>2, <5>1 DEF EsAplanada
          <5>3. i # 1 => i - 1 \in 1..m /\ i - 1 # m
            BY <2>3, <4>2
          <5>4. i # 1 => h[i - 1] = fl[i - 1]
            BY <5>3
          <5> QED
            BY <4>2, <5>2, <5>4
        <4> QED
          BY <4>1, <4>2
      <3>4. h = [i \in 1..m |-> h[i]]
        OBVIOUS
      <3> HIDE DEF h
      <3>5. EsAplanada(h, qs, m)
        BY <3>3, <3>4 DEF EsAplanada
      <3> QED
        BY <2>3, <3>5
    <2> QED
      BY <2>4, <2>5
  <1>2. n \notin T
    BY <1>1
  <1> QED
    BY <1>2

\* FlattenSeq of the first pieces, and one more.
LEMMA AplanadaParcial ==
    ASSUME NEW C, NEW qs \in Seq(Seq(C)), NEW a, Parcial(Largos(qs), Len(qs), a),
           NEW fl, EsAplanada(fl, qs, Len(qs)), NEW n \in 1..Len(qs)
    PROVE  /\ fl[n] \in Seq(C)
           /\ Len(fl[n]) = a[n]
           /\ \A k \in 1..n : EnLugar(fl[n], a[k - 1], qs[k])
  <1> DEFINE P(m) == /\ fl[m] \in Seq(C)
                     /\ Len(fl[m]) = a[m]
                     /\ \A k \in 1..m : EnLugar(fl[m], a[k - 1], qs[k])
             T == {m \in 1..Len(qs) : ~P(m)}
  <1>1. ASSUME T # {} PROVE FALSE
    <2>1. T \subseteq Nat
      OBVIOUS
    <2>2. PICK m \in T : \A k \in T : m <= k
      <3> HIDE DEF T
      <3> QED
        BY <1>1, <2>1, MinimoExiste
    <2>3. m \in 1..Len(qs) /\ ~P(m)
      OBVIOUS
    <2>4. fl[m] = IF m = 1 THEN qs[m] ELSE fl[m - 1] \o qs[m]
      BY <2>3 DEF EsAplanada
    <2>5. qs[m] \in Seq(C) /\ a[m] = a[m - 1] + Len(qs[m]) /\ a[0] = 0
      BY <2>3 DEF Parcial, Largos
    <2>6. CASE m = 1
      <3>1. fl[m] \in Seq(C) /\ Len(fl[m]) = a[m]
        BY <2>4, <2>5, <2>6
      <3>2. EnLugar(fl[m], a[1 - 1], qs[1])
        BY <2>4, <2>5, <2>6, LugarPrincipio
      <3>3. P(m)
        BY <2>6, <3>1, <3>2
      <3> QED
        BY <2>3, <3>3
    <2>7. CASE m # 1
      <3>1. m - 1 \in 1..Len(qs) /\ m - 1 \notin T
        <4> HIDE DEF T
        <4> QED
          BY <2>1, <2>2, <2>3, <2>7
      <3>2. P(m - 1)
        BY <3>1
      <3> HIDE DEF T
      <3>3. fl[m] = fl[m - 1] \o qs[m]
        BY <2>4, <2>7
      <3>4. fl[m] \in Seq(C) /\ Len(fl[m]) = a[m]
        <4>1. fl[m - 1] \in Seq(C) /\ qs[m] \in Seq(C)
          BY <2>5, <3>2
        <4>2. /\ fl[m - 1] \o qs[m] \in Seq(C)
              /\ Len(fl[m - 1] \o qs[m]) = Len(fl[m - 1]) + Len(qs[m])
          BY ONLY <4>1
        <4>3. Len(fl[m - 1]) = a[m - 1]
          BY <3>2
        <4> QED
          BY <2>5, <3>3, <4>2, <4>3
      <3>5. ASSUME NEW k \in 1..m PROVE EnLugar(fl[m], a[k - 1], qs[k])
        <4>1. k \in 1..Len(qs) /\ k - 1 \in 0..Len(qs) /\ qs[k] \in Seq(C)
          BY <2>3
        <4>2. a[k - 1] \in Nat
          BY <4>1 DEF Parcial
        <4>3. CASE k = m
          BY <2>5, <3>2, <3>3, <4>3, LugarFinal
        <4>4. CASE k # m
          <5>1. k \in 1..(m - 1)
            BY <2>3, <4>4
          <5>2. EnLugar(fl[m - 1], a[k - 1], qs[k])
            BY <3>2, <5>1
          <5> QED
            BY <2>5, <3>2, <3>3, <4>1, <4>2, <5>2, LugarAntes
        <4> QED
          BY <4>3, <4>4
      <3> QED
        BY <2>3, <3>4, <3>5
    <2> QED
      BY <2>6, <2>7
  <1>2. n \notin T
    BY <1>1
  <1> QED
    BY <1>2

\* What FlattenSeq computes.
LEMMA AplanarEs ==
    ASSUME NEW C, NEW qs \in Seq(Seq(C)), NEW a, Parcial(Largos(qs), Len(qs), a)
    PROVE  FlattenSeq(qs) \in Seq(C) /\ Encadena(FlattenSeq(qs), qs, a)
  <1>1. CASE Len(qs) = 0
    <2>1. qs = <<>> /\ FlattenSeq(qs) = <<>>
      BY <1>1 DEF FlattenSeq
    <2> QED
      BY <1>1, <2>1 DEF Encadena, Parcial
  <1>2. CASE Len(qs) # 0
    <2>1. PICK fl : fl = CHOOSE f : EsAplanada(f, qs, Len(qs))
      OBVIOUS
    <2>2. EsAplanada(fl, qs, Len(qs))
      BY <2>1, AplanadaExiste
    <2>3. FlattenSeq(qs) = fl[Len(qs)]
      BY <1>2, <2>1 DEF FlattenSeq, EsAplanada
    <2>4. Len(qs) \in 1..Len(qs)
      BY <1>2
    <2> QED
      BY <2>2, <2>3, <2>4, AplanadaParcial DEF Encadena
  <1> QED
    BY <1>1, <1>2

\* The lengths of the pieces are naturals.
LEMMA LargosTipo ==
    ASSUME NEW C, NEW qs \in Seq(Seq(C))
    PROVE  Largos(qs) \in Seq(Nat) /\ Len(Largos(qs)) = Len(qs)
           /\ \A k \in 1..Len(qs) : Largos(qs)[k] = Len(qs[k]) /\ Largos(qs)[k] \in Nat
  BY DEF Largos

\* Every list of pieces has its offsets.
LEMMA AplanarConDesplazamientos ==
    ASSUME NEW C, NEW qs \in Seq(Seq(C))
    PROVE  /\ FlattenSeq(qs) \in Seq(C)
           /\ \E a : Encadena(FlattenSeq(qs), qs, a)
  <1>1. Len(qs) \in Nat /\ \A k \in 1..Len(qs) : Largos(qs)[k] \in Nat
    BY LargosTipo
  <1>2. PICK a : Parcial(Largos(qs), Len(qs), a)
    BY <1>1, ParcialExiste
  <1> QED
    BY <1>2, AplanarEs


\* The list g begins with the first n elements of f.
Empiezan(f, g, n) == \A k \in 1..n : g[k] = f[k]

\* Suma of the first elements of a list that begins like another.
LEMMA SumaHasta ==
    ASSUME NEW f \in Seq(Nat), NEW n \in Nat, n <= Len(f),
           NEW g, NEW m \in Nat, n <= m, NEW a, Parcial(g, m, a),
           Empiezan(f, g, n)
    PROVE  Suma(f, n) = a[n]
  <1> DEFINE b == [k \in 0..n |-> a[k]]
  <1>1. b \in [0..n -> Nat] /\ b[0] = 0 /\ b[n] = a[n]
    BY DEF Parcial
  <1>2. ASSUME NEW k \in 1..n PROVE b[k] = b[k - 1] + f[k]
    <2>1. k \in 1..m /\ k \in 0..n /\ k - 1 \in 0..n
      OBVIOUS
    <2> QED
      BY <2>1 DEF Parcial, Empiezan
  <1> HIDE DEF b
  <1>3. Parcial(f, n, b)
    BY <1>1, <1>2 DEF Parcial
  <1> QED
    BY <1>1, <1>3, SumaEs

\* The length of two pieces together.
LEMMA Pegar ==
    ASSUME NEW C, NEW s \in Seq(C), NEW t \in Seq(C)
    PROVE  s \o t \in Seq(C) /\ Len(s \o t) = Len(s) + Len(t)
  OBVIOUS

-----------------------------------------------------------------------------
(* Instructions                                                            *)

\* The operation codes of what clients ask and of what servers answer.
CodigosIda == {"INSTRUCCIONES", "INSTRUCCION", "PCONTEXTO", "PID_INSTRUCCION", "PID_STATUS",
               "COMPACTAR", "INFO_WRITE", "INFO_READ", "END"}
CodigosVuelta == {"PCONTEXTODESALOJO", "LTSEGMENTOS", "TSEGMENTOS", "SEGMENTO", "STATUS_CODE",
                  "PID_STATUS", "INFO"}
Codigos == CodigosIda \cup CodigosVuelta

\* A cell: a number, or the name that stands for a code.  The provers do not know that
\* the names in quotes are strings.
Nombres == STRING \cup Codigos \cup {"PROCESS_END", "PROCESS_ABORTED", "SUCCESS"}
Celda == Nat \cup Nombres

\* Lengths are written in cells.
LEMMA CeldaNumero == \A n \in Nat : n \in Celda
  BY DEF Celda

\* t_instruccion: at most four parameters.
Instruccion == [identificador : Celda, parametros : {p \in Seq(Seq(Celda)) : Len(p) <= 4}]

\* Where the parts of an instruction are in its buffer.
LEMMA InstruccionEscrita ==
    ASSUME NEW i \in Instruccion
    PROVE  LET b == t_instruccion_create_buffer(i)
               f == FlattenSeq(i.parametros)
           IN /\ b \in Seq(Celda) /\ f \in Seq(Celda) /\ p_length(i) \in Seq(Nat)
              /\ p_length(i) \in Seq(Celda)
              /\ Len(p_length(i)) = 4 /\ Len(b) = 6 + Len(f)
              /\ EnLugar(b, 0, <<i.identificador, Len(i.parametros)>>)
              /\ EnLugar(b, 2, p_length(i))
              /\ EnLugar(b, 6, f)
  <1> DEFINE h == <<i.identificador, Len(i.parametros)>>
             l == p_length(i)
             f == FlattenSeq(i.parametros)
  <1>1. i.parametros \in Seq(Seq(Celda)) /\ Len(i.parametros) \in Celda /\ i.identificador \in Celda
    BY CeldaNumero DEF Instruccion
  <1>2. f \in Seq(Celda)
    BY <1>1, AplanarConDesplazamientos
  <1>3. l \in Seq(Nat) /\ Len(l) = 4
    <2>1. \A n \in 1..4 : l[n] \in Nat
      BY <1>1 DEF p_length
    <2>2. DOMAIN l = 1..4 /\ l = [n \in 1..4 |-> l[n]]
      BY DEF p_length
    <2> HIDE DEF l
    <2> QED
      BY <2>1, <2>2
  <1>4. l \in Seq(Celda)
    BY <1>3, CeldaNumero
  <1>5. h \in Seq(Celda) /\ Len(h) = 2
    BY <1>1
  <1>6. t_instruccion_create_buffer(i) = (h \o l) \o f
    BY DEF t_instruccion_create_buffer
  <1> HIDE DEF h, l, f
  <1>7. h \o l \in Seq(Celda) /\ Len(h \o l) = 6
    <2>1. h \o l \in Seq(Celda) /\ Len(h \o l) = Len(h) + Len(l)
      BY <1>4, <1>5, Pegar
    <2> QED
      BY <1>3, <1>5, <2>1
  <1>8. (h \o l) \o f \in Seq(Celda) /\ Len((h \o l) \o f) = 6 + Len(f)
    BY <1>2, <1>7, Pegar
  <1>9. EnLugar(h \o l, 0, h) /\ EnLugar(h \o l, 2, l)
    BY <1>4, <1>5, LugarPrincipio, LugarAntes, LugarFinal
  <1>10. EnLugar((h \o l) \o f, 0, h) /\ EnLugar((h \o l) \o f, 2, l)
    BY <1>2, <1>4, <1>5, <1>7, <1>9, LugarAntes
  <1>11. EnLugar((h \o l) \o f, 6, f)
    BY <1>2, <1>7, LugarFinal
  <1> QED
    BY <1>2, <1>3, <1>4, <1>6, <1>8, <1>10, <1>11 DEF h, l, f

\* The reader takes from any place of a stream the instruction that is there.
LEMMA InstruccionLeida ==
    ASSUME NEW i \in Instruccion, NEW s \in Seq(Celda), NEW o \in Nat,
           EnLugar(s, o, t_instruccion_create_buffer(i))
    PROVE  t_instruccion_create_from_buffer(s, o) =
             [valor |-> i, offset |-> o + Len(t_instruccion_create_buffer(i))]
  <1> DEFINE b == t_instruccion_create_buffer(i)
             p == i.parametros
             f == FlattenSeq(p)
             h == <<i.identificador, Len(p)>>
             l == p_length(i)
  <1>1. p \in Seq(Seq(Celda)) /\ Len(p) <= 4 /\ Len(p) \in Nat /\ h \in Seq(Celda) /\ Len(h) = 2
    BY CeldaNumero DEF Instruccion
  <1>2. /\ b \in Seq(Celda) /\ f \in Seq(Celda) /\ l \in Seq(Nat) /\ l \in Seq(Celda)
        /\ Len(l) = 4 /\ Len(b) = 6 + Len(f)
        /\ EnLugar(b, 0, h) /\ EnLugar(b, 2, l) /\ EnLugar(b, 6, f)
    BY InstruccionEscrita
  <1>3. PICK a : Encadena(f, p, a)
    BY <1>1, AplanarConDesplazamientos
  <1>4. \A k \in 1..Len(p) : l[k] = Largos(p)[k]
    BY <1>1 DEF Largos, p_length
  <1>5. i = [identificador |-> i.identificador, parametros |-> p]
    BY DEF Instruccion
  <1>6. EnLugar(s, o, b)
    OBVIOUS
  <1> HIDE DEF b, p, f, h, l
  <1>7. EnLugar(s, o + 0, h) /\ EnLugar(s, o + 2, l) /\ EnLugar(s, o + 6, f)
    BY <1>1, <1>2, <1>6, LugarDentro
  <1>8. uint32(s, o) = i.identificador /\ uint32(s, o + 1) = Len(p)
    <2>1. EnLugar(s, o, h)
      BY <1>7
    <2>2. uint32(s, o) = h[1] /\ uint32(s, o + 1) = h[2]
      BY <1>1, <2>1, LeerCeldas
    <2> QED
      BY <2>2 DEF h
  <1>9. Tramo(s, o + 2, 4) = l
    <2>1. o + 2 \in Nat
      OBVIOUS
    <2> QED
      BY <1>2, <1>7, <2>1, LeerTramo
  <1>10. ASSUME NEW n \in 0..Len(p) PROVE Suma(l, n) = a[n] /\ a[n] \in Nat
    <2>1. n \in Nat /\ n <= Len(l) /\ n <= Len(p)
      BY <1>1, <1>2
    <2>2. Parcial(Largos(p), Len(p), a)
      BY <1>3 DEF Encadena
    <2>3. \A k \in 1..n : Largos(p)[k] = l[k]
      BY <1>1, <1>4
    <2>4. Suma(l, n) = a[n]
      <3>1. l \in Seq(Nat) /\ Len(p) \in Nat
        BY <1>1, <1>2
      <3>2. Empiezan(l, Largos(p), n)
        BY <2>3 DEF Empiezan
      <3> QED
        BY ONLY <2>1, <2>2, <3>1, <3>2, SumaHasta
    <2> QED
      BY <2>2, <2>4 DEF Parcial
  <1>11. ASSUME NEW n \in 1..Len(p) PROVE Tramo(s, o + 6 + Suma(l, n - 1), l[n]) = p[n]
    <2>1. n - 1 \in 0..Len(p) /\ p[n] \in Seq(Celda)
      BY <1>1
    <2>2. l[n] = Len(p[n])
      BY <1>4 DEF Largos
    <2>3. EnLugar(f, a[n - 1], p[n])
      BY <1>3 DEF Encadena
    <2>4. a[n - 1] \in Nat /\ o + 6 \in Nat /\ Suma(l, n - 1) = a[n - 1]
      BY <1>10, <2>1
    <2>5. EnLugar(s, (o + 6) + a[n - 1], p[n])
      BY <1>2, <1>7, <2>1, <2>3, <2>4, LugarDentro
    <2>6. (o + 6) + a[n - 1] \in Nat
      BY <2>4
    <2> QED
      BY <2>1, <2>2, <2>4, <2>5, <2>6, LeerTramo
  <1>12. [n \in 1..Len(p) |-> Tramo(s, o + 6 + Suma(l, n - 1), l[n])] = p
    <2>1. p = [n \in 1..Len(p) |-> p[n]]
      BY <1>1
    <2> QED
      BY <1>11, <2>1
  <1>13. Suma(l, (Len(p) + 1) - 1) = Len(f)
    <2>1. (Len(p) + 1) - 1 = Len(p) /\ Len(p) \in 0..Len(p)
      BY <1>1
    <2>2. Len(f) = a[Len(p)]
      BY <1>3 DEF Encadena
    <2> QED
      BY <1>10, <2>1, <2>2
  <1>14. o + 6 + Len(f) = o + Len(b)
    BY <1>2
  <1> QED
    BY <1>5, <1>8, <1>9, <1>12, <1>13, <1>14 DEF t_instruccion_create_from_buffer, b


-----------------------------------------------------------------------------
(* Lists of instructions                                                   *)

\* The buffers of the instructions of a list.
Escritas(serie) == [n \in 1..Len(serie) |-> t_instruccion_create_buffer(serie[n])]

\* Each of those buffers has at least the six cells of its header.
LEMMA EscritasTipo ==
    ASSUME NEW serie \in Seq(Instruccion)
    PROVE  /\ Escritas(serie) \in Seq(Seq(Celda)) /\ Len(Escritas(serie)) = Len(serie)
           /\ \A n \in 1..Len(serie) : /\ serie[n] \in Instruccion
                                       /\ Escritas(serie)[n] = t_instruccion_create_buffer(serie[n])
                                       /\ Len(Escritas(serie)[n]) >= 6
  <1>1. ASSUME NEW n \in 1..Len(serie)
        PROVE  /\ serie[n] \in Instruccion
               /\ Escritas(serie)[n] = t_instruccion_create_buffer(serie[n])
               /\ Escritas(serie)[n] \in Seq(Celda)
               /\ Len(Escritas(serie)[n]) >= 6
    <2>1. serie[n] \in Instruccion
      OBVIOUS
    <2>2. Escritas(serie)[n] = t_instruccion_create_buffer(serie[n])
      BY DEF Escritas
    <2>3. PICK b : b = t_instruccion_create_buffer(serie[n])
      OBVIOUS
    <2>4. PICK f : f = FlattenSeq(serie[n].parametros)
      OBVIOUS
    <2>5. b \in Seq(Celda) /\ f \in Seq(Celda) /\ Len(b) = 6 + Len(f)
      BY <2>1, <2>3, <2>4, InstruccionEscrita
    <2>6. Len(b) >= 6
      BY ONLY <2>5
    <2> QED
      BY <2>1, <2>2, <2>3, <2>5, <2>6
  <1>2. Len(serie) \in Nat /\ Escritas(serie) = [n \in 1..Len(serie) |-> Escritas(serie)[n]]
    BY DEF Escritas
  <1>3. Escritas(serie) \in Seq(Seq(Celda)) /\ Len(Escritas(serie)) = Len(serie)
    BY <1>1, <1>2
  <1> QED
    BY <1>1, <1>3

\* One turn of the loop of the reader, with the rest as d has it.
Turno(s, o, d) ==
    LET i == t_instruccion_create_from_buffer(s, o)
    IN IF o = Len(s) THEN <<>>
       ELSE <<i.valor>> \o (IF i.offset \in (o + 1)..Len(s) THEN d[i.offset] ELSE <<>>)

\* What the reader of lists gets from each offset from p on.
EsDesde(d, s, p) == d = [o \in p..Len(s) |-> Turno(s, o, d)]

\* The recursive reader exists: its offset only grows.
LEMMA DesdeExiste ==
    ASSUME NEW C, NEW s \in Seq(C)
    PROVE  \E d : EsDesde(d, s, 0)
  <1> DEFINE N == Len(s)
             T == {m \in 0..N : ~\E d : EsDesde(d, s, N - m)}
  <1>0. N \in Nat
    OBVIOUS
  <1>1. ASSUME T # {} PROVE FALSE
    <2>1. T \subseteq Nat
      OBVIOUS
    <2>2. PICK m \in T : \A k \in T : m <= k
      <3> HIDE DEF T
      <3> QED
        BY <1>1, <2>1, MinimoExiste
    <2>3. m \in 0..N /\ ~\E d : EsDesde(d, s, N - m)
      OBVIOUS
    <2>4. CASE m = 0
      <3> DEFINE d == [o \in N..N |-> <<>>]
      <3>1. \A o \in N..N : Turno(s, o, d) = <<>>
        <4> HIDE DEF d
        <4> QED
          BY <1>0 DEF Turno
      <3>2. EsDesde(d, s, N)
        BY <3>1 DEF EsDesde
      <3> QED
        BY <1>0, <2>3, <2>4, <3>2
    <2>5. CASE m # 0
      <3>1. m - 1 \in 0..N /\ m - 1 \notin T
        <4> HIDE DEF T
        <4> QED
          BY <1>0, <2>1, <2>2, <2>3, <2>5
      <3>2. PICK d : EsDesde(d, s, N - (m - 1))
        BY <3>1
      <3> DEFINE p == N - m
                 h == [o \in p..N |-> IF o = p THEN Turno(s, p, d) ELSE d[o]]
      <3>3. ASSUME NEW o \in p..N PROVE h[o] = Turno(s, o, h)
        <4>1. ASSUME NEW q, q \in (o + 1)..N PROVE h[q] = d[q]
          <5>1. q \in p..N /\ q # p
            BY <1>0, <2>3, <4>1
          <5> QED
            BY <5>1
        <4>2. Turno(s, o, h) = Turno(s, o, d)
          <5> HIDE DEF h
          <5> QED
            BY <4>1 DEF Turno
        <4>3. h[o] = IF o = p THEN Turno(s, p, d) ELSE d[o]
          OBVIOUS
        <4>4. CASE o = p
          BY <4>2, <4>3, <4>4
        <4>5. CASE o # p
          <5>1. o \in (N - (m - 1))..N
            BY <1>0, <2>3, <4>5
          <5>2. d[o] = Turno(s, o, d)
            BY <3>2, <5>1 DEF EsDesde
          <5> QED
            BY <4>2, <4>3, <4>5, <5>2
        <4> QED
          BY <4>4, <4>5
      <3>4. h = [o \in p..N |-> h[o]]
        OBVIOUS
      <3> HIDE DEF h
      <3>5. EsDesde(h, s, N - m)
        BY <3>3, <3>4 DEF EsDesde
      <3> QED
        BY <2>3, <3>5
    <2> QED
      BY <2>4, <2>5
  <1>2. N \notin T /\ N \in 0..N /\ N - N = 0
    BY <1>0, <1>1
  <1> QED
    BY <1>2

\* Where the reader stops to read each instruction.
LEMMA DesdeEs ==
    ASSUME NEW serie \in Seq(Instruccion), NEW F \in Seq(Celda), NEW a,
           Encadena(F, Escritas(serie), a),
           NEW d, EsDesde(d, F, 0), NEW j \in 1..Len(serie)
    PROVE  /\ a[j - 1] \in 0..Len(F) /\ a[j] \in 0..Len(F)
           /\ d[a[j - 1]] = <<serie[j]>> \o d[a[j]]
  <1> DEFINE b == Escritas(serie)[j]
  <1>1. /\ Len(Escritas(serie)) = Len(serie) /\ serie[j] \in Instruccion
        /\ b = t_instruccion_create_buffer(serie[j]) /\ Len(b) >= 6 /\ b \in Seq(Celda)
    BY EscritasTipo
  <1>2. Parcial(Largos(Escritas(serie)), Len(serie), a) /\ EnLugar(F, a[j - 1], b)
    BY <1>1 DEF Encadena
  <1>3. a[j - 1] \in Nat /\ a[j] = a[j - 1] + Len(b)
    <2>1. Largos(Escritas(serie))[j] = Len(b)
      BY <1>1 DEF Largos
    <2>2. j - 1 \in 0..Len(serie)
      OBVIOUS
    <2> QED
      BY <1>2, <2>1, <2>2 DEF Parcial
  <1>4. Len(F) \in Nat /\ Len(b) \in Nat /\ a[j - 1] + Len(b) <= Len(F)
    BY <1>1, <1>2 DEF EnLugar
  <1>5. t_instruccion_create_from_buffer(F, a[j - 1]) = [valor |-> serie[j], offset |-> a[j]]
    BY <1>1, <1>2, <1>3, InstruccionLeida
  <1> HIDE DEF b
  <1>6. /\ a[j - 1] \in 0..Len(F) /\ a[j] \in 0..Len(F) /\ a[j - 1] # Len(F)
        /\ a[j] \in (a[j - 1] + 1)..Len(F)
    BY <1>1, <1>3, <1>4
  <1>7. d[a[j - 1]] = Turno(F, a[j - 1], d)
    BY <1>6 DEF EsDesde
  <1>8. Turno(F, a[j - 1], d) = <<serie[j]>> \o d[a[j]]
    BY <1>5, <1>6 DEF Turno
  <1> QED
    BY <1>6, <1>7, <1>8

\* The reader takes exactly the list.
LEMMA ListaLeida ==
    ASSUME NEW serie \in Seq(Instruccion)
    PROVE  LET b == t_lista_instrucciones_create_buffer(serie)
           IN b \in Seq(Celda) /\ t_lista_instrucciones_create_from_buffer(b) = serie
  <1> DEFINE F == FlattenSeq(Escritas(serie))
             N == Len(serie)
  <1>1. t_lista_instrucciones_create_buffer(serie) = F
    BY DEF t_lista_instrucciones_create_buffer, Escritas
  <1>2. Escritas(serie) \in Seq(Seq(Celda)) /\ Len(Escritas(serie)) = N /\ N \in Nat
    BY EscritasTipo
  <1>3. F \in Seq(Celda)
    BY <1>2, AplanarConDesplazamientos
  <1>4. PICK a : Encadena(F, Escritas(serie), a)
    BY <1>2, AplanarConDesplazamientos
  <1> HIDE DEF F
  <1>5. PICK d : d = CHOOSE e : EsDesde(e, F, 0)
    OBVIOUS
  <1>6. EsDesde(d, F, 0)
    BY <1>3, <1>5, DesdeExiste
  <1>7. t_lista_instrucciones_create_from_buffer(F) = d[0]
    BY <1>5 DEF t_lista_instrucciones_create_from_buffer, EsDesde, Turno
  <1>8. a[N] = Len(F) /\ a[0] = 0
    BY <1>2, <1>4 DEF Encadena, Parcial
  <1>9. d[Len(F)] = <<>>
    <2>1. Len(F) \in 0..Len(F)
      BY <1>3
    <2> QED
      BY <1>6, <2>1 DEF EsDesde, Turno
  <1> DEFINE T == {k \in 0..N : d[a[N - k]] # SubSeq(serie, N - k + 1, N)}
  <1>10. ASSUME T # {} PROVE FALSE
    <2>1. T \subseteq Nat
      OBVIOUS
    <2>2. PICK m \in T : \A k \in T : m <= k
      <3> HIDE DEF T
      <3> QED
        BY <1>10, <2>1, MinimoExiste
    <2>3. m \in 0..N /\ d[a[N - m]] # SubSeq(serie, N - m + 1, N)
      OBVIOUS
    <2>4. CASE m = 0
      <3>1. N - m = N /\ SubSeq(serie, N + 1, N) = <<>>
        BY <1>2, <2>4
      <3> QED
        BY <1>8, <1>9, <2>3, <3>1
    <2>5. CASE m # 0
      <3>1. m - 1 \in 0..N /\ m - 1 \notin T
        <4> HIDE DEF T
        <4> QED
          BY <1>2, <2>1, <2>2, <2>3, <2>5
      <3>2. PICK j : j = N - m + 1
        OBVIOUS
      <3>3. j \in 1..N /\ N - m = j - 1 /\ N - (m - 1) = j
        BY <1>2, <2>3, <2>5, <3>2
      <3>4. d[a[j]] = SubSeq(serie, j + 1, N)
        BY <3>1, <3>3
      <3>5. d[a[j - 1]] = <<serie[j]>> \o d[a[j]]
        BY <1>3, <1>4, <1>6, <3>3, DesdeEs
      <3>6. <<serie[j]>> \o SubSeq(serie, j + 1, N) = SubSeq(serie, j, N)
        <4> HIDE DEF T
        <4>1. serie[j] \in Instruccion
          BY <3>3
        <4> QED
          BY ONLY <3>3, <4>1, serie \in Seq(Instruccion), N = Len(serie)
      <3> QED
        BY <2>3, <3>2, <3>3, <3>4, <3>5, <3>6
    <2> QED
      BY <2>4, <2>5
  <1>11. d[0] = SubSeq(serie, 1, N)
    <2>1. N \in 0..N /\ N - N = 0
      BY <1>2
    <2>2. N \notin T
      BY <1>10
    <2>3. d[a[N - N]] = SubSeq(serie, N - N + 1, N)
      BY <2>1, <2>2
    <2> QED
      BY <1>8, <2>1, <2>3
  <1>12. SubSeq(serie, 1, N) = serie
    OBVIOUS
  <1> QED
    BY <1>1, <1>3, <1>7, <1>11, <1>12


-----------------------------------------------------------------------------
(* Segments and tables                                                     *)

\* t_segment and t_segments_table.
Segmento == [id : Celda, size : Celda, base_address : Celda]
Tabla == [pid : Celda, segment_list : Seq(Segmento)]

\* A segment is three cells.
LEMMA SegmentoEscrito ==
    ASSUME NEW g \in Segmento
    PROVE  t_segment_create_buffer(g) \in Seq(Celda) /\ Len(t_segment_create_buffer(g)) = 3
  <1>1. g.id \in Celda /\ g.size \in Celda /\ g.base_address \in Celda
    BY DEF Segmento
  <1> QED
    BY <1>1 DEF t_segment_create_buffer

\* And is read from wherever it is.
LEMMA SegmentoLeido ==
    ASSUME NEW g \in Segmento, NEW s \in Seq(Celda), NEW o \in Nat,
           EnLugar(s, o, t_segment_create_buffer(g))
    PROVE  t_segment_create_from_buffer(s, o) = g
  <1> DEFINE b == t_segment_create_buffer(g)
  <1>1. b \in Seq(Celda) /\ Len(b) = 3 /\ EnLugar(s, o, b)
    BY SegmentoEscrito
  <1>2. b[1] = g.id /\ b[2] = g.size /\ b[3] = g.base_address
    BY DEF t_segment_create_buffer
  <1> HIDE DEF b
  <1>3. uint32(s, o) = b[1] /\ uint32(s, o + 1) = b[2] /\ uint32(s, o + 2) = b[3]
    BY <1>1, LeerCeldas
  <1>4. g = [id |-> g.id, size |-> g.size, base_address |-> g.base_address]
    BY DEF Segmento
  <1> QED
    BY <1>2, <1>3, <1>4 DEF t_segment_create_from_buffer

\* The buffers of the segments of a list, three cells each.
SegmentosEscritos(l) == [n \in 1..Len(l) |-> t_segment_create_buffer(l[n])]

\* So segment k begins at cell 3 * (k - 1) of them.
LEMMA SegmentosTipo ==
    ASSUME NEW l \in Seq(Segmento)
    PROVE  /\ SegmentosEscritos(l) \in Seq(Seq(Celda))
           /\ Len(SegmentosEscritos(l)) = Len(l)
           /\ Parcial(Largos(SegmentosEscritos(l)), Len(l), [k \in 0..Len(l) |-> 3 * k])
  <1> DEFINE ss == SegmentosEscritos(l)
             a == [k \in 0..Len(l) |-> 3 * k]
  <1>1. ASSUME NEW n \in 1..Len(l)
        PROVE  ss[n] = t_segment_create_buffer(l[n]) /\ ss[n] \in Seq(Celda) /\ Len(ss[n]) = 3
    <2>1. l[n] \in Segmento /\ ss[n] = t_segment_create_buffer(l[n])
      BY DEF SegmentosEscritos
    <2> QED
      BY <2>1, SegmentoEscrito
  <1>2. Len(l) \in Nat /\ ss = [n \in 1..Len(l) |-> ss[n]]
    BY DEF SegmentosEscritos
  <1> HIDE DEF ss
  <1>3. ss \in Seq(Seq(Celda)) /\ Len(ss) = Len(l)
    BY <1>1, <1>2
  <1>4. \A k \in 1..Len(l) : Largos(ss)[k] = 3
    BY <1>1, <1>3 DEF Largos
  <1>5. a \in [0..Len(l) -> Nat] /\ a[0] = 0
    BY <1>2
  <1>6. ASSUME NEW k \in 1..Len(l) PROVE a[k] = a[k - 1] + Largos(ss)[k]
    <2>1. k \in 0..Len(l) /\ k - 1 \in 0..Len(l) /\ 3 * k = 3 * (k - 1) + 3
      BY <1>2
    <2> QED
      BY <1>4, <2>1
  <1> HIDE DEF a
  <1>7. Parcial(Largos(ss), Len(l), a)
    BY <1>5, <1>6 DEF Parcial
  <1> QED
    BY <1>3, <1>7 DEF ss, a

\* A table of segments is read as it was written.
LEMMA TablaLeida ==
    ASSUME NEW t \in Tabla
    PROVE  LET b == t_segments_table_create_buffer(t)
           IN b \in Seq(Celda) /\ t_segments_table_create_from_buffer(b) = t
  <1> DEFINE l == t.segment_list
             ss == SegmentosEscritos(l)
             F == FlattenSeq(ss)
             h == <<t.pid, Len(l)>>
             s == h \o F
             a == [k \in 0..Len(l) |-> 3 * k]
  <1>1. l \in Seq(Segmento) /\ Len(l) \in Nat /\ t.pid \in Celda
    BY DEF Tabla
  <1>2. h \in Seq(Celda) /\ Len(h) = 2 /\ h[1] = t.pid /\ h[2] = Len(l)
    BY <1>1, CeldaNumero
  <1>3. t_segments_table_create_buffer(t) = s
    BY DEF t_segments_table_create_buffer, SegmentosEscritos
  <1>4. t = [pid |-> t.pid, segment_list |-> l]
    BY DEF Tabla
  <1> HIDE DEF l
  <1>5. ss \in Seq(Seq(Celda)) /\ Len(ss) = Len(l) /\ Parcial(Largos(ss), Len(l), a)
    BY <1>1, SegmentosTipo
  <1> HIDE DEF ss
  <1>6. F \in Seq(Celda) /\ Encadena(F, ss, a)
    BY <1>5, AplanarEs
  <1> HIDE DEF F, h
  <1>7. s \in Seq(Celda) /\ EnLugar(s, 0, h) /\ EnLugar(s, 2, F)
    BY <1>2, <1>6, Pegar, LugarPrincipio, LugarAntes, LugarFinal
  <1> HIDE DEF s
  <1>8. uint32(s, 0) = t.pid /\ uint32(s, 1) = Len(l)
    <2>1. uint32(s, 0) = h[1] /\ uint32(s, 1) = h[2]
      BY ONLY <1>2, <1>7 DEF EnLugar, uint32
    <2> QED
      BY <1>2, <2>1
  <1>9. ASSUME NEW n \in 1..Len(l) PROVE t_segment_create_from_buffer(s, 3 * n - 1) = l[n]
    <2>1. l[n] \in Segmento /\ ss[n] = t_segment_create_buffer(l[n])
      BY <1>1 DEF ss, SegmentosEscritos
    <2>2. ss[n] \in Seq(Celda) /\ EnLugar(F, a[n - 1], ss[n])
      BY <1>5, <1>6 DEF Encadena
    <2>3. n - 1 \in 0..Len(l)
      BY <1>1
    <2>4. a[n - 1] = 3 * (n - 1)
      BY <2>3
    <2> HIDE DEF a
    <2>5. a[n - 1] \in Nat /\ 2 + a[n - 1] = 3 * n - 1 /\ 3 * n - 1 \in Nat
      BY <1>1, <2>4
    <2>6. EnLugar(s, 2 + a[n - 1], ss[n])
      BY <1>6, <1>7, <2>2, <2>5, LugarDentro
    <2> QED
      BY <1>7, <2>1, <2>5, <2>6, SegmentoLeido
  <1>10. [n \in 1..Len(l) |-> t_segment_create_from_buffer(s, 3 * n - 1)] = l
    <2>1. l = [n \in 1..Len(l) |-> l[n]]
      BY <1>1
    <2> QED
      BY <1>9, <2>1
  <1>11. t_segments_table_create_from_buffer(s) = t
    BY <1>4, <1>8, <1>10 DEF t_segments_table_create_from_buffer
  <1> QED
    BY <1>3, <1>7, <1>11

\* The buffers of the tables of a list.
TablasEscritas(serie) == [n \in 1..Len(serie) |-> t_segments_table_create_buffer(serie[n])]

\* A list of tables is read as it was written.
LEMMA TablasLeidas ==
    ASSUME NEW serie \in Seq(Tabla)
    PROVE  LET b == t_lista_t_segments_create_buffer(serie)
           IN b \in Seq(Celda) /\ t_lista_t_segments_create_from_buffer(b) = serie
  <1> DEFINE N == Len(serie)
             ts == TablasEscritas(serie)
             z == Largos(ts)
             F == FlattenSeq(ts)
             h == <<N>>
             s == (h \o z) \o F
  <1>1. N \in Nat /\ N \in Celda
    BY CeldaNumero
  <1>2. ASSUME NEW n \in 1..N
        PROVE  /\ serie[n] \in Tabla /\ ts[n] = t_segments_table_create_buffer(serie[n])
               /\ ts[n] \in Seq(Celda) /\ t_segments_table_create_from_buffer(ts[n]) = serie[n]
    <2>1. serie[n] \in Tabla /\ ts[n] = t_segments_table_create_buffer(serie[n])
      BY DEF TablasEscritas
    <2> QED
      BY <2>1, TablaLeida
  <1>3. ts = [n \in 1..N |-> ts[n]]
    BY DEF TablasEscritas
  <1>4. t_lista_t_segments_create_buffer(serie) = s
    <2>1. Len(ts) = N
      BY <1>1 DEF TablasEscritas
    <2> QED
      BY <2>1 DEF t_lista_t_segments_create_buffer, TablasEscritas, Largos
  <1> HIDE DEF ts
  <1>5. ts \in Seq(Seq(Celda)) /\ Len(ts) = N
    BY <1>1, <1>2, <1>3
  <1>6. z \in Seq(Nat) /\ Len(z) = N /\ \A k \in 1..N : z[k] = Len(ts[k])
    BY <1>5, LargosTipo
  <1>7. PICK a : F \in Seq(Celda) /\ Encadena(F, ts, a)
    BY <1>5, AplanarConDesplazamientos
  <1>8. Parcial(z, N, a)
    BY <1>5, <1>7 DEF Encadena
  <1> HIDE DEF z, F, h
  <1>9. z \in Seq(Celda)
    BY <1>6, CeldaNumero
  <1>10. /\ h \in Seq(Celda) /\ Len(h) = 1
         /\ h \o z \in Seq(Celda) /\ Len(h \o z) = 1 + N
    <2>1. h \in Seq(Celda) /\ Len(h) = 1
      BY <1>1 DEF h
    <2>2. h \o z \in Seq(Celda) /\ Len(h \o z) = Len(h) + Len(z)
      BY <1>9, <2>1, Pegar
    <2> QED
      BY <1>6, <2>1, <2>2
  <1>11. EnLugar(h \o z, 0, h) /\ EnLugar(h \o z, 1, z)
    <2>1. EnLugar(h, 0, h)
      BY <1>10, LugarPrincipio
    <2>2. EnLugar(h \o z, 0, h)
      BY <1>9, <1>10, <2>1, LugarAntes
    <2>3. EnLugar(h \o z, Len(h), z)
      BY <1>9, <1>10, LugarFinal
    <2> QED
      BY <1>10, <2>2, <2>3
  <1>12. s \in Seq(Celda) /\ EnLugar(s, 0, h) /\ EnLugar(s, 1, z) /\ EnLugar(s, 1 + N, F)
    <2>1. s \in Seq(Celda)
      BY <1>7, <1>10, Pegar
    <2>2. EnLugar(s, 0, h) /\ EnLugar(s, 1, z)
      BY <1>7, <1>9, <1>10, <1>11, LugarAntes
    <2>3. EnLugar(s, Len(h \o z), F)
      BY <1>7, <1>10, LugarFinal
    <2> QED
      BY <1>10, <2>1, <2>2, <2>3
  <1> HIDE DEF s
  <1>13. uint32(s, 0) = N
    <2>1. uint32(s, 0) = h[1]
      BY ONLY <1>10, <1>12 DEF EnLugar, uint32
    <2> QED
      BY <2>1 DEF h
  <1>14. Tramo(s, 1, N) = z
    BY <1>6, <1>9, <1>12, LeerTramo
  <1>15. ASSUME NEW n \in 1..N
         PROVE  t_segments_table_create_from_buffer(Tramo(s, 1 + N + Suma(z, n - 1), z[n])) = serie[n]
    <2>1. n - 1 \in Nat /\ n - 1 <= N /\ n - 1 \in 0..N /\ Empiezan(z, z, n - 1)
      BY <1>1 DEF Empiezan
    <2>2. Suma(z, n - 1) = a[n - 1]
      BY <1>1, <1>6, <1>8, <2>1, SumaHasta
    <2>3. a[n - 1] \in Nat
      BY <1>8, <2>1 DEF Parcial
    <2>4. EnLugar(F, a[n - 1], ts[n]) /\ ts[n] \in Seq(Celda)
      BY <1>2, <1>5, <1>7 DEF Encadena
    <2>5. 1 + N \in Nat /\ 1 + N + a[n - 1] \in Nat
      BY <1>1, <2>3
    <2>6. EnLugar(s, 1 + N + a[n - 1], ts[n])
      BY <1>7, <1>12, <2>3, <2>4, <2>5, LugarDentro
    <2>7. Tramo(s, 1 + N + a[n - 1], Len(ts[n])) = ts[n]
      BY <1>12, <2>4, <2>5, <2>6, LeerTramo
    <2> QED
      BY <1>2, <1>6, <2>2, <2>7
  <1>16. [n \in 1..N |-> t_segments_table_create_from_buffer(
                            Tramo(s, 1 + N + Suma(z, n - 1), z[n]))] = serie
    <2>1. serie = [n \in 1..N |-> serie[n]]
      OBVIOUS
    <2> QED
      BY <1>15, <2>1
  <1>17. t_lista_t_segments_create_from_buffer(s) = serie
    BY <1>13, <1>14, <1>16 DEF t_lista_t_segments_create_from_buffer
  <1> QED
    BY <1>4, <1>12, <1>17


-----------------------------------------------------------------------------
(* Contexts                                                                *)

\* t_registers: a string of each of its widths.
Registros_t == {r \in Seq(Seq(Celda)) : /\ Len(r) = Len(Anchos)
                                        /\ \A k \in 1..Len(Anchos) : Len(r[k]) = Anchos[k]}

\* t_pcontexto.
PContexto == [pid : Celda, program_counter : Celda, registers : Registros_t,
              instructions : Seq(Instruccion), segments : Seq(Segmento)]

\* t_pcontexto_desalojo.
Desalojo == [pid : Celda, program_counter : Celda, status_code : Celda, registers : Registros_t,
             motivo_desalojo : Instruccion, instructions : Seq(Instruccion)]

\* The registers take their widths, one after the other.
LEMMA RegistrosEscritos ==
    ASSUME NEW r \in Registros_t
    PROVE  /\ FlattenSeq(r) \in Seq(Celda) /\ Registros \in Nat
           /\ Len(FlattenSeq(r)) = Registros
           /\ \E a : Encadena(FlattenSeq(r), r, a) /\ Parcial(Anchos, Len(Anchos), a)
  <1>1. r \in Seq(Seq(Celda)) /\ Len(r) = Len(Anchos)
        /\ \A k \in 1..Len(Anchos) : Len(r[k]) = Anchos[k]
    BY DEF Registros_t
  <1>2. Anchos \in Seq(Nat) /\ Len(Anchos) \in Nat
    BY AnchosAssumption
  <1>3. PICK a : FlattenSeq(r) \in Seq(Celda) /\ Encadena(FlattenSeq(r), r, a)
    BY <1>1, AplanarConDesplazamientos
  <1>4. \A k \in 1..Len(Anchos) : Largos(r)[k] = Anchos[k]
    BY <1>1 DEF Largos
  <1>5. Parcial(Anchos, Len(Anchos), a)
    BY <1>1, <1>3, <1>4 DEF Encadena, Parcial
  <1>6. Registros = a[Len(Anchos)]
    BY <1>2, <1>5, SumaEs DEF Registros
  <1>7. a[Len(Anchos)] \in Nat /\ Len(FlattenSeq(r)) = a[Len(Anchos)]
    BY <1>1, <1>2, <1>3, <1>5 DEF Encadena, Parcial
  <1> QED
    BY <1>3, <1>5, <1>6, <1>7

\* And are read by their widths from wherever they are.
LEMMA RegistrosLeidos ==
    ASSUME NEW r \in Registros_t, NEW s \in Seq(Celda), NEW o \in Nat,
           EnLugar(s, o, FlattenSeq(r))
    PROVE  registros_de(s, o) = r
  <1> DEFINE F == FlattenSeq(r)
  <1>1. r \in Seq(Seq(Celda)) /\ Len(r) = Len(Anchos)
        /\ \A k \in 1..Len(Anchos) : Len(r[k]) = Anchos[k]
    BY DEF Registros_t
  <1>2. PICK a : F \in Seq(Celda) /\ Encadena(F, r, a) /\ Parcial(Anchos, Len(Anchos), a)
    BY RegistrosEscritos
  <1>3. EnLugar(s, o, F)
    OBVIOUS
  <1> HIDE DEF F
  <1>4. ASSUME NEW k \in 1..Len(Anchos)
        PROVE  Tramo(s, o + Suma(Anchos, k - 1), Anchos[k]) = r[k]
    <2>1. /\ Anchos \in Seq(Nat) /\ Len(Anchos) \in Nat /\ k - 1 \in Nat /\ k - 1 <= Len(Anchos)
          /\ k - 1 \in 0..Len(Anchos) /\ Empiezan(Anchos, Anchos, k - 1)
      BY AnchosAssumption DEF Empiezan
    <2>2. Suma(Anchos, k - 1) = a[k - 1] /\ a[k - 1] \in Nat
      <3>1. a[k - 1] \in Nat
        BY <1>2, <2>1 DEF Parcial
      <3> QED
        BY <1>2, <2>1, <3>1, SumaHasta
    <2>3. r[k] \in Seq(Celda) /\ EnLugar(F, a[k - 1], r[k])
      BY <1>1, <1>2 DEF Encadena
    <2>4. EnLugar(s, o + a[k - 1], r[k]) /\ o + a[k - 1] \in Nat
      BY <1>2, <1>3, <2>2, <2>3, LugarDentro
    <2>5. Tramo(s, o + a[k - 1], Len(r[k])) = r[k]
      BY <2>3, <2>4, LeerTramo
    <2> QED
      BY <1>1, <2>2, <2>5
  <1>5. r = [k \in 1..Len(Anchos) |-> r[k]]
    BY <1>1
  <1> QED
    BY <1>4, <1>5 DEF registros_de

\* Five pieces one after the other.
LEMMA CincoPiezas ==
    ASSUME NEW C, NEW a \in Seq(C), NEW b \in Seq(C), NEW c \in Seq(C), NEW d \in Seq(C),
           NEW e \in Seq(C)
    PROVE  LET s == a \o b \o c \o d \o e IN
           /\ s \in Seq(C) /\ Len(s) = Len(a) + Len(b) + Len(c) + Len(d) + Len(e)
           /\ EnLugar(s, 0, a)
           /\ EnLugar(s, Len(a), b)
           /\ EnLugar(s, Len(a) + Len(b), c)
           /\ EnLugar(s, Len(a) + Len(b) + Len(c), d)
           /\ EnLugar(s, Len(a) + Len(b) + Len(c) + Len(d), e)
  <1> DEFINE s == a \o b \o c \o d \o e
  <1>1. PICK ab : ab = a \o b
    OBVIOUS
  <1>2. PICK abc : abc = ab \o c
    OBVIOUS
  <1>3. PICK abcd : abcd = abc \o d
    OBVIOUS
  <1>4. s = abcd \o e
    BY <1>1, <1>2, <1>3
  <1> HIDE DEF s
  <1>5. ab \in Seq(C) /\ Len(ab) = Len(a) + Len(b)
    BY <1>1, Pegar
  <1>6. abc \in Seq(C) /\ Len(abc) = Len(ab) + Len(c)
    BY <1>2, <1>5, Pegar
  <1>7. abcd \in Seq(C) /\ Len(abcd) = Len(abc) + Len(d)
    BY <1>3, <1>6, Pegar
  <1>8. s \in Seq(C) /\ Len(s) = Len(abcd) + Len(e)
    BY <1>4, <1>7, Pegar
  <1>9. Len(a) \in Nat /\ Len(b) \in Nat /\ Len(c) \in Nat /\ Len(d) \in Nat /\ Len(ab) \in Nat
        /\ Len(abc) \in Nat
    BY <1>5, <1>6
  <1>10. EnLugar(ab, 0, a) /\ EnLugar(ab, Len(a), b)
    BY <1>1, LugarPrincipio, LugarAntes, LugarFinal
  <1>11. EnLugar(abc, 0, a) /\ EnLugar(abc, Len(a), b) /\ EnLugar(abc, Len(ab), c)
    BY <1>2, <1>5, <1>9, <1>10, LugarAntes, LugarFinal
  <1>12. EnLugar(abcd, 0, a) /\ EnLugar(abcd, Len(a), b) /\ EnLugar(abcd, Len(ab), c)
         /\ EnLugar(abcd, Len(abc), d)
    BY <1>3, <1>6, <1>9, <1>11, LugarAntes, LugarFinal
  <1>13. EnLugar(s, 0, a) /\ EnLugar(s, Len(a), b) /\ EnLugar(s, Len(ab), c)
         /\ EnLugar(s, Len(abc), d) /\ EnLugar(s, Len(abcd), e)
    BY <1>4, <1>7, <1>9, <1>12, LugarAntes, LugarFinal
  <1> QED
    BY <1>5, <1>6, <1>7, <1>8, <1>13 DEF s

\* The context of a process is read as it was written.
LEMMA PContextoLeido ==
    ASSUME NEW c \in PContexto
    PROVE  LET b == t_pcontexto_create_buffer(c)
           IN b \in Seq(Celda) /\ t_pcontexto_create_from_buffer(b) = c
  <1> DEFINE t == [pid |-> c.pid, segment_list |-> c.segments]
             R == Registros
             h == <<c.pid, c.program_counter>>
             F == FlattenSeq(c.registers)
             bi == t_lista_instrucciones_create_buffer(c.instructions)
             bt == t_segments_table_create_buffer(t)
             z == <<Len(bi), Len(bt)>>
             s == h \o F \o z \o bi \o bt
  <1>1. /\ c.pid \in Celda /\ c.program_counter \in Celda /\ c.registers \in Registros_t
        /\ c.instructions \in Seq(Instruccion) /\ c.segments \in Seq(Segmento)
        /\ c = [pid |-> c.pid, program_counter |-> c.program_counter, registers |-> c.registers,
                instructions |-> c.instructions, segments |-> c.segments]
    BY DEF PContexto
  <1>2. t \in Tabla /\ t.segment_list = c.segments
    BY <1>1 DEF Tabla
  <1>3. bi \in Seq(Celda) /\ t_lista_instrucciones_create_from_buffer(bi) = c.instructions
    BY <1>1, ListaLeida
  <1>4. bt \in Seq(Celda) /\ t_segments_table_create_from_buffer(bt).segment_list = c.segments
    <2> HIDE DEF t
    <2> QED
      BY <1>2, TablaLeida
  <1>5. F \in Seq(Celda) /\ Len(F) = R /\ R \in Nat
    BY <1>1, RegistrosEscritos
  <1>6. h \in Seq(Celda) /\ Len(h) = 2 /\ h[1] = c.pid /\ h[2] = c.program_counter
    BY <1>1
  <1>7. t_pcontexto_create_buffer(c) = s
    BY DEF t_pcontexto_create_buffer
  <1> HIDE DEF t, h, bi, bt, R
  <1>8. z \in Seq(Celda) /\ Len(z) = 2 /\ z[1] = Len(bi) /\ z[2] = Len(bt)
    BY <1>3, <1>4, CeldaNumero
  <1>9. EnLugar(s, 2, FlattenSeq(c.registers)) /\ s \in Seq(Celda) /\ EnLugar(s, 0, h)
        /\ EnLugar(s, 2 + R, z) /\ EnLugar(s, 4 + R, bi) /\ EnLugar(s, 4 + R + Len(bi), bt)
    <2> HIDE DEF F, z
    <2>1. /\ s \in Seq(Celda) /\ EnLugar(s, 0, h) /\ EnLugar(s, Len(h), F)
          /\ EnLugar(s, Len(h) + Len(F), z) /\ EnLugar(s, Len(h) + Len(F) + Len(z), bi)
          /\ EnLugar(s, Len(h) + Len(F) + Len(z) + Len(bi), bt)
      <3>1. h \in Seq(Celda) /\ F \in Seq(Celda) /\ z \in Seq(Celda) /\ bi \in Seq(Celda)
            /\ bt \in Seq(Celda)
        BY <1>3, <1>4, <1>5, <1>6, <1>8
      <3> QED
        BY ONLY <3>1, CincoPiezas
    <2> HIDE DEF s
    <2>2. Len(h) + Len(F) = 2 + R /\ Len(h) + Len(F) + Len(z) = 4 + R
      BY <1>5, <1>6, <1>8
    <2>3. EnLugar(s, 2 + R, z) /\ EnLugar(s, 4 + R, bi) /\ EnLugar(s, 4 + R + Len(bi), bt)
      BY <2>1, <2>2
    <2>4. EnLugar(s, 2, F)
      BY <1>6, <2>1
    <2> QED
      BY <2>1, <2>3, <2>4 DEF F
  <1> HIDE DEF F, z, s
  <1>10. uint32(s, 0) = c.pid /\ uint32(s, 1) = c.program_counter
    <2>1. uint32(s, 0) = h[1] /\ uint32(s, 1) = h[2]
      BY ONLY <1>6, <1>9 DEF EnLugar, uint32
    <2> QED
      BY <1>6, <2>1
  <1>11. uint32(s, 2 + R) = Len(bi) /\ uint32(s, 2 + R + 1) = Len(bt)
    <2>1. 2 + R \in Nat
      BY <1>5
    <2> QED
      BY <1>8, <1>9, <2>1, LeerCeldas
  <1>12. registros_de(s, 2) = c.registers
    BY <1>1, <1>9, RegistrosLeidos
  <1>13. Tramo(s, 2 + R + 2, Len(bi)) = bi
    <2>1. 2 + R + 2 = 4 + R /\ 4 + R \in Nat
      BY <1>5
    <2> QED
      BY <1>3, <1>9, <2>1, LeerTramo
  <1>14. Tramo(s, 2 + R + 2 + Len(bi), Len(bt)) = bt
    <2>1. Len(bi) \in Nat
      BY <1>3
    <2>2. 2 + R + 2 + Len(bi) = 4 + R + Len(bi) /\ 4 + R + Len(bi) \in Nat
      BY <1>5, <2>1
    <2> QED
      BY <1>4, <1>9, <2>2, LeerTramo
  <1>15. t_pcontexto_create_from_buffer(s) = c
    BY <1>1, <1>3, <1>4, <1>10, <1>11, <1>12, <1>13, <1>14
       DEF t_pcontexto_create_from_buffer, R
  <1> QED
    BY <1>7, <1>9, <1>15

\* The context of a preempted process is read as it was written.
LEMMA DesalojoLeido ==
    ASSUME NEW c \in Desalojo
    PROVE  LET b == t_pcontexto_desalojo_create_buffer(c)
           IN b \in Seq(Celda) /\ t_pcontexto_desalojo_create_from_buffer(b) = c
  <1> DEFINE R == Registros
             h == <<c.pid, c.program_counter, c.status_code>>
             F == FlattenSeq(c.registers)
             bm == t_instruccion_create_buffer(c.motivo_desalojo)
             bi == t_lista_instrucciones_create_buffer(c.instructions)
             zm == <<Len(bm)>>
             zi == <<Len(bi)>>
             r == h \o F \o zm \o bm \o zi
             s == r \o bi
  <1>1. /\ c.pid \in Celda /\ c.program_counter \in Celda /\ c.status_code \in Celda
        /\ c.registers \in Registros_t /\ c.motivo_desalojo \in Instruccion
        /\ c.instructions \in Seq(Instruccion)
        /\ c = [pid |-> c.pid, program_counter |-> c.program_counter, status_code |-> c.status_code,
                registers |-> c.registers, motivo_desalojo |-> c.motivo_desalojo,
                instructions |-> c.instructions]
    BY DEF Desalojo
  <1>2. bi \in Seq(Celda) /\ t_lista_instrucciones_create_from_buffer(bi) = c.instructions
    BY <1>1, ListaLeida
  <1>3. bm \in Seq(Celda)
    BY <1>1, InstruccionEscrita
  <1>4. t_instruccion_create_from_buffer(bm, 0).valor = c.motivo_desalojo
    <2>1. EnLugar(bm, 0, bm)
      BY <1>3, LugarPrincipio
    <2>2. t_instruccion_create_from_buffer(bm, 0) = [valor |-> c.motivo_desalojo, offset |-> 0 + Len(bm)]
      BY <1>1, <1>3, <2>1, InstruccionLeida
    <2> HIDE DEF bm
    <2> QED
      BY <2>2
  <1>5. F \in Seq(Celda) /\ Len(F) = R /\ R \in Nat
    BY <1>1, RegistrosEscritos
  <1>6. h \in Seq(Celda) /\ Len(h) = 3 /\ h[1] = c.pid /\ h[2] = c.program_counter
        /\ h[3] = c.status_code
    BY <1>1
  <1>7. t_pcontexto_desalojo_create_buffer(c) = s
    BY DEF t_pcontexto_desalojo_create_buffer
  <1> HIDE DEF h, bi, bm, R
  <1>8. /\ zm \in Seq(Celda) /\ Len(zm) = 1 /\ zm[1] = Len(bm)
        /\ zi \in Seq(Celda) /\ Len(zi) = 1 /\ zi[1] = Len(bi)
        /\ Len(bm) \in Nat /\ Len(bi) \in Nat
    BY <1>2, <1>3, CeldaNumero
  <1> HIDE DEF F, zm, zi
  <1>9. /\ r \in Seq(Celda) /\ EnLugar(r, 0, h) /\ EnLugar(r, Len(h), F)
        /\ EnLugar(r, Len(h) + Len(F), zm) /\ EnLugar(r, Len(h) + Len(F) + Len(zm), bm)
        /\ EnLugar(r, Len(h) + Len(F) + Len(zm) + Len(bm), zi)
        /\ Len(r) = Len(h) + Len(F) + Len(zm) + Len(bm) + Len(zi)
    <2>1. h \in Seq(Celda) /\ F \in Seq(Celda) /\ zm \in Seq(Celda) /\ bm \in Seq(Celda)
          /\ zi \in Seq(Celda)
      BY <1>3, <1>5, <1>6, <1>8
    <2> QED
      BY ONLY <2>1, CincoPiezas
  <1> HIDE DEF r
  <1>10. /\ r \in Seq(Celda) /\ Len(r) = 5 + R + Len(bm)
         /\ EnLugar(r, 0, h) /\ EnLugar(r, 3, F) /\ EnLugar(r, 3 + R, zm) /\ EnLugar(r, 4 + R, bm)
         /\ EnLugar(r, 4 + R + Len(bm), zi)
    <2>1. /\ Len(h) + Len(F) = 3 + R /\ Len(h) + Len(F) + Len(zm) = 4 + R
          /\ Len(h) + Len(F) + Len(zm) + Len(bm) = 4 + R + Len(bm)
          /\ Len(h) + Len(F) + Len(zm) + Len(bm) + Len(zi) = 5 + R + Len(bm)
      BY <1>5, <1>6, <1>8
    <2> QED
      BY <1>6, <1>9, <2>1
  <1>11. /\ 3 + R \in Nat /\ 4 + R \in Nat /\ 4 + R + Len(bm) \in Nat /\ 5 + R + Len(bm) \in Nat
         /\ 3 + R + 1 = 4 + R /\ 3 + R + 1 + Len(bm) = 4 + R + Len(bm)
         /\ 3 + R + 2 + Len(bm) = 5 + R + Len(bm)
    BY <1>5, <1>8
  <1>12. s \in Seq(Celda) /\ EnLugar(s, 0, h) /\ EnLugar(s, 3, F) /\ EnLugar(s, 3 + R, zm)
         /\ EnLugar(s, 4 + R, bm) /\ EnLugar(s, 4 + R + Len(bm), zi)
    BY <1>2, <1>3, <1>5, <1>6, <1>8, <1>10, <1>11, Pegar, LugarAntes
  <1>13. EnLugar(s, 5 + R + Len(bm), bi)
    BY <1>2, <1>10, LugarFinal
  <1> HIDE DEF s
  <1>14. uint32(s, 0) = c.pid /\ uint32(s, 1) = c.program_counter /\ uint32(s, 2) = c.status_code
    <2>1. uint32(s, 0) = h[1] /\ uint32(s, 1) = h[2] /\ uint32(s, 2) = h[3]
      BY ONLY <1>6, <1>12 DEF EnLugar, uint32
    <2> QED
      BY <1>6, <2>1
  <1>15. uint32(s, 3 + R) = Len(bm) /\ uint32(s, 3 + R + 1 + Len(bm)) = Len(bi)
    <2>1. PICK o \in Nat : o = 3 + R
      BY <1>11
    <2>2. PICK p \in Nat : p = 4 + R + Len(bm)
      BY <1>11
    <2>3. uint32(s, o) = zm[1]
      <3>1. EnLugar(s, o, zm) /\ Len(zm) = 1
        BY <1>8, <1>12, <2>1
      <3> QED
        BY ONLY <2>1, <3>1 DEF EnLugar, uint32
    <2>4. uint32(s, p) = zi[1]
      <3>1. EnLugar(s, p, zi) /\ Len(zi) = 1
        BY <1>8, <1>12, <2>2
      <3> QED
        BY ONLY <2>2, <3>1 DEF EnLugar, uint32
    <2> QED
      BY <1>8, <1>11, <2>1, <2>2, <2>3, <2>4
  <1>16. registros_de(s, 3) = c.registers
    BY <1>1, <1>12, RegistrosLeidos DEF F
  <1>17. Tramo(s, 3 + R + 1, Len(bm)) = bm /\ Tramo(s, 3 + R + 2 + Len(bm), Len(bi)) = bi
    BY <1>2, <1>3, <1>11, <1>12, <1>13, LeerTramo
  <1>18. t_pcontexto_desalojo_create_from_buffer(s) = c
    BY <1>1, <1>2, <1>4, <1>14, <1>15, <1>16, <1>17
       DEF t_pcontexto_desalojo_create_from_buffer, R
  <1> QED
    BY <1>7, <1>12, <1>18


-----------------------------------------------------------------------------
(* Requests and answers                                                    *)

\* A header of two cells and what follows it.
LEMMA DosPiezas ==
    ASSUME NEW x \in Celda, NEW y \in Celda, NEW t \in Seq(Celda)
    PROVE  LET s == <<x, y>> \o t IN
           /\ s \in Seq(Celda) /\ Len(s) = Len(t) + 2
           /\ uint32(s, 0) = x /\ uint32(s, 1) = y /\ s[1] = x
           /\ Tramo(s, 2, Len(t)) = t
  <1> DEFINE h == <<x, y>>
             s == h \o t
  <1>1. h \in Seq(Celda) /\ Len(h) = 2 /\ h[1] = x /\ h[2] = y
    OBVIOUS
  <1> HIDE DEF h
  <1>2. s \in Seq(Celda) /\ Len(s) = 2 + Len(t) /\ EnLugar(s, 2, t)
    BY <1>1, Pegar, LugarFinal
  <1>3. EnLugar(s, 0, h)
    BY <1>1, LugarPrincipio, LugarAntes
  <1> HIDE DEF s
  <1>4. uint32(s, 0) = h[1] /\ uint32(s, 1) = h[2] /\ s[1] = h[1]
    BY ONLY <1>1, <1>2, <1>3 DEF EnLugar, uint32
  <1>5. Tramo(s, 2, Len(t)) = t
    BY <1>2, LeerTramo
  <1> QED
    BY <1>1, <1>2, <1>4, <1>5 DEF s, h

\* t_pid_instruccion, t_pid_status, t_info_write and t_info_read.
PidInstruccion == [pid : Celda, instruccion : Instruccion]
PidStatus == [pid : Celda, status : Celda]
InfoWrite == [base_address : Celda, info : Seq(Celda)]
InfoRead == [base_address : Celda, size : Celda]

\* An instruction with its pid is read as it was written.
LEMMA PidInstruccionLeida ==
    ASSUME NEW p \in PidInstruccion
    PROVE  LET b == t_pid_instruccion_create_buffer(p)
           IN b \in Seq(Celda) /\ t_pid_instruccion_create_from_buffer(b) = p
  <1> DEFINE bi == t_instruccion_create_buffer(p.instruccion)
  <1>1. /\ p.pid \in Celda /\ p.instruccion \in Instruccion
        /\ p = [pid |-> p.pid, instruccion |-> p.instruccion]
    BY DEF PidInstruccion
  <1>2. bi \in Seq(Celda) /\ Len(bi) \in Celda
    <2>1. bi \in Seq(Celda)
      BY <1>1, InstruccionEscrita
    <2> QED
      BY <2>1, CeldaNumero
  <1>3. t_instruccion_create_from_buffer(bi, 0).valor = p.instruccion
    <2>1. EnLugar(bi, 0, bi)
      BY <1>2, LugarPrincipio
    <2>2. t_instruccion_create_from_buffer(bi, 0) = [valor |-> p.instruccion, offset |-> 0 + Len(bi)]
      BY <1>1, <1>2, <2>1, InstruccionLeida
    <2> HIDE DEF bi
    <2> QED
      BY <2>2
  <1>4. t_pid_instruccion_create_buffer(p) = <<p.pid, Len(bi)>> \o bi
    BY DEF t_pid_instruccion_create_buffer
  <1> HIDE DEF bi
  <1>5. PICK s : s = <<p.pid, Len(bi)>> \o bi
    OBVIOUS
  <1>6. s \in Seq(Celda) /\ uint32(s, 0) = p.pid /\ uint32(s, 1) = Len(bi)
        /\ Tramo(s, 2, Len(bi)) = bi
    BY <1>1, <1>2, <1>5, DosPiezas
  <1>7. t_pid_instruccion_create_from_buffer(s) = p
    BY <1>1, <1>3, <1>6 DEF t_pid_instruccion_create_from_buffer
  <1> QED
    BY <1>4, <1>5, <1>6, <1>7

\* Data are read as they were written.
LEMMA InfoLeida ==
    ASSUME NEW d \in Seq(Celda)
    PROVE  LET b == t_info_create_buffer(d)
           IN b \in Seq(Celda) /\ t_info_create_from_buffer(b) = d
  <1> DEFINE h == <<Len(d)>>
             s == h \o d
  <1>1. h \in Seq(Celda) /\ Len(h) = 1 /\ h[1] = Len(d)
    BY CeldaNumero
  <1>2. t_info_create_buffer(d) = s
    BY DEF t_info_create_buffer
  <1> HIDE DEF h
  <1>3. s \in Seq(Celda) /\ EnLugar(s, 1, d) /\ EnLugar(s, 0, h)
    BY <1>1, Pegar, LugarFinal, LugarPrincipio, LugarAntes
  <1> HIDE DEF s
  <1>4. uint32(s, 0) = Len(d)
    BY ONLY <1>1, <1>3 DEF EnLugar, uint32
  <1>5. Tramo(s, 1, Len(d)) = d
    BY <1>3, LeerTramo
  <1> QED
    BY <1>2, <1>3, <1>4, <1>5 DEF t_info_create_from_buffer

\* Data to write are read as they were written.
LEMMA InfoWriteLeida ==
    ASSUME NEW w \in InfoWrite
    PROVE  LET b == t_info_write_create_buffer(w)
           IN b \in Seq(Celda) /\ t_info_write_create_from_buffer(b) = w
  <1> DEFINE bi == t_info_create_buffer(w.info)
  <1>1. /\ w.base_address \in Celda /\ w.info \in Seq(Celda)
        /\ w = [base_address |-> w.base_address, info |-> w.info]
    BY DEF InfoWrite
  <1>2. bi \in Seq(Celda) /\ t_info_create_from_buffer(bi) = w.info
    BY <1>1, InfoLeida
  <1>3. t_info_write_create_buffer(w) = <<w.base_address, Len(bi)>> \o bi
    BY DEF t_info_write_create_buffer
  <1> HIDE DEF bi
  <1>4. Len(bi) \in Celda
    BY <1>2, CeldaNumero
  <1>5. PICK s : s = <<w.base_address, Len(bi)>> \o bi
    OBVIOUS
  <1>6. s \in Seq(Celda) /\ uint32(s, 0) = w.base_address /\ uint32(s, 1) = Len(bi)
        /\ Tramo(s, 2, Len(bi)) = bi
    BY <1>1, <1>2, <1>4, <1>5, DosPiezas
  <1>7. t_info_write_create_from_buffer(s) = w
    BY <1>1, <1>2, <1>6 DEF t_info_write_create_from_buffer
  <1> QED
    BY <1>3, <1>5, <1>6, <1>7

-----------------------------------------------------------------------------
(* Packages                                                                *)

\* What each operation code carries.
TipoDe(op) ==
    CASE op = "INSTRUCCIONES"     -> Seq(Instruccion)
      [] op = "INSTRUCCION"       -> Instruccion
      [] op = "PCONTEXTO"         -> PContexto
      [] op = "PCONTEXTODESALOJO" -> Desalojo
      [] op = "LTSEGMENTOS"       -> Seq(Tabla)
      [] op = "TSEGMENTOS"        -> Tabla
      [] op = "SEGMENTO"          -> Segmento
      [] op = "STATUS_CODE"       -> Celda
      [] op = "PID_INSTRUCCION"   -> PidInstruccion
      [] op = "PID_STATUS"        -> PidStatus
      [] op = "INFO_WRITE"        -> InfoWrite
      [] op = "INFO_READ"         -> InfoRead
      [] op = "INFO"              -> Seq(Celda)
      [] op \in {"END", "COMPACTAR"} -> {0}

\* A message, whose value is of the type of its code.
EsMensaje(m) == m = [op |-> m.op, valor |-> m.valor] /\ m.op \in Codigos /\ m.valor \in TipoDe(m.op)

\* Each reader takes exactly what its writer put.
LEMMA IdaYVuelta ==
    ASSUME NEW m, EsMensaje(m)
    PROVE  /\ create_buffer(m) \in Seq(Celda)
           /\ create_from_buffer(m.op, create_buffer(m)) = m.valor
  <1>0. m.op \in Codigos /\ m.valor \in TipoDe(m.op)
    BY DEF EsMensaje
  <1>1. CASE m.op = "INSTRUCCIONES"
    BY <1>0, <1>1, ListaLeida DEF TipoDe, create_buffer, create_from_buffer
  <1>2. CASE m.op = "INSTRUCCION"
    <2>1. PICK b : b = t_instruccion_create_buffer(m.valor)
      OBVIOUS
    <2>2. m.valor \in Instruccion
      BY <1>0, <1>2 DEF TipoDe
    <2>3. b \in Seq(Celda)
      BY <2>1, <2>2, InstruccionEscrita
    <2>4. EnLugar(b, 0, b)
      BY <2>3, LugarPrincipio
    <2>5. t_instruccion_create_from_buffer(b, 0) = [valor |-> m.valor, offset |-> 0 + Len(b)]
      BY <2>1, <2>2, <2>3, <2>4, InstruccionLeida
    <2>6. t_instruccion_create_from_buffer(b, 0).valor = m.valor
      BY <2>5
    <2> QED
      BY <1>2, <2>1, <2>3, <2>6 DEF create_buffer, create_from_buffer
  <1>3. CASE m.op = "PCONTEXTO"
    BY <1>0, <1>3, PContextoLeido DEF TipoDe, create_buffer, create_from_buffer
  <1>4. CASE m.op = "PCONTEXTODESALOJO"
    BY <1>0, <1>4, DesalojoLeido DEF TipoDe, create_buffer, create_from_buffer
  <1>5. CASE m.op = "LTSEGMENTOS"
    BY <1>0, <1>5, TablasLeidas DEF TipoDe, create_buffer, create_from_buffer
  <1>6. CASE m.op = "TSEGMENTOS"
    BY <1>0, <1>6, TablaLeida DEF TipoDe, create_buffer, create_from_buffer
  <1>7. CASE m.op = "SEGMENTO"
    <2>1. PICK b : b = t_segment_create_buffer(m.valor)
      OBVIOUS
    <2>2. m.valor \in Segmento
      BY <1>0, <1>7 DEF TipoDe
    <2>3. b \in Seq(Celda)
      BY <2>1, <2>2, SegmentoEscrito
    <2>4. EnLugar(b, 0, b)
      BY <2>3, LugarPrincipio
    <2>5. t_segment_create_from_buffer(b, 0) = m.valor
      BY <2>1, <2>2, <2>3, <2>4, SegmentoLeido
    <2> QED
      BY <1>7, <2>1, <2>3, <2>5 DEF create_buffer, create_from_buffer
  <1>8. CASE m.op = "STATUS_CODE"
    <2>1. m.valor \in Celda
      BY <1>0, <1>8 DEF TipoDe
    <2>2. create_buffer(m) = <<m.valor>>
      BY <1>8 DEF create_buffer, t_status_code_create_buffer
    <2>3. create_from_buffer(m.op, <<m.valor>>) = <<m.valor>>[0 + 1]
      BY <1>8 DEF create_from_buffer, t_status_code_create_from_buffer, uint32
    <2> QED
      BY <2>1, <2>2, <2>3
  <1>9. CASE m.op = "PID_INSTRUCCION"
    BY <1>0, <1>9, PidInstruccionLeida DEF TipoDe, create_buffer, create_from_buffer
  <1>10. CASE m.op = "PID_STATUS"
    <2>1. m.valor.pid \in Celda /\ m.valor.status \in Celda
          /\ m.valor = [pid |-> m.valor.pid, status |-> m.valor.status]
      BY <1>0, <1>10 DEF TipoDe, PidStatus
    <2>2. PICK b : b = <<m.valor.pid, m.valor.status>>
      OBVIOUS
    <2>3. create_buffer(m) = b
      BY <1>10, <2>2 DEF create_buffer, t_pid_status_create_buffer
    <2>4. b \in Seq(Celda) /\ uint32(b, 0) = m.valor.pid /\ uint32(b, 1) = m.valor.status
      BY <2>1, <2>2 DEF uint32
    <2>5. create_from_buffer(m.op, b) = [pid |-> uint32(b, 0), status |-> uint32(b, 1)]
      BY <1>10 DEF create_from_buffer, t_pid_status_create_from_buffer
    <2> QED
      BY <2>1, <2>3, <2>4, <2>5
  <1>11. CASE m.op = "INFO_WRITE"
    BY <1>0, <1>11, InfoWriteLeida DEF TipoDe, create_buffer, create_from_buffer
  <1>12. CASE m.op = "INFO_READ"
    <2>1. m.valor.base_address \in Celda /\ m.valor.size \in Celda
          /\ m.valor = [base_address |-> m.valor.base_address, size |-> m.valor.size]
      BY <1>0, <1>12 DEF TipoDe, InfoRead
    <2>2. PICK b : b = <<m.valor.base_address, m.valor.size>>
      OBVIOUS
    <2>3. create_buffer(m) = b
      BY <1>12, <2>2 DEF create_buffer, t_info_read_create_buffer
    <2>4. b \in Seq(Celda) /\ uint32(b, 0) = m.valor.base_address /\ uint32(b, 1) = m.valor.size
      BY <2>1, <2>2 DEF uint32
    <2>5. create_from_buffer(m.op, b) = [base_address |-> uint32(b, 0), size |-> uint32(b, 1)]
      BY <1>12 DEF create_from_buffer, t_info_read_create_from_buffer
    <2> QED
      BY <2>1, <2>3, <2>4, <2>5
  <1>13. CASE m.op = "INFO"
    BY <1>0, <1>13, InfoLeida DEF TipoDe, create_buffer, create_from_buffer
  <1>14. CASE m.op \in {"END", "COMPACTAR"}
    <2>1. m.valor = 0
      BY <1>0, <1>14 DEF TipoDe
    <2>2. create_buffer(m) = <<0>>
      BY <1>14 DEF create_buffer, null_buffer
    <2>3. create_from_buffer(m.op, create_buffer(m)) = 0
      BY <1>14 DEF create_from_buffer
    <2> QED
      BY <2>1, <2>2, <2>3, CeldaNumero
  <1> QED
    BY <1>0, <1>1, <1>2, <1>3, <1>4, <1>5, <1>6, <1>7, <1>8, <1>9, <1>10, <1>11, <1>12, <1>13,
       <1>14 DEF Codigos, CodigosIda, CodigosVuelta

\* package_recv takes the package the stream begins with, and leaves what follows it.
LEMMA PaqueteLeido ==
    ASSUME NEW m, EsMensaje(m)
    PROVE  /\ package_send(m) \in Seq(Celda) /\ Len(package_send(m)) >= 2
           /\ \A F \in Seq(Celda) : EnLugar(F, 0, package_send(m)) =>
                 /\ package_recv(F).mensaje = m
                 /\ package_recv(F).resto = SubSeq(F, Len(package_send(m)) + 1, Len(F))
  <1> DEFINE b == create_buffer(m)
             p == <<m.op, Len(b)>> \o b
  <1>1. b \in Seq(Celda) /\ create_from_buffer(m.op, b) = m.valor
    BY IdaYVuelta
  <1>2. package_send(m) = p
    BY DEF package_send
  <1>3. m.op \in Celda /\ Len(b) \in Celda /\ m = [op |-> m.op, valor |-> m.valor]
    <2>1. Codigos \subseteq Celda
      BY DEF Celda, Nombres
    <2>2. m.op \in Codigos /\ m = [op |-> m.op, valor |-> m.valor]
      BY DEF EsMensaje
    <2>3. m.op \in Celda
      BY <2>1, <2>2
    <2>4. Len(b) \in Nat
      BY <1>1
    <2> QED
      BY <2>2, <2>3, <2>4, CeldaNumero
  <1> HIDE DEF b
  <1>4. /\ p \in Seq(Celda) /\ Len(p) = Len(b) + 2
        /\ uint32(p, 0) = m.op /\ uint32(p, 1) = Len(b) /\ EnLugar(p, 2, b)
    <2>1. PICK h : h = <<m.op, Len(b)>>
      OBVIOUS
    <2>2. h \in Seq(Celda) /\ Len(h) = 2
      BY <1>3, <2>1
    <2>3. EnLugar(h \o b, Len(h), b)
      BY <1>1, <2>2, LugarFinal
    <2> QED
      BY <1>1, <1>3, <2>1, <2>2, <2>3, DosPiezas
  <1> HIDE DEF p
  <1>5. Len(b) \in Nat /\ Len(p) >= 2
    BY <1>1, <1>4
  <1>6. ASSUME NEW F \in Seq(Celda), EnLugar(F, 0, p)
        PROVE  /\ package_recv(F).mensaje = m
               /\ package_recv(F).resto = SubSeq(F, Len(p) + 1, Len(F))
    <2>1. F[1] = m.op /\ uint32(F, 1) = Len(b)
      <3>1. p[1] = m.op /\ p[2] = Len(b)
        BY <1>4 DEF uint32
      <3> QED
        BY ONLY <1>4, <1>5, <1>6, <3>1 DEF EnLugar, uint32
    <2>2. EnLugar(F, 0 + 2, b)
      BY <1>1, <1>4, <1>6, LugarDentro
    <2>3. Tramo(F, 2, Len(b)) = b
      BY <1>1, <1>6, <2>2, LeerTramo
    <2>4. Len(b) + 3 = Len(p) + 1
      BY <1>4, <1>5
    <2>5. package_recv(F) = [mensaje |-> m, resto |-> SubSeq(F, Len(p) + 1, Len(F))]
      BY <1>1, <1>3, <2>1, <2>3, <2>4 DEF package_recv
    <2> QED
      BY <2>5
  <1> QED
    BY <1>2, <1>4, <1>5, <1>6


-----------------------------------------------------------------------------
(* Streams of packages                                                     *)

\* The messages of some operation codes.
MensajeDe(ops) == UNION {[op : {o}, valor : TipoDe(o)] : o \in ops}

\* What it is to be one of them.
LEMMA MensajeEs ==
    ASSUME NEW ops, NEW m
    PROVE  m \in MensajeDe(ops) <=>
             m = [op |-> m.op, valor |-> m.valor] /\ m.op \in ops /\ m.valor \in TipoDe(m.op)
  <1>1. ASSUME m \in MensajeDe(ops)
        PROVE  m = [op |-> m.op, valor |-> m.valor] /\ m.op \in ops /\ m.valor \in TipoDe(m.op)
    <2>1. PICK o \in ops : m \in [op : {o}, valor : TipoDe(o)]
      BY <1>1 DEF MensajeDe
    <2> QED
      BY <2>1
  <1>2. ASSUME m = [op |-> m.op, valor |-> m.valor], m.op \in ops, m.valor \in TipoDe(m.op)
        PROVE  m \in MensajeDe(ops)
    <2>1. m \in [op : {m.op}, valor : TipoDe(m.op)]
      BY <1>2
    <2> QED
      BY <1>2, <2>1 DEF MensajeDe
  <1> QED
    BY <1>1, <1>2

\* The packages of some messages.
Enviados(ms) == [n \in 1..Len(ms) |-> package_send(ms[n])]

\* The stream F is the packages of the messages ms.
Corriente(F, ms) == \E a : Encadena(F, Enviados(ms), a)

\* Every package has at least its operation code and its size.
LEMMA EnviadosTipo ==
    ASSUME NEW ms \in Seq(MensajeDe(Codigos))
    PROVE  /\ Enviados(ms) \in Seq(Seq(Celda)) /\ Len(Enviados(ms)) = Len(ms)
           /\ \A n \in 1..Len(ms) : /\ EsMensaje(ms[n]) /\ Enviados(ms)[n] = package_send(ms[n])
                                    /\ Enviados(ms)[n] \in Seq(Celda) /\ Len(Enviados(ms)[n]) >= 2
  <1>1. ASSUME NEW n \in 1..Len(ms)
        PROVE  /\ EsMensaje(ms[n]) /\ Enviados(ms)[n] = package_send(ms[n])
               /\ Enviados(ms)[n] \in Seq(Celda) /\ Len(Enviados(ms)[n]) >= 2
    <2>1. ms[n] \in MensajeDe(Codigos)
      OBVIOUS
    <2>2. EsMensaje(ms[n])
      BY <2>1, MensajeEs DEF EsMensaje
    <2>3. Enviados(ms)[n] = package_send(ms[n])
      BY DEF Enviados
    <2> QED
      BY <2>2, <2>3, PaqueteLeido
  <1>2. Len(ms) \in Nat /\ Enviados(ms) = [n \in 1..Len(ms) |-> Enviados(ms)[n]]
    BY DEF Enviados
  <1> QED
    BY <1>1, <1>2

\* A socket nobody has written to.
LEMMA CorrienteVacia == Corriente(<<>>, <<>>)
  <1> DEFINE a == [k \in 0..0 |-> 0]
  <1>1. Len(Enviados(<<>>)) = 0
    BY DEF Enviados
  <1>2. Encadena(<<>>, Enviados(<<>>), a)
    BY <1>1 DEF Encadena, Parcial
  <1> QED
    BY <1>2 DEF Corriente

\* A package goes to the end of the stream.
LEMMA CorrienteAgrega ==
    ASSUME NEW ms \in Seq(MensajeDe(Codigos)), NEW F \in Seq(Celda), Corriente(F, ms),
           NEW m \in MensajeDe(Codigos)
    PROVE  /\ F \o package_send(m) \in Seq(Celda)
           /\ Corriente(F \o package_send(m), Append(ms, m))
  <1> DEFINE p == package_send(m)
             qs == Enviados(ms)
             rs == Enviados(Append(ms, m))
             N == Len(ms)
  <1>1. PICK a : Encadena(F, qs, a)
    BY DEF Corriente
  <1>2. qs \in Seq(Seq(Celda)) /\ Len(qs) = N /\ N \in Nat
    BY EnviadosTipo
  <1>3. p \in Seq(Celda) /\ Len(p) \in Nat
    <2>1. EsMensaje(m)
      BY MensajeEs DEF EsMensaje
    <2>2. p \in Seq(Celda)
      BY <2>1, PaqueteLeido
    <2> HIDE DEF p
    <2> QED
      BY <2>2
  <1>4. /\ Append(ms, m) \in Seq(MensajeDe(Codigos)) /\ Len(Append(ms, m)) = N + 1
        /\ Append(ms, m)[N + 1] = m /\ \A k \in 1..N : Append(ms, m)[k] = ms[k]
    OBVIOUS
  <1>5. Len(rs) = N + 1 /\ rs[N + 1] = p /\ \A k \in 1..N : rs[k] = qs[k]
    BY <1>2, <1>4 DEF Enviados
  <1> HIDE DEF p, qs, rs
  <1>6. a \in [0..N -> Nat] /\ a[0] = 0 /\ a[N] = Len(F)
        /\ \A k \in 1..N : a[k] = a[k - 1] + Len(qs[k])
    BY <1>1, <1>2 DEF Encadena, Parcial, Largos
  <1> DEFINE b == [k \in 0..(N + 1) |-> IF k = N + 1 THEN Len(F) + Len(p) ELSE a[k]]
  <1>7. b \in [0..(N + 1) -> Nat] /\ b[0] = 0 /\ b[N] = Len(F) /\ b[N + 1] = Len(F) + Len(p)
    <2>1. Len(F) \in Nat
      OBVIOUS
    <2> QED
      BY <1>2, <1>3, <1>6, <2>1
  <1>8. \A k \in 0..N : b[k] = a[k]
    BY <1>2
  <1> HIDE DEF b
  <1>9. ASSUME NEW k \in 1..(N + 1) PROVE b[k] = b[k - 1] + Len(rs[k])
    <2>1. CASE k = N + 1
      <3>1. k - 1 = N
        BY <1>2, <2>1
      <3>2. rs[k] = p
        BY <1>5, <2>1
      <3> QED
        BY <1>7, <2>1, <3>1, <3>2
    <2>2. CASE k # N + 1
      <3>1. k \in 1..N /\ k \in 0..N /\ k - 1 \in 0..N
        BY <1>2, <2>2
      <3> QED
        BY <1>5, <1>6, <1>8, <3>1
    <2> QED
      BY <2>1, <2>2
  <1>10. Parcial(Largos(rs), Len(rs), b)
    BY <1>2, <1>5, <1>7, <1>9 DEF Parcial, Largos
  <1>11. F \o p \in Seq(Celda) /\ Len(F \o p) = Len(F) + Len(p)
    BY <1>3, Pegar
  <1>12. ASSUME NEW k \in 1..(N + 1) PROVE EnLugar(F \o p, b[k - 1], rs[k])
    <2>1. CASE k = N + 1
      <3>1. EnLugar(F \o p, Len(F), p)
        BY <1>3, LugarFinal
      <3>2. b[k - 1] = Len(F)
        BY <1>2, <1>7, <2>1
      <3> QED
        BY <1>5, <2>1, <3>1, <3>2
    <2>2. CASE k # N + 1
      <3>1. k \in 1..N /\ k - 1 \in 0..N /\ qs[k] \in Seq(Celda) /\ rs[k] = qs[k]
        <4>1. k \in 1..N /\ k - 1 \in 0..N
          BY <1>2, <2>2
        <4> QED
          BY <1>2, <1>5, <4>1
      <3>2. EnLugar(F, a[k - 1], qs[k]) /\ a[k - 1] \in Nat
        BY <1>1, <1>2, <1>6, <3>1 DEF Encadena
      <3>3. EnLugar(F \o p, a[k - 1], qs[k])
        BY <1>3, <3>1, <3>2, LugarAntes
      <3> QED
        BY <1>8, <3>1, <3>3
    <2> QED
      BY <2>1, <2>2
  <1>13. Encadena(F \o p, rs, b)
    BY <1>5, <1>7, <1>10, <1>11, <1>12 DEF Encadena
  <1> QED
    BY <1>11, <1>13 DEF Corriente, p, rs

\* The reader takes the first message, and what is left is the packages of the others.
LEMMA CorrienteSaca ==
    ASSUME NEW ms \in Seq(MensajeDe(Codigos)), NEW F \in Seq(Celda), Corriente(F, ms), ms # <<>>
    PROVE  /\ package_recv(F).mensaje = Head(ms)
           /\ package_recv(F).resto \in Seq(Celda)
           /\ Corriente(package_recv(F).resto, Tail(ms))
  <1> DEFINE m == ms[1]
             p == package_send(m)
             qs == Enviados(ms)
             rs == Enviados(Tail(ms))
             N == Len(ms)
             L == Len(p)
             G == SubSeq(F, L + 1, Len(F))
  <1>1. PICK a : Encadena(F, qs, a)
    BY DEF Corriente
  <1>2. N \in Nat /\ N >= 1 /\ 1 \in 1..N /\ Head(ms) = m
    OBVIOUS
  <1>3. qs \in Seq(Seq(Celda)) /\ Len(qs) = N /\ qs[1] = p /\ p \in Seq(Celda) /\ EsMensaje(m)
        /\ Len(p) >= 2
    BY <1>2, EnviadosTipo
  <1>4. /\ Tail(ms) \in Seq(MensajeDe(Codigos)) /\ Len(Tail(ms)) = N - 1
        /\ \A k \in 1..(N - 1) : Tail(ms)[k] = ms[k + 1]
    BY <1>2
  <1>5. Len(rs) = N - 1 /\ \A k \in 1..(N - 1) : rs[k] = qs[k + 1]
    <2>1. Len(rs) = N - 1
      BY <1>4 DEF Enviados
    <2>2. ASSUME NEW k \in 1..(N - 1) PROVE rs[k] = qs[k + 1]
      <3>1. k + 1 \in 1..N /\ Tail(ms)[k] = ms[k + 1]
        BY <1>2, <1>4
      <3> QED
        BY <1>4, <3>1 DEF Enviados
    <2> QED
      BY <2>1, <2>2
  <1>6. EnLugar(F, a[1 - 1], qs[1])
    BY <1>1, <1>2, <1>3 DEF Encadena
  <1>7. package_recv(F).mensaje = m /\ package_recv(F).resto = G
    <2>1. EnLugar(F, 0, package_send(m))
      BY <1>1, <1>3, <1>6 DEF Encadena, Parcial
    <2> QED
      BY <1>3, <2>1, PaqueteLeido
  <1> HIDE DEF m, p, qs, rs
  <1>8. a \in [0..N -> Nat] /\ a[0] = 0 /\ a[N] = Len(F)
        /\ \A k \in 1..N : a[k] = a[k - 1] + Len(qs[k])
    BY <1>1, <1>3 DEF Encadena, Parcial, Largos
  <1>9. L \in Nat /\ a[1] = L /\ L <= Len(F) /\ Len(F) \in Nat
    <2>1. L \in Nat /\ Len(F) \in Nat
      BY <1>3
    <2>2. a[1] = L
      BY <1>2, <1>3, <1>8, <2>1
    <2>3. L <= Len(F)
      BY <1>3, <1>6, <1>8 DEF EnLugar
    <2> QED
      BY <2>1, <2>2, <2>3
  <1> HIDE DEF L
  <1>10. G \in Seq(Celda) /\ Len(G) = Len(F) - L /\ \A i \in 1..(Len(F) - L) : G[i] = F[L + i]
    BY <1>9
  <1> HIDE DEF G
  <1>11. ASSUME NEW k \in 1..N PROVE a[k] >= L /\ a[k] \in Nat
    <2> DEFINE T == {j \in 1..N : a[j] < L}
    <2>1. ASSUME T # {} PROVE FALSE
      <3>1. T \subseteq Nat
        OBVIOUS
      <3>2. PICK j \in T : \A i \in T : j <= i
        <4> HIDE DEF T
        <4> QED
          BY <2>1, <3>1, MinimoExiste
      <3>3. j \in 1..N /\ a[j] < L
        OBVIOUS
      <3>4. j # 1
        BY <1>9, <3>3
      <3>5. j - 1 \in 1..N /\ j - 1 \notin T
        <4> HIDE DEF T
        <4> QED
          BY <1>2, <3>1, <3>2, <3>3, <3>4
      <3>6. ~(a[j - 1] < L)
        BY <3>5
      <3> HIDE DEF T
      <3>7. a[j] = a[j - 1] + Len(qs[j]) /\ Len(qs[j]) \in Nat
        BY <1>3, <1>8, <3>3
      <3>8. a[j - 1] \in Nat
        BY <1>8, <3>3, <3>5
      <3> QED
        BY <1>9, <3>3, <3>6, <3>7, <3>8
    <2>2. k \notin T
      BY <2>1
    <2>3. ~(a[k] < L)
      BY <2>2
    <2>4. a[k] \in Nat
      <3>1. k \in 0..N
        BY <1>2, <1>11
      <3> QED
        BY ONLY <1>8, <3>1
    <2> QED
      BY ONLY <1>9, <2>3, <2>4
  <1> DEFINE b == [k \in 0..(N - 1) |-> a[k + 1] - L]
  <1>12. b \in [0..(N - 1) -> Nat] /\ b[0] = 0 /\ b[N - 1] = Len(F) - L
    <2>1. \A k \in 0..(N - 1) : a[k + 1] - L \in Nat
      BY <1>2, <1>9, <1>11
    <2> QED
      BY <1>2, <1>8, <1>9, <2>1
  <1>13. \A k \in 0..(N - 1) : b[k] = a[k + 1] - L
    OBVIOUS
  <1> HIDE DEF b
  <1>14. ASSUME NEW k \in 1..(N - 1) PROVE b[k] = b[k - 1] + Len(rs[k])
    <2>1. k \in 0..(N - 1) /\ k - 1 \in 0..(N - 1) /\ k + 1 \in 1..N /\ (k + 1) - 1 = k
          /\ (k - 1) + 1 = k /\ k \in 1..N
      BY <1>2
    <2>2. b[k] = a[k + 1] - L /\ b[k - 1] = a[k] - L
      BY <1>13, <2>1
    <2>3. a[k + 1] = a[k] + Len(qs[k + 1]) /\ rs[k] = qs[k + 1] /\ Len(qs[k + 1]) \in Nat
      BY <1>3, <1>5, <1>8, <2>1
    <2>4. a[k] \in Nat
      BY <1>8, <2>1
    <2> QED
      BY <1>9, <2>2, <2>3, <2>4
  <1>15. Parcial(Largos(rs), Len(rs), b)
    BY <1>2, <1>5, <1>12, <1>14 DEF Parcial, Largos
  <1>16. ASSUME NEW k \in 1..(N - 1) PROVE EnLugar(G, b[k - 1], rs[k])
    <2>1. k + 1 \in 1..N /\ (k + 1) - 1 = k /\ (k - 1) + 1 = k /\ k - 1 \in 0..(N - 1) /\ k \in 1..N
      BY <1>2
    <2>2. EnLugar(F, a[k], qs[k + 1])
      BY <1>1, <1>3, <2>1 DEF Encadena
    <2>3. b[k - 1] = a[k] - L /\ a[k] \in Nat /\ a[k] >= L
      BY <1>11, <1>13, <2>1
    <2>4. rs[k] = qs[k + 1] /\ rs[k] \in Seq(Celda)
      BY <1>3, <1>5, <2>1
    <2>5. Len(rs[k]) \in Nat /\ a[k] + Len(rs[k]) <= Len(F)
      BY <2>2, <2>4 DEF EnLugar
    <2>6. ASSUME NEW j \in 1..Len(rs[k]) PROVE G[b[k - 1] + j] = rs[k][j]
      <3>1. F[a[k] + j] = rs[k][j]
        BY <2>2, <2>4 DEF EnLugar
      <3>2. b[k - 1] + j \in 1..(Len(F) - L) /\ L + (b[k - 1] + j) = a[k] + j
        <4>1. j \in Nat /\ j >= 1 /\ j <= Len(rs[k])
          BY <2>5, <2>6
        <4>2. PICK x, y, z, w : x = b[k - 1] /\ y = a[k] /\ z = Len(rs[k]) /\ w = Len(F)
          OBVIOUS
        <4>3. /\ x = y - L /\ y \in Nat /\ y >= L /\ L \in Nat /\ z \in Nat /\ w \in Nat
              /\ y + z <= w /\ j \in Nat /\ j >= 1 /\ j <= z
          BY <1>9, <2>3, <2>5, <4>1, <4>2
        <4>4. x + j \in 1..(w - L) /\ L + (x + j) = y + j
          BY ONLY <4>3
        <4> QED
          BY <4>2, <4>4
      <3> QED
        BY <1>10, <3>1, <3>2
    <2>7. b[k - 1] + Len(rs[k]) <= Len(G)
      BY <1>9, <1>10, <2>3, <2>5
    <2> QED
      BY <2>6, <2>7 DEF EnLugar
  <1>17. Encadena(G, rs, b)
    BY <1>5, <1>10, <1>12, <1>15, <1>16 DEF Encadena
  <1> QED
    BY <1>2, <1>7, <1>10, <1>17 DEF Corriente, rs

\* Packages are not empty: the stream is only if there are none.
LEMMA CorrienteSinNada ==
    ASSUME NEW ms \in Seq(MensajeDe(Codigos)), NEW F \in Seq(Celda), Corriente(F, ms)
    PROVE  F = <<>> <=> ms = <<>>
  <1>1. PICK a : Encadena(F, Enviados(ms), a)
    BY DEF Corriente
  <1>2. /\ Enviados(ms) \in Seq(Seq(Celda)) /\ Len(Enviados(ms)) = Len(ms)
        /\ \A n \in 1..Len(ms) : Len(Enviados(ms)[n]) >= 2
    BY EnviadosTipo
  <1>3. CASE ms = <<>>
    BY <1>1, <1>2, <1>3 DEF Encadena, Parcial
  <1>4. CASE ms # <<>>
    <2>1. 1 \in 1..Len(ms) /\ 0 \in 0..Len(ms)
      BY <1>4
    <2>2. EnLugar(F, a[1 - 1], Enviados(ms)[1]) /\ a[1 - 1] = 0
      BY <1>1, <1>2, <2>1 DEF Encadena, Parcial
    <2>3. Len(F) >= 2
      BY <1>2, <2>1, <2>2 DEF EnLugar
    <2> QED
      BY <1>4, <2>3
  <1> QED
    BY <1>3, <1>4


-----------------------------------------------------------------------------
(* What is read is what was sent                                           *)

\* The values sent have the types of their operation codes.
MensajesTipados == \A op \in Codigos \ {"END"} : Mensajes[op] \subseteq TipoDe(op)

\* The codes that go in the direction of a channel.
CodigosDe(x) == IF x[2] = "ida" THEN CodigosIda ELSE CodigosVuelta

\* The stream F of a channel is the packages of the messages ms, which are of that direction.
Canal(F, ms, ops) == F \in Seq(Celda) /\ ms \in Seq(MensajeDe(ops)) /\ Corriente(F, ms)

\* In each channel are the packages of the messages in flight, in their order.
Corrientes ==
    /\ flujo = [x \in Canales |-> flujo[x]] /\ vuelo = [x \in Canales |-> vuelo[x]]
    /\ \A x \in Canales : Canal(flujo[x], vuelo[x], CodigosDe(x))

\* Servers work on requests.
Atendidos ==
    /\ atiende = [c \in Conexiones |-> atiende[c]]
    /\ \A c \in Conexiones : atiende[c] = nada \/ atiende[c] \in MensajeDe(CodigosIda \ {"END"})

\* The inductive invariant of the streams.
CInv == Corrientes /\ Atendidos /\ visto[1] = visto[2]

\* Messages of some codes are messages.
LEMMA MensajesDeTodos ==
    ASSUME NEW ops, ops \subseteq Codigos
    PROVE  /\ MensajeDe(ops) \subseteq MensajeDe(Codigos)
           /\ \A ms \in Seq(MensajeDe(ops)) : ms \in Seq(MensajeDe(Codigos))
  <1>1. MensajeDe(ops) \subseteq MensajeDe(Codigos)
    BY MensajeEs
  <1> QED
    BY <1>1

\* Whatever the channel.
LEMMA CodigosDeCanal ==
    ASSUME NEW x
    PROVE  CodigosDe(x) \subseteq Codigos
  BY DEF CodigosDe, Codigos

\* The values of the constant become messages of their code.
LEMMA DeEs ==
    ASSUME MensajesTipados, NEW op \in Codigos \ {"END"}, NEW ops, op \in ops, NEW m \in De(op)
    PROVE  m \in MensajeDe(ops)
  <1>1. PICK v \in Mensajes[op] : m = [op |-> op, valor |-> v]
    BY DEF De
  <1>2. v \in TipoDe(op)
    BY <1>1 DEF MensajesTipados
  <1> QED
    BY <1>1, <1>2, MensajeEs

\* The messages whose value does not come from the constant.
LEMMA FijosEs ==
    /\ END \in MensajeDe(CodigosIda)
    /\ PROCESS_END \in MensajeDe(CodigosIda)
    /\ Estado("SUCCESS") \in MensajeDe(CodigosVuelta)
    /\ Estado("PROCESS_ABORTED") \in MensajeDe(CodigosVuelta)
  <1>1. TipoDe("END") = {0} /\ TipoDe("PID_STATUS") = PidStatus
    BY DEF TipoDe
  <1>2. 1 \in Celda /\ "SUCCESS" \in Celda /\ "PROCESS_ABORTED" \in Celda /\ "PROCESS_END" \in Celda
    BY DEF Celda, Nombres
  <1>3. END \in MensajeDe(CodigosIda)
    BY <1>1, MensajeEs DEF END, CodigosIda
  <1>4. ASSUME NEW s \in Celda, NEW ops, "PID_STATUS" \in ops PROVE Estado(s) \in MensajeDe(ops)
    <2>1. [pid |-> 1, status |-> s] \in PidStatus
      BY <1>2 DEF PidStatus
    <2> QED
      BY <1>1, <1>4, <2>1, MensajeEs DEF Estado
  <1>5. "PID_STATUS" \in CodigosIda /\ "PID_STATUS" \in CodigosVuelta
    BY DEF CodigosIda, CodigosVuelta
  <1> QED
    BY <1>2, <1>3, <1>4, <1>5 DEF PROCESS_END

\* What a channel is after package_send.
LEMMA CanalAgrega ==
    ASSUME NEW ops, ops \subseteq Codigos, NEW F, NEW ms, Canal(F, ms, ops), NEW m \in MensajeDe(ops)
    PROVE  Canal(F \o package_send(m), Append(ms, m), ops)
  <1>1. ms \in Seq(MensajeDe(Codigos)) /\ m \in MensajeDe(Codigos) /\ F \in Seq(Celda)
        /\ Corriente(F, ms)
    BY MensajesDeTodos DEF Canal
  <1>2. F \o package_send(m) \in Seq(Celda) /\ Corriente(F \o package_send(m), Append(ms, m))
    BY <1>1, CorrienteAgrega
  <1>3. Append(ms, m) \in Seq(MensajeDe(ops))
    <2>1. ms \in Seq(MensajeDe(ops))
      BY DEF Canal
    <2> QED
      BY <2>1
  <1> QED
    BY <1>2, <1>3 DEF Canal

\* And after get_package, which gets the first message.
LEMMA CanalSaca ==
    ASSUME NEW ops, ops \subseteq Codigos, NEW F, NEW ms, Canal(F, ms, ops), F # <<>>
    PROVE  /\ package_recv(F).mensaje = Head(ms)
           /\ Head(ms) \in MensajeDe(ops)
           /\ Canal(package_recv(F).resto, Tail(ms), ops)
  <1>1. ms \in Seq(MensajeDe(Codigos)) /\ F \in Seq(Celda) /\ Corriente(F, ms)
        /\ ms \in Seq(MensajeDe(ops))
    BY MensajesDeTodos DEF Canal
  <1>2. ms # <<>>
    BY <1>1, CorrienteSinNada
  <1>3. Head(ms) \in MensajeDe(ops) /\ Tail(ms) \in Seq(MensajeDe(ops))
    BY <1>1, <1>2
  <1> QED
    BY <1>1, <1>2, <1>3, CorrienteSaca DEF Canal

\* package_send of a message that goes that way, in some channels.
LEMMA MandarCorrientes ==
    ASSUME Corrientes, NEW ms, Mandar(ms),
           \A x \in Canales : x \in DOMAIN ms => ms[x] \in MensajeDe(CodigosDe(x))
    PROVE  Corrientes'
  <1>1. ASSUME NEW x \in Canales PROVE Canal(flujo'[x], vuelo'[x], CodigosDe(x))
    <2>1. Canal(flujo[x], vuelo[x], CodigosDe(x)) /\ CodigosDe(x) \subseteq Codigos
      BY CodigosDeCanal DEF Corrientes
    <2>2. CASE x \in DOMAIN ms
      <3>1. flujo'[x] = flujo[x] \o package_send(ms[x]) /\ vuelo'[x] = Append(vuelo[x], ms[x])
        BY <2>2 DEF Mandar
      <3>2. Canal(flujo[x] \o package_send(ms[x]), Append(vuelo[x], ms[x]), CodigosDe(x))
        BY <2>1, <2>2, CanalAgrega
      <3> QED
        BY <3>1, <3>2
    <2>3. CASE x \notin DOMAIN ms
      BY <2>1, <2>3 DEF Mandar
    <2> QED
      BY <2>2, <2>3
  <1>2. Canales' = Canales /\ \A x \in Canales : CodigosDe(x)' = CodigosDe(x)
    OBVIOUS
  <1>3. flujo' = [x \in Canales |-> flujo'[x]] /\ vuelo' = [x \in Canales |-> vuelo'[x]]
    BY DEF Mandar
  <1> QED
    BY <1>1, <1>3 DEF Corrientes

\* get_package: what is read is the oldest of the messages in flight.
LEMMA SacarCorrientes ==
    ASSUME Corrientes, NEW c \in Conexiones, NEW d \in {"ida", "vuelta"}, Sacar(c, d)
    PROVE  /\ Corrientes' /\ visto'[1] = visto'[2]
           /\ Leido(c, d).mensaje \in MensajeDe(CodigosDe(<<c, d>>))
  <1> DEFINE y == <<c, d>>
  <1>1. y \in Canales /\ CodigosDe(y) \subseteq Codigos /\ flujo[y] # <<>>
    BY CodigosDeCanal DEF Canales, Sacar
  <1>2. Canal(flujo[y], vuelo[y], CodigosDe(y))
    BY <1>1 DEF Corrientes
  <1>3. /\ package_recv(flujo[y]).mensaje = Head(vuelo[y])
        /\ Head(vuelo[y]) \in MensajeDe(CodigosDe(y))
        /\ Canal(package_recv(flujo[y]).resto, Tail(vuelo[y]), CodigosDe(y))
    BY <1>1, <1>2, CanalSaca
  <1>4. visto'[1] = visto'[2] /\ Leido(c, d).mensaje \in MensajeDe(CodigosDe(y))
    BY <1>3 DEF Sacar, Leido
  <1>5. /\ flujo' = [flujo EXCEPT ![y] = package_recv(flujo[y]).resto]
        /\ vuelo' = [vuelo EXCEPT ![y] = Tail(@)]
    BY DEF Sacar, Leido
  <1>6. ASSUME NEW x \in Canales PROVE Canal(flujo'[x], vuelo'[x], CodigosDe(x))
    <2>1. CASE x = y
      BY <1>3, <1>5, <2>1 DEF Corrientes
    <2>2. CASE x # y
      BY <1>5, <2>2 DEF Corrientes
    <2> QED
      BY <2>1, <2>2
  <1>7. flujo' = [x \in Canales |-> flujo'[x]] /\ vuelo' = [x \in Canales |-> vuelo'[x]]
    BY <1>5 DEF Corrientes
  <1>8. Corrientes'
    BY <1>6, <1>7 DEF Corrientes
  <1> QED
    BY <1>4, <1>8

\* What a client asks is a request.
LEMMA PedidoEs ==
    ASSUME MensajesTipados, NEW c \in Conexiones, NEW m \in Pedidos(c)
    PROVE  m \in MensajeDe(CodigosIda)
  <1>1. ASSUME NEW op \in CodigosIda \ {"END"}, m \in De(op) PROVE m \in MensajeDe(CodigosIda)
    BY <1>1, DeEs DEF Codigos
  <1>2. CASE EsKernel(c[1])
    <2>1. c[2] \in Modulos
      BY <1>2 DEF Conexiones, EsKernel, Modulos
    <2>2. \/ m \in De("PID_STATUS") \cup De("PID_INSTRUCCION") \cup De("COMPACTAR")
          \/ m \in De("PCONTEXTO")
          \/ m \in De("INSTRUCCION")
      BY <1>2, <2>1 DEF Pedidos, Modulos
    <2> QED
      BY <1>1, <2>2 DEF CodigosIda
  <1>3. CASE ~EsKernel(c[1])
    <2>1. m \in De("INSTRUCCIONES") \/ m \in De("INFO_READ") \/ m \in De("INFO_WRITE")
      BY <1>3 DEF Pedidos
    <2> QED
      BY <1>1, <2>1 DEF CodigosIda
  <1> QED
    BY <1>2, <1>3

\* What a server answers is an answer.
LEMMA RespuestaEs ==
    ASSUME MensajesTipados, NEW p \in MensajeDe(CodigosIda \ {"END"}), NEW op \in Respuestas(p),
           NEW m \in De(op)
    PROVE  m \in MensajeDe(CodigosVuelta)
  <1>1. p.op \in CodigosIda \ {"END"}
    BY MensajeEs
  <1>2. op \in CodigosVuelta
    BY <1>1 DEF Respuestas, CodigosIda, CodigosVuelta
  <1>3. op \in Codigos \ {"END"}
    BY <1>2 DEF Codigos, CodigosVuelta
  <1> QED
    BY <1>2, <1>3, DeEs


\* A step that touches no socket.
LEMMA IgualCorrientes ==
    ASSUME Corrientes, flujo' = flujo, vuelo' = vuelo
    PROVE  Corrientes'
  BY DEF Corrientes

\* A step in which no server takes or ends a request.
LEMMA IgualAtendidos ==
    ASSUME Atendidos, atiende' = atiende
    PROVE  Atendidos'
  BY DEF Atendidos

\* A step in which one does.
LEMMA AtenderOtro ==
    ASSUME Atendidos, NEW c, NEW m, m = nada \/ m \in MensajeDe(CodigosIda \ {"END"}),
           atiende' = [atiende EXCEPT ![c] = m]
    PROVE  Atendidos'
  <1>1. ASSUME NEW d \in Conexiones
        PROVE  atiende'[d] = nada \/ atiende'[d] \in MensajeDe(CodigosIda \ {"END"})
    <2>1. CASE d = c
      BY <2>1 DEF Atendidos
    <2>2. CASE d # c
      BY <2>2 DEF Atendidos
    <2> QED
      BY <2>1, <2>2
  <1>2. atiende' = [d \in Conexiones |-> atiende'[d]]
    BY DEF Atendidos
  <1> QED
    BY <1>1, <1>2 DEF Atendidos

\* A client asks.
LEMMA PedirC ==
    ASSUME MensajesTipados, CInv, NEW c \in Conexiones, Pedir(c)
    PROVE  CInv'
  <1>1. PICK m \in Pedidos(c) : Mandar([x \in {<<c, "ida">>} |-> m])
    BY DEF Pedir
  <1> DEFINE ms == [x \in {<<c, "ida">>} |-> m]
  <1>2. \A x \in Canales : x \in DOMAIN ms => ms[x] \in MensajeDe(CodigosDe(x))
    BY PedidoEs DEF CodigosDe
  <1> HIDE DEF ms
  <1>3. Mandar(ms)
    BY <1>1 DEF ms
  <1>4. Corrientes'
    BY <1>2, <1>3, MandarCorrientes DEF CInv
  <1> QED
    BY <1>4, IgualAtendidos DEF CInv, Pedir

\* A server reads a request.
LEMMA GetPackageC ==
    ASSUME CInv, NEW c \in Conexiones, get_package(c)
    PROVE  CInv'
  <1> DEFINE m == Leido(c, "ida").mensaje
  <1>1. Corrientes' /\ visto'[1] = visto'[2] /\ m \in MensajeDe(CodigosDe(<<c, "ida">>))
    BY SacarCorrientes DEF CInv, get_package
  <1>2. m.op # "END"
    BY DEF get_package
  <1>3. m \in MensajeDe(CodigosIda \ {"END"})
    BY <1>1, <1>2, MensajeEs DEF CodigosDe
  <1>4. \/ atiende' = atiende
        \/ atiende' = [atiende EXCEPT ![c] = IF SinContestacion(m) THEN nada ELSE m]
    BY DEF get_package
  <1> HIDE DEF m
  <1>5. Atendidos'
    <2>1. CASE atiende' = atiende
      BY <2>1, IgualAtendidos DEF CInv
    <2>2. CASE atiende' = [atiende EXCEPT ![c] = IF SinContestacion(m) THEN nada ELSE m]
      <3>1. PICK n : n = IF SinContestacion(m) THEN nada ELSE m
        OBVIOUS
      <3>2. n = nada \/ n \in MensajeDe(CodigosIda \ {"END"})
        BY <1>3, <3>1
      <3> QED
        BY <2>2, <3>1, <3>2, AtenderOtro DEF CInv
    <2> QED
      BY <1>4, <2>1, <2>2
  <1> QED
    BY <1>1, <1>5 DEF CInv

\* A server answers.
LEMMA ResponderC ==
    ASSUME MensajesTipados, CInv, NEW c \in Conexiones, Responder(c)
    PROVE  CInv'
  <1>1. PICK op \in Respuestas(atiende[c]) :
               \E m \in De(op) : Mandar([x \in {<<c, "vuelta">>} |-> m])
    BY DEF Responder
  <1>2. PICK m \in De(op) : Mandar([x \in {<<c, "vuelta">>} |-> m])
    BY <1>1
  <1>3. atiende[c] \in MensajeDe(CodigosIda \ {"END"})
    BY DEF Responder, CInv, Atendidos
  <1>4. m \in MensajeDe(CodigosVuelta)
    BY <1>3, RespuestaEs
  <1> DEFINE ms == [x \in {<<c, "vuelta">>} |-> m]
  <1>5. \A x \in Canales : x \in DOMAIN ms => ms[x] \in MensajeDe(CodigosDe(x))
    BY <1>4 DEF CodigosDe
  <1> HIDE DEF ms
  <1>6. Mandar(ms)
    BY <1>2 DEF ms
  <1>7. Corrientes'
    BY <1>5, <1>6, MandarCorrientes DEF CInv
  <1>8. Atendidos'
    BY AtenderOtro DEF CInv, Responder
  <1> QED
    BY <1>7, <1>8 DEF CInv, Responder

\* A kernel ends a process, and tells memoria.
LEMMA TerminarC ==
    ASSUME CInv, NEW k, TerminarProceso(k)
    PROVE  CInv'
  <1> DEFINE ms == [x \in {<<<<k, "memoria">>, "ida">>, <<<<"consola", k>>, "vuelta">>} |->
                      IF x[2] = "ida" THEN PROCESS_END ELSE Estado("SUCCESS")]
  <1>1. Mandar(ms)
    BY DEF TerminarProceso
  <1>2. \A x \in Canales : x \in DOMAIN ms => ms[x] \in MensajeDe(CodigosDe(x))
    BY FijosEs DEF CodigosDe
  <1> HIDE DEF ms
  <1>3. Corrientes'
    BY <1>1, <1>2, MandarCorrientes DEF CInv
  <1> QED
    BY <1>3, IgualAtendidos DEF CInv, TerminarProceso

\* A module ends.
LEMMA SalirC ==
    ASSUME CInv, NEW k, Salir(k)
    PROVE  CInv'
  <1> DEFINE ab == IF proceso = "vivo" THEN {<<<<"consola", k>>, "vuelta">>} ELSE {}
             ms == [x \in (({k} \X Modulos) \X {"ida"}) \cup ab |->
                      IF x[2] = "ida" THEN END ELSE Estado("PROCESS_ABORTED")]
  <1>1. Mandar(ms)
    BY DEF Salir
  <1>2. ASSUME NEW x \in Canales, x \in DOMAIN ms PROVE ms[x] \in MensajeDe(CodigosDe(x))
    <2>1. ms[x] = IF x[2] = "ida" THEN END ELSE Estado("PROCESS_ABORTED")
      BY <1>2
    <2> QED
      BY <2>1, FijosEs DEF CodigosDe
  <1> HIDE DEF ms
  <1>3. Corrientes'
    BY <1>1, <1>2, MandarCorrientes DEF CInv
  <1> QED
    BY <1>3, IgualAtendidos DEF CInv, Salir

\* The loop of a server thread ends: maybe with an END for memoria.
LEMMA FinBucleC ==
    ASSUME Corrientes, NEW c, FinBucle(c)
    PROVE  Corrientes'
  <1>1. CASE c[2] = "memoria"
    BY <1>1, IgualCorrientes DEF FinBucle
  <1>2. CASE c[2] # "memoria"
    <2> DEFINE ms == [x \in {y \in Conexiones : y[1] = c[2] /\ Acordada(y)} \X {"ida"} |-> END]
    <2>1. Mandar(ms)
      BY <1>2 DEF FinBucle
    <2>2. ASSUME NEW x \in Canales, x \in DOMAIN ms PROVE ms[x] \in MensajeDe(CodigosDe(x))
      <3>1. ms[x] = END /\ x[2] = "ida"
        BY <2>2
      <3> QED
        BY <3>1, FijosEs DEF CodigosDe
    <2> HIDE DEF ms
    <2> QED
      BY <2>1, <2>2, MandarCorrientes
  <1> QED
    BY <1>1, <1>2

\* A server reads the end of its client.
LEMMA RecibirEndC ==
    ASSUME CInv, NEW c \in Conexiones, RecibirEnd(c)
    PROVE  CInv'
  <1>1. Corrientes'
    BY FinBucleC DEF CInv, RecibirEnd
  <1>2. Atendidos'
    BY IgualAtendidos DEF CInv, RecibirEnd
  <1>3. visto'[1] = visto'[2]
    <2> DEFINE y == <<c, "ida">>
    <2>1. y \in Canales /\ CodigosDe(y) \subseteq Codigos /\ flujo[y] # <<>>
      BY CodigosDeCanal DEF Canales, RecibirEnd
    <2>2. Canal(flujo[y], vuelo[y], CodigosDe(y))
      BY <2>1 DEF Corrientes, CInv
    <2>3. package_recv(flujo[y]).mensaje = Head(vuelo[y])
      BY <2>1, <2>2, CanalSaca
    <2> QED
      BY <2>3 DEF RecibirEnd, Leido
  <1> QED
    BY <1>1, <1>2, <1>3 DEF CInv

\* Every step keeps the streams and what is made of them.
LEMMA PasoC ==
    ASSUME MensajesTipados, CInv, [Next]_vars
    PROVE  CInv'
<1> DEFINE Quieta == flujo' = flujo /\ vuelo' = vuelo /\ atiende' = atiende /\ visto' = visto
<1>0. ASSUME Quieta PROVE CInv'
  BY <1>0, IgualCorrientes, IgualAtendidos DEF CInv
<1>1. ASSUME NEW p \in Procesos, Arrancar(p) \/ Conectar(p) PROVE CInv'
  <2>1. Quieta
    BY <1>1 DEF Arrancar, Conectar, datos
  <2> QED
    BY <1>0, <2>1
<1>2. CASE start_memory \/ end_memory_server \/ FinMemoria
  <2>1. Quieta
    BY <1>2 DEF start_memory, end_memory_server, FinMemoria, datos
  <2> QED
    BY <1>0, <2>1
<1>3. ASSUME NEW c \in Conexiones, Paso(c) PROVE CInv'
  <2>1. CASE hs_client_to_module_valid(c) \/ client_wait(c) \/ hs_server_to_module_valid(c)
    <3>1. Quieta
      BY <2>1 DEF hs_client_to_module_valid, client_wait, hs_server_to_module_valid, datos
    <3> QED
      BY <1>0, <3>1
  <2>2. CASE get_package(c)
    BY <2>2, GetPackageC
  <2>3. CASE Responder(c)
    BY <2>3, ResponderC
  <2>4. CASE RecibirRespuesta(c)
    <3>1. Corrientes' /\ visto'[1] = visto'[2]
      BY <2>4, SacarCorrientes DEF CInv, RecibirRespuesta
    <3>2. Atendidos'
      BY <2>4, IgualAtendidos DEF CInv, RecibirRespuesta
    <3> QED
      BY <3>1, <3>2 DEF CInv
  <2>5. CASE SinRespuesta(c)
    <3>1. Quieta
      BY <2>5 DEF SinRespuesta
    <3> QED
      BY <1>0, <3>1
  <2>6. CASE RecibirEnd(c)
    BY <2>6, RecibirEndC
  <2>7. CASE SinCliente(c)
    <3>1. Corrientes'
      BY <2>7, FinBucleC, IgualCorrientes DEF CInv, SinCliente
    <3>2. Atendidos' /\ visto' = visto
      BY <2>7, IgualAtendidos DEF CInv, SinCliente
    <3> QED
      BY <3>1, <3>2 DEF CInv
  <2> QED
    BY <1>3, <2>1, <2>2, <2>3, <2>4, <2>5, <2>6, <2>7 DEF Paso
<1>4. ASSUME NEW c \in Conexiones, Pedir(c) PROVE CInv'
  BY <1>4, PedirC
<1>5. ASSUME NEW k \in Procesos, EsKernel(k), TerminarProceso(k) \/ wait_end(k) \/ Salir(k) PROVE CInv'
  <2>1. CASE TerminarProceso(k)
    BY <2>1, TerminarC
  <2>2. CASE Salir(k)
    BY <2>2, SalirC
  <2>3. CASE wait_end(k)
    <3>1. CASE Sacar(<<"consola", k>>, "vuelta")
      <4>1. <<"consola", k>> \in Conexiones
        BY <1>5 DEF Conexiones, Procesos
      <4>2. Corrientes' /\ visto'[1] = visto'[2]
        BY <3>1, <4>1, SacarCorrientes DEF CInv
      <4>3. Atendidos'
        BY <2>3, IgualAtendidos DEF CInv, wait_end
      <4> QED
        BY <4>2, <4>3 DEF CInv
    <3>2. CASE ~Sacar(<<"consola", k>>, "vuelta")
      <4>1. Quieta
        BY <2>3, <3>2 DEF wait_end
      <4> QED
        BY <1>0, <4>1
    <3> QED
      BY <3>1, <3>2
  <2> QED
    BY <1>5, <2>1, <2>2, <2>3
<1>6. CASE UNCHANGED vars
  <2>1. Quieta
    BY <1>6 DEF vars, datos
  <2> QED
    BY <1>0, <2>1
<1> QED
  BY <1>1, <1>2, <1>3, <1>4, <1>5, <1>6 DEF Next

\* At the beginning there are no sockets.
LEMMA InicioC ==
    ASSUME Init
    PROVE  CInv
  <1>1. Corrientes
    <2>1. ASSUME NEW x \in Canales PROVE Canal(flujo[x], vuelo[x], CodigosDe(x))
      <3>1. flujo[x] = <<>> /\ vuelo[x] = <<>>
        BY DEF Init
      <3> QED
        BY <3>1, CorrienteVacia DEF Canal
    <2> QED
      BY <2>1 DEF Corrientes, Init
  <1>2. Atendidos
    BY DEF Atendidos, Init
  <1> QED
    BY <1>1, <1>2 DEF CInv, Init

\* The last two values compared are equal.
LEMMA CInvImplica ==
    ASSUME CInv
    PROVE  RecibeLoEnviado
  <1>1. ASSUME NEW c \in Conexiones, NEW d \in {"ida", "vuelta"}
        PROVE  flujo[<<c, d>>] = <<>> <=> vuelo[<<c, d>>] = <<>>
    <2> DEFINE y == <<c, d>>
    <2>1. Canal(flujo[y], vuelo[y], CodigosDe(y)) /\ CodigosDe(y) \subseteq Codigos
      BY CodigosDeCanal DEF CInv, Corrientes, Canales
    <2>2. flujo[y] \in Seq(Celda) /\ vuelo[y] \in Seq(MensajeDe(Codigos)) /\ Corriente(flujo[y], vuelo[y])
      BY <2>1, MensajesDeTodos DEF Canal
    <2> QED
      BY <2>2, CorrienteSinNada
  <1> QED
    BY <1>1 DEF CInv, RecibeLoEnviado

\* Whatever values of their types are sent, of whatever lengths, each process reads what the
\* other one sent, in its order, and no cell of a package stays in the stream; each process
\* reads a connection with one thread, as Conexion has it.
THEOREM SeRecibeLoEnviado == ASSUME MensajesTipados PROVE Spec => []RecibeLoEnviado
<1>1. Init => CInv
  BY InicioC
<1>2. CInv /\ [Next]_vars => CInv'
  BY PasoC
<1>3. CInv => RecibeLoEnviado
  BY CInvImplica
<1> QED
  BY <1>1, <1>2, <1>3, PTL DEF Spec
=============================================================================
