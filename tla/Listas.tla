------------------------------- MODULE Listas -------------------------------
(* Facts about the list operations the models are built from: removing an  *)
(* element by value, as list_remove_element and list_remove(index) do.     *)
EXTENDS Integers, SequencesExt, WellFoundedInduction, TLAPS

\* A non-empty set of naturals has a least element.
LEMMA MinimoExiste ==
    ASSUME NEW T, T \subseteq Nat, T # {}
    PROVE  \E x \in T : \A y \in T : x <= y
  <1> DEFINE R == {ss \in Nat \X Nat : ss[1] < ss[2]}
  <1>1. IsWellFoundedOn(R, Nat)
    BY NatLessThanWellFounded DEF OpToRel
  <1>2. PICK x \in T : \A y \in T : ~ (<<y, x>> \in R)
    <2> HIDE DEF R
    <2> QED
      BY <1>1, WFMin
  <1>3. ASSUME NEW y \in T PROVE x <= y
    <2>1. x \in Nat /\ y \in Nat /\ <<y, x>> \in Nat \X Nat
      OBVIOUS
    <2>2. y < x => <<y, x>> \in R
      BY <2>1
    <2> QED
      BY <1>2, <2>1, <2>2
  <1> QED
    BY <1>3

Indices(q, e) == {i \in 1..Len(q) : q[i] = e}

\* The first index that holds e, if there is one.
LEMMA PrimerIndice ==
    ASSUME NEW S, NEW q \in Seq(S), NEW e, Indices(q, e) # {}
    PROVE  /\ Min(Indices(q, e)) \in 1..Len(q)
           /\ q[Min(Indices(q, e))] = e
  <1>1. Indices(q, e) \subseteq Nat
    BY DEF Indices
  <1>2. \E x \in Indices(q, e) : \A y \in Indices(q, e) : x <= y
    BY <1>1, MinimoExiste
  <1>3. Min(Indices(q, e)) \in Indices(q, e)
    BY <1>2 DEF Min
  <1> QED
    BY <1>3 DEF Indices

\* RemoveFirst is the list without that index.
LEMMA QuitarForma ==
    ASSUME NEW q, NEW e
    PROVE  RemoveFirst(q, e) =
             IF Indices(q, e) = {} THEN q
             ELSE SubSeq(q, 1, Min(Indices(q, e)) - 1)
                    \o SubSeq(q, Min(Indices(q, e)) + 1, Len(q))
  BY DEF RemoveFirst, RemoveAt, SelectInSeq, Indices

\* Removing an element leaves a list of the same kind.
LEMMA QuitarTipo ==
    ASSUME NEW S, NEW q \in Seq(S), NEW e
    PROVE  RemoveFirst(q, e) \in Seq(S)
  <1>1. CASE Indices(q, e) = {}
    BY <1>1, QuitarForma
  <1>2. CASE Indices(q, e) # {}
    <2> DEFINE n == Min(Indices(q, e))
    <2>1. n \in 1..Len(q)
      BY <1>2, PrimerIndice
    <2>2. RemoveFirst(q, e) = SubSeq(q, 1, n - 1) \o SubSeq(q, n + 1, Len(q))
      BY <1>2, QuitarForma
    <2> HIDE DEF n
    <2>3. /\ SubSeq(q, 1, n - 1) \in Seq(S)
          /\ SubSeq(q, n + 1, Len(q)) \in Seq(S)
      BY <2>1
    <2> QED
      BY <2>2, <2>3
  <1> QED
    BY <1>1, <1>2

\* The first of a list and the rest.
LEMMA PrimeroYResto ==
    ASSUME NEW S, NEW q \in Seq(S), q # <<>>
    PROVE  Head(q) \in S /\ Tail(q) \in Seq(S)
  OBVIOUS

\* A pcb that goes from one list to another.
LEMMA MoverEntre ==
    ASSUME NEW C, NEW S, NEW f \in [C -> Seq(S)], NEW de \in C, NEW a \in C, de # a,
           NEW resto \in Seq(S), NEW e \in S
    PROVE  [f EXCEPT ![de] = resto, ![a] = Append(@, e)] \in [C -> Seq(S)]
  OBVIOUS

\* s is q without the element at n.
SinIndice(q, n, s) ==
    /\ n \in 1..Len(q)
    /\ Len(s) = Len(q) - 1
    /\ \A i \in 1..Len(s) : s[i] = IF i < n THEN q[i] ELSE q[i + 1]

\* Tail takes the first element, and RemoveFirst one that is equal to e.
LEMMA SacarIndice ==
    ASSUME NEW S, NEW q \in Seq(S), q # <<>>
    PROVE  SinIndice(q, 1, Tail(q)) /\ q[1] = Head(q)
  BY DEF SinIndice

\* RemoveFirst leaves out one place that holds the element.
LEMMA QuitarIndice ==
    ASSUME NEW S, NEW q \in Seq(S), NEW e, Contains(q, e)
    PROVE  \E n \in 1..Len(q) : q[n] = e /\ SinIndice(q, n, RemoveFirst(q, e))
  <1>1. Indices(q, e) # {}
    BY DEF Contains, Indices
  <1> DEFINE n == Min(Indices(q, e))
  <1>2. n \in 1..Len(q) /\ q[n] = e
    BY <1>1, PrimerIndice
  <1>3. RemoveFirst(q, e) = SubSeq(q, 1, n - 1) \o SubSeq(q, n + 1, Len(q))
    BY <1>1, QuitarForma
  <1> HIDE DEF n
  <1>4. SinIndice(q, n, SubSeq(q, 1, n - 1) \o SubSeq(q, n + 1, Len(q)))
    <2> DEFINE a == SubSeq(q, 1, n - 1)
               b == SubSeq(q, n + 1, Len(q))
    <2>1. /\ a \in Seq(S) /\ Len(a) = n - 1 /\ \A i \in 1..(n - 1) : a[i] = q[i]
      BY <1>2
    <2>2. /\ b \in Seq(S) /\ Len(b) = Len(q) - n /\ \A i \in 1..(Len(q) - n) : b[i] = q[i + n]
      BY <1>2
    <2> HIDE DEF a, b
    <2>3. /\ Len(a \o b) = Len(q) - 1
          /\ \A i \in 1..Len(a \o b) : (a \o b)[i] = IF i <= Len(a) THEN a[i] ELSE b[i - Len(a)]
      BY <1>2, <2>1, <2>2
    <2> QED
      <3>1. ASSUME NEW i \in 1..Len(a \o b)
            PROVE  (a \o b)[i] = IF i < n THEN q[i] ELSE q[i + 1]
        <4>1. CASE i < n
          BY <1>2, <2>1, <2>2, <2>3, <4>1
        <4>2. CASE ~(i < n)
          <5>1. i - Len(a) \in 1..(Len(q) - n) /\ (i - Len(a)) + n = i + 1 /\ ~(i <= Len(a))
            BY <1>2, <2>1, <2>2, <2>3, <4>2
          <5>2. (a \o b)[i] = b[i - Len(a)]
            BY <2>3, <5>1
          <5>3. b[i - Len(a)] = q[(i - Len(a)) + n]
            BY <2>2, <5>1
          <5> QED
            BY <4>2, <5>1, <5>2, <5>3
        <4> QED
          BY <4>1, <4>2
      <3>2. SinIndice(q, n, a \o b)
        BY <1>2, <2>3, <3>1 DEF SinIndice
      <3> QED
        BY <3>2 DEF a, b
  <1> QED
    BY <1>2, <1>3, <1>4

\* What is not in the list is not removed.
LEMMA QuitarAusente ==
    ASSUME NEW q, NEW e, ~Contains(q, e)
    PROVE  RemoveFirst(q, e) = q
  BY QuitarForma DEF Contains, Indices

\* No element is in two places of the lists f[c], c in D.
Repartida(f, D) ==
    \A c, d \in D : \A i \in 1..Len(f[c]), j \in 1..Len(f[d]) :
        f[c][i] = f[d][j] => c = d /\ i = j

\* g is f with another list at c.
SoloEn(f, g, D, c, lista) == g[c] = lista /\ \A d \in D : d # c => g[d] = f[d]

\* e is in no list, and what the lists g hold compared with the lists f: e more, at c; e
\* less; e now at a.
Ausente(f, D, e) == \A d \in D : ~Contains(f[d], e)
Agregado(f, g, D, c, e) ==
    \A d \in D : \A x : Contains(g[d], x) <=> (Contains(f[d], x) \/ (x = e /\ d = c))
Quitado(f, g, D, e) == \A d \in D : \A x : Contains(g[d], x) <=> (Contains(f[d], x) /\ x # e)
Movido(f, g, D, a, e) ==
    \A d \in D : \A x : Contains(g[d], x) <=> IF x = e THEN d = a ELSE Contains(f[d], x)

\* So an element is in one list only.
LEMMA UnaLista ==
    ASSUME NEW f, NEW D, Repartida(f, D), NEW c \in D, NEW d \in D, NEW e,
           Contains(f[c], e), Contains(f[d], e)
    PROVE  c = d
  BY DEF Repartida, Contains

\* Adding an element that is nowhere.
LEMMA RepartidaAgrega ==
    ASSUME NEW S, NEW D, NEW f \in [D -> Seq(S)], Repartida(f, D), NEW c \in D, NEW e \in S,
           Ausente(f, D, e), NEW g, SoloEn(f, g, D, c, Append(f[c], e))
    PROVE  Repartida(g, D) /\ Agregado(f, g, D, c, e)
  <1> USE DEF Ausente
  <1>1. /\ \A d \in D : d # c => g[d] = f[d]
        /\ g[c] = Append(f[c], e)
    BY DEF SoloEn
  <1> DEFINE n == Len(f[c])
  <1>2. /\ n \in Nat /\ Len(g[c]) = n + 1 /\ g[c][n + 1] = e /\ \A i \in 1..n : g[c][i] = f[c][i]
    BY <1>1
  <1>3. \A d \in D : Len(f[d]) \in Nat
    OBVIOUS
  <1> HIDE DEF n
  <1>4. ASSUME NEW d \in D, NEW i \in 1..Len(g[d])
        PROVE  IF d = c /\ i = n + 1 THEN g[d][i] = e
               ELSE i \in 1..Len(f[d]) /\ g[d][i] = f[d][i] /\ g[d][i] # e
    <2>1. CASE d = c
      BY <1>2, <1>3, <2>1 DEF Contains, n
    <2>2. CASE d # c
      BY <1>1, <1>3, <2>2 DEF Contains
    <2> QED
      BY <2>1, <2>2
  <1>5. Repartida(g, D)
    <2> SUFFICES ASSUME NEW x \in D, NEW y \in D, NEW i \in 1..Len(g[x]), NEW j \in 1..Len(g[y]),
                        g[x][i] = g[y][j]
                 PROVE  x = y /\ i = j
      BY DEF Repartida
    <2>1. CASE g[x][i] = e
      <3>1. x = c /\ i = n + 1
        BY <1>4, <2>1
      <3>2. y = c /\ j = n + 1
        BY <1>4, <2>1
      <3> QED
        BY <3>1, <3>2
    <2>2. CASE g[x][i] # e
      <3>1. i \in 1..Len(f[x]) /\ j \in 1..Len(f[y]) /\ f[x][i] = f[y][j]
        BY <1>4, <2>2
      <3> QED
        BY <3>1 DEF Repartida
    <2> QED
      BY <2>1, <2>2
  <1>6. ASSUME NEW d \in D, NEW x
        PROVE  Contains(g[d], x) <=> (Contains(f[d], x) \/ (x = e /\ d = c))
    <2>1. CASE d = c
      <3>1. Contains(f[d], x) => Contains(g[d], x)
        BY <1>2, <2>1 DEF Contains, n
      <3>2. x = e => Contains(g[d], x)
        BY <1>2, <2>1 DEF Contains
      <3>3. Contains(g[d], x) => Contains(f[d], x) \/ x = e
        BY <1>4, <2>1 DEF Contains
      <3> QED
        BY <2>1, <3>1, <3>2, <3>3
    <2>2. CASE d # c
      BY <1>1, <2>2
    <2> QED
      BY <2>1, <2>2
  <1> QED
    BY <1>5, <1>6 DEF Agregado

\* Taking out the element at an index.
LEMMA RepartidaQuita ==
    ASSUME NEW S, NEW D, NEW f \in [D -> Seq(S)], Repartida(f, D), NEW c \in D,
           NEW n, NEW s, SinIndice(f[c], n, s),
           NEW g, SoloEn(f, g, D, c, s)
    PROVE  Repartida(g, D) /\ Quitado(f, g, D, f[c][n])
  <1>1. /\ \A d \in D : d # c => g[d] = f[d]
        /\ g[c] = s
    BY DEF SoloEn
  <1>2. /\ n \in 1..Len(f[c]) /\ Len(f[c]) \in Nat /\ Len(s) = Len(f[c]) - 1
        /\ \A i \in 1..Len(s) : s[i] = IF i < n THEN f[c][i] ELSE f[c][i + 1]
    BY DEF SinIndice
  <1> DEFINE sube(d, i) == IF d # c \/ i < n THEN i ELSE i + 1
  <1>3. ASSUME NEW d \in D, NEW i \in 1..Len(g[d])
        PROVE  sube(d, i) \in 1..Len(f[d]) /\ g[d][i] = f[d][sube(d, i)] /\ (d = c => sube(d, i) # n)
    <2>1. CASE d = c
      BY <1>1, <1>2, <2>1
    <2>2. CASE d # c
      BY <1>1, <2>2
    <2> QED
      BY <2>1, <2>2
  <1>4. Repartida(g, D)
    <2> SUFFICES ASSUME NEW x \in D, NEW y \in D, NEW i \in 1..Len(g[x]), NEW j \in 1..Len(g[y]),
                        g[x][i] = g[y][j]
                 PROVE  x = y /\ i = j
      BY DEF Repartida
    <2>1. x = y /\ sube(x, i) = sube(y, j)
      <3>1. /\ sube(x, i) \in 1..Len(f[x]) /\ sube(y, j) \in 1..Len(f[y])
            /\ f[x][sube(x, i)] = f[y][sube(y, j)]
        BY <1>3
      <3> HIDE DEF sube
      <3> QED
        BY <3>1 DEF Repartida
    <2>2. i \in Int /\ j \in Int /\ n \in Int
      BY <1>1, <1>2
    <2> QED
      BY <2>1, <2>2
  <1>5. ASSUME NEW d \in D, NEW x, Contains(g[d], x)
        PROVE  Contains(f[d], x) /\ x # f[c][n]
    <2>1. PICK i \in 1..Len(g[d]) : g[d][i] = x
      BY <1>5 DEF Contains
    <2>2. sube(d, i) \in 1..Len(f[d]) /\ f[d][sube(d, i)] = x /\ (d = c => sube(d, i) # n)
      BY <1>3, <2>1
    <2> HIDE DEF sube
    <2> QED
      BY <1>2, <2>2 DEF Contains, Repartida
  <1>6. ASSUME NEW d \in D, NEW x, Contains(f[d], x), x # f[c][n]
        PROVE  Contains(g[d], x)
    <2>1. PICK j \in 1..Len(f[d]) : f[d][j] = x
      BY <1>6 DEF Contains
    <2>2. CASE d # c
      BY <1>1, <1>6, <2>2
    <2>3. CASE d = c /\ j < n
      <3>1. j \in 1..Len(s) /\ s[j] = x
        BY <1>2, <2>1, <2>3
      <3> QED
        BY <1>1, <2>3, <3>1 DEF Contains
    <2>4. CASE d = c /\ ~(j < n)
      <3>1. j > n
        BY <1>2, <1>6, <2>1, <2>4
      <3>2. j - 1 \in 1..Len(s) /\ ~(j - 1 < n) /\ (j - 1) + 1 = j
        BY <1>2, <2>1, <2>4, <3>1
      <3>3. s[j - 1] = x
        BY <1>2, <2>1, <2>4, <3>2
      <3> QED
        BY <1>1, <2>4, <3>2, <3>3 DEF Contains
    <2> QED
      BY <2>2, <2>3, <2>4
  <1> QED
    BY <1>4, <1>5, <1>6 DEF Quitado

\* Moving an element from one list to another.
LEMMA RepartidaMueve ==
    ASSUME NEW S, NEW D, NEW f \in [D -> Seq(S)], Repartida(f, D), NEW de \in D, NEW a \in D,
           de # a, NEW e \in S, Contains(f[de], e),
           NEW g, g = [f EXCEPT ![de] = RemoveFirst(@, e), ![a] = Append(@, e)]
    PROVE  Repartida(g, D) /\ Movido(f, g, D, a, e)
  <1> DEFINE m == [f EXCEPT ![de] = RemoveFirst(@, e)]
  <1>1. PICK n \in 1..Len(f[de]) : f[de][n] = e /\ SinIndice(f[de], n, RemoveFirst(f[de], e))
    BY QuitarIndice
  <1>2. RemoveFirst(f[de], e) \in Seq(S)
    BY QuitarTipo
  <1>3. /\ m \in [D -> Seq(S)] /\ SoloEn(f, m, D, de, RemoveFirst(f[de], e))
        /\ SoloEn(m, g, D, a, Append(m[a], e))
    BY <1>2 DEF SoloEn
  <1> HIDE DEF m
  <1>4. Repartida(m, D) /\ Quitado(f, m, D, e)
    BY <1>1, <1>3, RepartidaQuita
  <1>5. Ausente(m, D, e)
    BY <1>4 DEF Ausente, Quitado
  <1>6. Repartida(g, D) /\ Agregado(m, g, D, a, e)
    BY <1>3, <1>4, <1>5, RepartidaAgrega
  <1> QED
    BY <1>4, <1>6 DEF Quitado, Agregado, Movido

\* A list without repetitions.
SinRepetidos(s) == \A i, j \in 1..Len(s) : s[i] = s[j] => i = j

\* Removing an element from one, with Tail or RemoveFirst, removes it altogether.
LEMMA DistintaQuita ==
    ASSUME NEW S, NEW s \in Seq(S), SinRepetidos(s), NEW n, NEW t, SinIndice(s, n, t)
    PROVE  SinRepetidos(t) /\ \A x : Contains(t, x) <=> (Contains(s, x) /\ x # s[n])
  <1> DEFINE f == [d \in {0} |-> s]
             g == [d \in {0} |-> t]
  <1>1. f \in [{0} -> Seq(S)] /\ Repartida(f, {0}) /\ f[0] = s /\ g[0] = t
    BY DEF Repartida, SinRepetidos
  <1>2. SoloEn(f, g, {0}, 0, t) /\ SinIndice(f[0], n, t)
    BY DEF SoloEn
  <1> HIDE DEF f, g
  <1>3. Repartida(g, {0}) /\ Quitado(f, g, {0}, f[0][n])
    BY <1>1, <1>2, RepartidaQuita
  <1> QED
    BY <1>1, <1>3 DEF Repartida, Quitado, SinRepetidos

\* Adding at the end.
LEMMA DistintaAgrega ==
    ASSUME NEW S, NEW s \in Seq(S), NEW e \in S
    PROVE  /\ SinRepetidos(s) /\ ~Contains(s, e) => SinRepetidos(Append(s, e))
           /\ \A x : Contains(Append(s, e), x) <=> (Contains(s, x) \/ x = e)
  <1>1. /\ Len(Append(s, e)) = Len(s) + 1 /\ Len(s) \in Nat
        /\ \A i \in 1..Len(s) : Append(s, e)[i] = s[i]
        /\ Append(s, e)[Len(s) + 1] = e
    OBVIOUS
  <1> DEFINE t == Append(s, e)
  <1>2. \A i \in 1..Len(t) : i \in 1..Len(s) \/ i = Len(s) + 1
    BY <1>1
  <1>3. 1..Len(s) \subseteq 1..Len(t) /\ Len(s) + 1 \in 1..Len(t)
    BY <1>1
  <1> HIDE DEF t
  <1> QED
    BY <1>1, <1>2, <1>3 DEF SinRepetidos, Contains, t
=============================================================================
