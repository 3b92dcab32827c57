----------------------------- MODULE MaquinaAbs -----------------------------
(***************************************************************************)
(* What a program may count on: a machine of its own.  Every process has   *)
(* its registers and its segments, addressed by segment number and offset; *)
(* an instruction that is taken has its effect once, on what it names, and *)
(* a process is ended only by its EXIT, by an access that is not inside a  *)
(* segment of its own, or when a segment it asks for does not fit.  There  *)
(* are no contexts, physical addresses, copies of tables or compactions.   *)
(***************************************************************************)
EXTENDS Integers, Sequences, FiniteSets

CONSTANTS Pid, Ids, Valores, Registros, TamRegistro, TamMaxSegmento,
          TamMemoria, TamSegmento0, CantSegmentos, Instrucciones

VARIABLES
    vivos,      \* admitted and not ended
    pc,         \* how many instructions each has taken
    orden,      \* the one it is executing
    regs,
    contenido,  \* from the segments <<pid, id>> to their cells
    comun,      \* segment 0, which all share
    archivo,    \* what the last F_WRITE took to its file
    rota        \* the CPU is dead

vars == <<vivos, pc, orden, regs, contenido, comun, archivo, rota>>

ninguna == [op |-> "nada"]
Ceros == [r \in Registros |-> [i \in 1..TamRegistro[r] |-> 0]]

Init ==
    /\ vivos = {}
    /\ pc = [p \in Pid |-> 0]
    /\ orden = [p \in Pid |-> ninguna]
    /\ regs = [p \in Pid |-> Ceros]
    /\ contenido = [k \in {} |-> <<>>]
    /\ comun = [i \in 1..TamSegmento0 |-> 0]
    /\ archivo = <<>>
    /\ rota = FALSE

-----------------------------------------------------------------------------
segmento(dir) == dir \div TamMaxSegmento
desde(dir) == dir % TamMaxSegmento

Existe(p, dir) == segmento(dir) = 0 \/ <<p, segmento(dir)>> \in DOMAIN contenido
Celdas(p, dir) == IF segmento(dir) = 0 THEN comun ELSE contenido[<<p, segmento(dir)>>]
Dentro(p, dir, n) == Existe(p, dir) /\ desde(dir) + n <= Len(Celdas(p, dir))

Leer(p, dir, n) == SubSeq(Celdas(p, dir), desde(dir) + 1, desde(dir) + n)

Pisar(celdas, n, datos) ==
    [i \in 1..Len(celdas) |-> IF i \in (n + 1)..(n + Len(datos)) THEN datos[i - n] ELSE celdas[i]]

Escribir(p, dir, datos) ==
    IF segmento(dir) = 0
    THEN /\ comun' = Pisar(comun, desde(dir), datos)
         /\ UNCHANGED contenido
    ELSE /\ contenido' = [contenido EXCEPT ![<<p, segmento(dir)>>] =
                                Pisar(@, desde(dir), datos)]
         /\ UNCHANGED comun

De(p) == {k \in DOMAIN contenido : k[1] = p}
Usadas == UNION {{k} \X (1..Len(contenido[k])) : k \in DOMAIN contenido}
Libre == TamMemoria - TamSegmento0 - Cardinality(Usadas)

Cant(i) == IF i.op \in {"MOV_IN", "MOV_OUT"} THEN TamRegistro[i.reg] ELSE i.cant
Accede(i) == i.op \in {"MOV_IN", "MOV_OUT", "F_READ", "F_WRITE"}
Valida(p) == Accede(orden[p]) => Dentro(p, orden[p].dir, Cant(orden[p]))

\* The instruction of p is op, allowed, and over with this step.
Hecha(p, op) ==
    /\ p \in vivos /\ orden[p].op = op /\ Valida(p)
    /\ orden' = [orden EXCEPT ![p] = ninguna]
    /\ UNCHANGED <<vivos, pc, rota>>

-----------------------------------------------------------------------------
Nuevo(p) ==
    /\ p \notin vivos
    /\ vivos' = vivos \cup {p}
    /\ UNCHANGED <<pc, orden, regs, contenido, comun, archivo, rota>>

Tomar(p, i) ==
    /\ p \in vivos /\ orden[p] = ninguna /\ ~rota
    /\ orden' = [orden EXCEPT ![p] = i]
    /\ pc' = [pc EXCEPT ![p] = @ + 1]
    /\ archivo' = <<>>
    /\ UNCHANGED <<vivos, regs, contenido, comun, rota>>

Set(p) ==
    /\ Hecha(p, "SET")
    /\ regs' = [regs EXCEPT ![p][orden[p].reg] = Pisar(@, 0, orden[p].datos)]
    /\ UNCHANGED <<contenido, comun, archivo>>

MovIn(p) ==
    /\ Hecha(p, "MOV_IN")
    /\ regs' = [regs EXCEPT ![p][orden[p].reg] = Leer(p, orden[p].dir, Len(@))]
    /\ UNCHANGED <<contenido, comun, archivo>>

MovOut(p) ==
    /\ Hecha(p, "MOV_OUT")
    /\ Escribir(p, orden[p].dir, regs[p][orden[p].reg])
    /\ UNCHANGED <<regs, archivo>>

\* A file operation does not see what other processes do meanwhile.
DelArchivo(p) ==
    /\ Hecha(p, "F_READ")
    /\ \E datos \in [1..orden[p].cant -> Valores] : Escribir(p, orden[p].dir, datos)
    /\ UNCHANGED <<regs, archivo>>

AlArchivo(p) ==
    /\ Hecha(p, "F_WRITE")
    /\ archivo' = Leer(p, orden[p].dir, orden[p].cant)
    /\ UNCHANGED <<regs, contenido, comun>>

\* The new segment holds whatever was there; the others keep what they hold.
Crear(p) ==
    /\ Hecha(p, "CREATE_SEGMENT")
    /\ LET k == <<p, orden[p].id>> IN
       /\ DOMAIN contenido' = DOMAIN contenido \cup {k}
       /\ contenido'[k] \in [1..orden[p].size -> Valores]
       /\ \A otro \in DOMAIN contenido : contenido'[otro] = contenido[otro]
    /\ UNCHANGED <<regs, comun, archivo>>

Borrar(p) ==
    /\ Hecha(p, "DELETE_SEGMENT")
    /\ contenido' = [k \in DOMAIN contenido \ {<<p, orden[p].id>>} |-> contenido[k]]
    /\ UNCHANGED <<regs, comun, archivo>>

\* Nothing to do here; a CREATE_SEGMENT only when the process has all it may have.
Omitir(p) ==
    /\ \/ Hecha(p, "YIELD")
       \/ /\ Hecha(p, "CREATE_SEGMENT")
          /\ Cardinality(De(p)) + 1 >= CantSegmentos
    /\ UNCHANGED <<regs, contenido, comun, archivo>>

\* The reasons for which a process ends.
Termina(p) ==
    \/ rota
    \/ orden[p].op = "EXIT"
    \/ ~Valida(p)
    \/ /\ orden[p].op = "CREATE_SEGMENT"
       /\ orden[p].size > TamMaxSegmento \/ orden[p].size > Libre

Fin(p) ==
    /\ p \in vivos /\ Termina(p)
    /\ vivos' = vivos \ {p}
    /\ pc' = [pc EXCEPT ![p] = 0]
    /\ orden' = [orden EXCEPT ![p] = ninguna]
    /\ regs' = [regs EXCEPT ![p] = Ceros]
    /\ contenido' = [k \in DOMAIN contenido \ De(p) |-> contenido[k]]
    /\ UNCHANGED <<comun, archivo, rota>>

\* The CPU dies of an access that is not allowed, and of nothing else.
Romper(p) ==
    /\ p \in vivos /\ ~Valida(p) /\ ~rota
    /\ rota' = TRUE
    /\ UNCHANGED <<vivos, pc, orden, regs, contenido, comun, archivo>>

Next == \E p \in Pid :
    \/ Nuevo(p) \/ Fin(p) \/ Romper(p)
    \/ \E i \in Instrucciones : Tomar(p, i)
    \/ Set(p) \/ MovIn(p) \/ MovOut(p) \/ AlArchivo(p) \/ DelArchivo(p)
    \/ Crear(p) \/ Borrar(p) \/ Omitir(p)

Spec == Init /\ [][Next]_vars
=============================================================================
