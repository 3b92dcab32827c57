----------------------------- MODULE MemoriaAbs -----------------------------
(***************************************************************************)
(* What memoria promises: every process owns segments with a content of    *)
(* their own.  There are no addresses here, so nothing can be moved,       *)
(* fragmented or overlap; a segment changes only by what is done to it,    *)
(* and while memoria is in pause nothing is done to any.                   *)
(***************************************************************************)
EXTENDS Integers, Sequences

CONSTANTS Pid, Ids, Sizes, Valores

VARIABLES
    procesos,   \* the processes with a table
    pausa,      \* no request is served
    contenido   \* from the segments that exist to what they hold

vars == <<procesos, pausa, contenido>>

Bloque == [pid : Pid, id : Ids, size : Sizes]
Celdas(k) == 0..(k.size - 1)
asignados == DOMAIN contenido

Init == procesos = {} /\ ~pausa /\ contenido = [k \in {} |-> {}]

Nuevo(p) ==
    /\ procesos' = procesos \cup {p}
    /\ UNCHANGED contenido

\* A process ends, with its segments and with no other.
Fin(p) ==
    /\ p \in procesos
    /\ procesos' = procesos \ {p}
    /\ contenido' = [k \in {k \in asignados : k.pid # p} |-> contenido[k]]

\* A new segment holds whatever was there; the others keep what they hold.
Crear(k) ==
    /\ k.pid \in procesos /\ k \notin asignados
    /\ DOMAIN contenido' = asignados \cup {k}
    /\ contenido'[k] \in [Celdas(k) -> Valores]
    /\ \A otro \in asignados : contenido'[otro] = contenido[otro]
    /\ UNCHANGED procesos

Borrar(k) ==
    /\ k \in asignados
    /\ contenido' = [otro \in asignados \ {k} |-> contenido[otro]]
    /\ UNCHANGED procesos

Escribir(k, desde, datos) ==
    /\ k \in asignados /\ desde + Len(datos) <= k.size
    /\ contenido' = [contenido EXCEPT ![k] = [celda \in Celdas(k) |->
                        IF celda \in desde..(desde + Len(datos) - 1)
                        THEN datos[celda - desde + 1] ELSE @[celda]]]
    /\ UNCHANGED procesos

\* What follows a pause is what was before it.
Pausa ==
    /\ pausa' = ~pausa
    /\ UNCHANGED <<procesos, contenido>>

Servir ==
    \/ \E p \in Pid : Nuevo(p) \/ Fin(p)
    \/ \E k \in Bloque : \/ Crear(k) \/ Borrar(k)
                         \/ \E n \in 1..k.size : \E desde \in Celdas(k), datos \in [1..n -> Valores] :
                                Escribir(k, desde, datos)

Next == Pausa \/ (~pausa /\ Servir /\ UNCHANGED pausa)

Spec == Init /\ [][Next]_vars
=============================================================================
