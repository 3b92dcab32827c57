---------------------------- MODULE ArchivosAbs -----------------------------
(***************************************************************************)
(* What the filesystem promises the kernel: files as sequences of bytes.   *)
(* No blocks, no bitmap, no pointers.  An answer carries the request it    *)
(* answers, so that every answer has to be true.                           *)
(***************************************************************************)
EXTENDS Integers, Sequences

CONSTANTS Archivos, Valores

VARIABLES
    contenido,   \* [existing files -> Seq(Valores)]
    respuesta    \* the answer to the last request

vars == <<contenido, respuesta>>

Init == contenido = <<>> /\ respuesta.codigo = "nada"

\* A request that changes no file: F_OPEN, or one that is refused.
Contestar ==
    /\ respuesta'.codigo \in {"nada", "FILE_OPEN", "FILE_NOT_EXIST", "FILE_NOT_EXISTS", "ERROR"}
    /\ UNCHANGED contenido

Crear ==
    /\ respuesta'.codigo = "FILE_CREATED"
    /\ LET f == respuesta'.archivo IN
         /\ f \in Archivos \ DOMAIN contenido
         /\ contenido' = [g \in DOMAIN contenido \cup {f} |->
                            IF g = f THEN <<>> ELSE contenido[g]]

\* The bytes that remain are the ones that were there; the new ones are unknown.
Truncar ==
    /\ respuesta'.codigo = "FILE_TRUNCATED"
    /\ LET f == respuesta'.archivo  n == respuesta'.tamanio IN
         /\ f \in DOMAIN contenido
         /\ DOMAIN contenido' = DOMAIN contenido
         /\ \A g \in DOMAIN contenido \ {f} : contenido'[g] = contenido[g]
         /\ contenido'[f] \in [1..n -> Valores]
         /\ \A i \in 1..n : i <= Len(contenido[f]) => contenido'[f][i] = contenido[f][i]

\* F_WRITE changes the bytes it names and no other, of this file or of another.
Escribir ==
    /\ respuesta'.codigo = "FILE_WRITTEN"
    /\ LET f == respuesta'.archivo
           puntero == respuesta'.puntero
           datos == respuesta'.datos
       IN /\ f \in DOMAIN contenido
          /\ puntero + Len(datos) <= Len(contenido[f])
          /\ contenido' = [contenido EXCEPT ![f] =
                [i \in 1..Len(contenido[f]) |->
                   IF i - puntero \in 1..Len(datos) THEN datos[i - puntero] ELSE contenido[f][i]]]

\* F_READ takes to memory the bytes it was asked for.
Leer ==
    /\ respuesta'.codigo = "FILE_READ"
    /\ LET f == respuesta'.archivo
           puntero == respuesta'.puntero
       IN /\ f \in DOMAIN contenido
          /\ respuesta'.datos = SubSeq(contenido[f], puntero + 1, puntero + Len(respuesta'.datos))
          /\ puntero + Len(respuesta'.datos) <= Len(contenido[f])
    /\ UNCHANGED contenido

Next == Contestar \/ Crear \/ Truncar \/ Escribir \/ Leer

Spec == Init /\ [][Next]_vars

=============================================================================
