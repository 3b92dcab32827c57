------------------------------ MODULE Paquetes ------------------------------
(***************************************************************************)
(* How values travel (package.c): each type is written into a buffer field *)
(* after field and read back by offsets, and a package is its operation    *)
(* code, the size of the buffer and the buffer.  A stream is a sequence of *)
(* cells: a uint32_t is one cell, a parameter as many as it is long.       *)
(***************************************************************************)
EXTENDS Integers, SequencesExt

CONSTANTS
    Anchos      \* cells of each register, in the order they are sent

ASSUME AnchosAssumption == Anchos \in Seq(Nat)

uint32(s, o) == s[o + 1]
Tramo(s, o, n) == SubSeq(s, o + 1, o + n)
Suma(f, n) == FoldLeft(LAMBDA x, y : x + y, 0, SubSeq(f, 1, n))

-----------------------------------------------------------------------------
(* Instructions: up to four parameters, and the length of each             *)

\* create_new_instruction: a length for each parameter, 0 for those it has not.
p_length(i) ==
    [n \in 1..4 |-> IF n <= Len(i.parametros) THEN Len(i.parametros[n]) ELSE 0]

t_instruccion_create_buffer(i) ==
    <<i.identificador, Len(i.parametros)>> \o p_length(i) \o FlattenSeq(i.parametros)

\* The instruction at an offset of the stream, and the offset after it.
t_instruccion_create_from_buffer(s, o) ==
    LET cant == uint32(s, o + 1)
        largo == Tramo(s, o + 2, 4)
        desde(n) == o + 6 + Suma(largo, n - 1)
    IN [valor  |-> [identificador |-> uint32(s, o),
                    parametros    |-> [n \in 1..cant |-> Tramo(s, desde(n), largo[n])]],
        offset |-> desde(cant + 1)]

t_lista_instrucciones_create_buffer(lista) ==
    FlattenSeq([n \in 1..Len(lista) |-> t_instruccion_create_buffer(lista[n])])

\* No count is sent: instructions are read while the offset, which grows with each, is
\* inside the buffer.
t_lista_instrucciones_create_from_buffer(s) ==
    LET desde[o \in 0..Len(s)] ==
          LET i == t_instruccion_create_from_buffer(s, o)
          IN IF o = Len(s) THEN <<>>
             ELSE <<i.valor>> \o (IF i.offset \in (o + 1)..Len(s) THEN desde[i.offset] ELSE <<>>)
    IN desde[0]

-----------------------------------------------------------------------------
(* Segments and their tables                                               *)

t_segment_create_buffer(g) == <<g.id, g.size, g.base_address>>

t_segment_create_from_buffer(s, o) ==
    [id |-> uint32(s, o), size |-> uint32(s, o + 1), base_address |-> uint32(s, o + 2)]

t_segments_table_create_buffer(t) ==
    <<t.pid, Len(t.segment_list)>>
      \o FlattenSeq([n \in 1..Len(t.segment_list) |-> t_segment_create_buffer(t.segment_list[n])])

t_segments_table_create_from_buffer(s) ==
    [pid |-> uint32(s, 0),
     segment_list |-> [n \in 1..uint32(s, 1) |-> t_segment_create_from_buffer(s, 3 * n - 1)]]

\* The number of tables, the size of each, and the tables.
t_lista_t_segments_create_buffer(lista) ==
    LET tablas == [n \in 1..Len(lista) |-> t_segments_table_create_buffer(lista[n])]
    IN <<Len(lista)>> \o [n \in 1..Len(lista) |-> Len(tablas[n])] \o FlattenSeq(tablas)

t_lista_t_segments_create_from_buffer(s) ==
    LET cant == uint32(s, 0)
        size_arr == Tramo(s, 1, cant)
    IN [n \in 1..cant |-> t_segments_table_create_from_buffer(
                            Tramo(s, 1 + cant + Suma(size_arr, n - 1), size_arr[n]))]

-----------------------------------------------------------------------------
(* Contexts                                                                *)

registros_de(s, o) ==
    [r \in 1..Len(Anchos) |-> Tramo(s, o + Suma(Anchos, r - 1), Anchos[r])]
Registros == Suma(Anchos, Len(Anchos))

\* The two sizes go together, before the two buffers.
t_pcontexto_create_buffer(c) ==
    LET bi == t_lista_instrucciones_create_buffer(c.instructions)
        bt == t_segments_table_create_buffer([pid |-> c.pid, segment_list |-> c.segments])
    IN <<c.pid, c.program_counter>> \o FlattenSeq(c.registers)
         \o <<Len(bi), Len(bt)>> \o bi \o bt

t_pcontexto_create_from_buffer(s) ==
    LET o == 2 + Registros
        bi == Tramo(s, o + 2, uint32(s, o))
        bt == Tramo(s, o + 2 + Len(bi), uint32(s, o + 1))
    IN [pid |-> uint32(s, 0), program_counter |-> uint32(s, 1),
        registers |-> registros_de(s, 2),
        instructions |-> t_lista_instrucciones_create_from_buffer(bi),
        segments |-> t_segments_table_create_from_buffer(bt).segment_list]

\* Each size goes before its buffer, and the segments do not come back.
t_pcontexto_desalojo_create_buffer(c) ==
    LET bm == t_instruccion_create_buffer(c.motivo_desalojo)
        bi == t_lista_instrucciones_create_buffer(c.instructions)
    IN <<c.pid, c.program_counter, c.status_code>> \o FlattenSeq(c.registers)
         \o <<Len(bm)>> \o bm \o <<Len(bi)>> \o bi

t_pcontexto_desalojo_create_from_buffer(s) ==
    LET o == 3 + Registros
        bm == Tramo(s, o + 1, uint32(s, o))
        bi == Tramo(s, o + 2 + Len(bm), uint32(s, o + 1 + Len(bm)))
    IN [pid |-> uint32(s, 0), program_counter |-> uint32(s, 1), status_code |-> uint32(s, 2),
        registers |-> registros_de(s, 3),
        motivo_desalojo |-> t_instruccion_create_from_buffer(bm, 0).valor,
        instructions |-> t_lista_instrucciones_create_from_buffer(bi)]

-----------------------------------------------------------------------------
(* Requests and answers                                                    *)

t_status_code_create_buffer(c) == <<c>>
t_status_code_create_from_buffer(s) == uint32(s, 0)

t_pid_instruccion_create_buffer(p) ==
    LET bi == t_instruccion_create_buffer(p.instruccion) IN <<p.pid, Len(bi)>> \o bi
t_pid_instruccion_create_from_buffer(s) ==
    [pid |-> uint32(s, 0),
     instruccion |-> t_instruccion_create_from_buffer(Tramo(s, 2, uint32(s, 1)), 0).valor]

t_pid_status_create_buffer(p) == <<p.pid, p.status>>
t_pid_status_create_from_buffer(s) == [pid |-> uint32(s, 0), status |-> uint32(s, 1)]

t_info_create_buffer(datos) == <<Len(datos)>> \o datos

\* Mutant: the size is taken for data.
t_info_create_from_bufferEntero(s) == s

t_info_create_from_buffer(s) == Tramo(s, 1, uint32(s, 0))

t_info_write_create_buffer(w) ==
    LET bi == t_info_create_buffer(w.info) IN <<w.base_address, Len(bi)>> \o bi
t_info_write_create_from_buffer(s) ==
    [base_address |-> uint32(s, 0),
     info |-> t_info_create_from_buffer(Tramo(s, 2, uint32(s, 1)))]

t_info_read_create_buffer(r) == <<r.base_address, r.size>>
t_info_read_create_from_buffer(s) == [base_address |-> uint32(s, 0), size |-> uint32(s, 1)]

null_buffer == <<0>>

-----------------------------------------------------------------------------
(* Packages (package.c, send_* and get_* of communication.c)               *)

\* The buffer that the send_* of an operation makes of its value.
create_buffer(m) ==
    CASE m.op = "INSTRUCCIONES"     -> t_lista_instrucciones_create_buffer(m.valor)
      [] m.op = "INSTRUCCION"       -> t_instruccion_create_buffer(m.valor)
      [] m.op = "PCONTEXTO"         -> t_pcontexto_create_buffer(m.valor)
      [] m.op = "PCONTEXTODESALOJO" -> t_pcontexto_desalojo_create_buffer(m.valor)
      [] m.op = "LTSEGMENTOS"       -> t_lista_t_segments_create_buffer(m.valor)
      [] m.op = "TSEGMENTOS"        -> t_segments_table_create_buffer(m.valor)
      [] m.op = "SEGMENTO"          -> t_segment_create_buffer(m.valor)
      [] m.op = "STATUS_CODE"       -> t_status_code_create_buffer(m.valor)
      [] m.op = "PID_INSTRUCCION"   -> t_pid_instruccion_create_buffer(m.valor)
      [] m.op = "PID_STATUS"        -> t_pid_status_create_buffer(m.valor)
      [] m.op = "INFO_WRITE"        -> t_info_write_create_buffer(m.valor)
      [] m.op = "INFO_READ"         -> t_info_read_create_buffer(m.valor)
      [] m.op = "INFO"              -> t_info_create_buffer(m.valor)
      [] m.op \in {"END", "COMPACTAR"} -> null_buffer

\* The value that the get_* of an operation makes of the buffer.
create_from_buffer(op, s) ==
    CASE op = "INSTRUCCIONES"     -> t_lista_instrucciones_create_from_buffer(s)
      [] op = "INSTRUCCION"       -> t_instruccion_create_from_buffer(s, 0).valor
      [] op = "PCONTEXTO"         -> t_pcontexto_create_from_buffer(s)
      [] op = "PCONTEXTODESALOJO" -> t_pcontexto_desalojo_create_from_buffer(s)
      [] op = "LTSEGMENTOS"       -> t_lista_t_segments_create_from_buffer(s)
      [] op = "TSEGMENTOS"        -> t_segments_table_create_from_buffer(s)
      [] op = "SEGMENTO"          -> t_segment_create_from_buffer(s, 0)
      [] op = "STATUS_CODE"       -> t_status_code_create_from_buffer(s)
      [] op = "PID_INSTRUCCION"   -> t_pid_instruccion_create_from_buffer(s)
      [] op = "PID_STATUS"        -> t_pid_status_create_from_buffer(s)
      [] op = "INFO_WRITE"        -> t_info_write_create_from_buffer(s)
      [] op = "INFO_READ"         -> t_info_read_create_from_buffer(s)
      [] op = "INFO"              -> t_info_create_from_buffer(s)
      [] op \in {"END", "COMPACTAR"} -> 0

\* package_create and package_send: one send of operation code, size and buffer.
package_send(m) ==
    LET buffer == create_buffer(m) IN <<m.op, Len(buffer)>> \o buffer

\* package_recv: three recv, of the code, the size and as many cells as it says.
package_recv(flujo) ==
    LET size == uint32(flujo, 1)
    IN [mensaje |-> [op |-> flujo[1], valor |-> create_from_buffer(flujo[1], Tramo(flujo, 2, size))],
        resto   |-> SubSeq(flujo, size + 3, Len(flujo))]
=============================================================================
