----------------------------- MODULE MCConexion -----------------------------
(* A small instance of Conexion: a kernel that may be started twice, and values of *)
(* every type with lists that are empty, of one and of two.                        *)
EXTENDS Conexion

MCKernels == <<"kernel", "kernel bis">>

\* AX and EAX.
MCAnchos == <<1, 2>>

i0 == [identificador |-> "EXIT", parametros |-> <<>>]
i1 == [identificador |-> "WAIT", parametros |-> <<<<7, 0>>>>]
i2 == [identificador |-> "F_SEEK", parametros |-> <<<<7, 8, 0>>, <<0>>>>]
i4 == [identificador |-> "F_READ", parametros |-> <<<<7, 0>>, <<0>>, <<8, 0>>, <<9, 9, 0>>>>]
crear == [identificador |-> "CREATE_SEGMENT", parametros |-> <<<<1, 0>>, <<9, 8, 0>>>>]
borrar == [identificador |-> "DELETE_SEGMENT", parametros |-> <<<<1, 0>>>>]

s0 == [id |-> 0, size |-> 5, base_address |-> 0]
s1 == [id |-> 1, size |-> 2, base_address |-> 5]
t1 == [pid |-> 1, segment_list |-> <<s0>>]
t2 == [pid |-> 2, segment_list |-> <<s0, s1>>]
regs == <<<<3>>, <<4, 5>>>>

MCMensajes == [
    INSTRUCCIONES |-> {<<i2, i1, i0>>},
    INSTRUCCION |-> {i4},
    PCONTEXTO |-> {[pid |-> 1, program_counter |-> 1, registers |-> regs,
                    instructions |-> x[1], segments |-> x[2]] :
                       x \in {<<<<i0>>, <<>>>>, <<<<i4, i0>>, <<s0, s1>>>>}},
    PCONTEXTODESALOJO |-> {[pid |-> 1, program_counter |-> 2, status_code |-> "SUCCESS",
                            registers |-> regs, motivo_desalojo |-> i4,
                            instructions |-> <<i4, i0>>]},
    LTSEGMENTOS |-> {<<>>, <<t2, t1>>},
    TSEGMENTOS |-> {t2},
    SEGMENTO |-> {s1},
    STATUS_CODE |-> {"SUCCESS"},
    PID_INSTRUCCION |-> {[pid |-> 1, instruccion |-> i] : i \in {crear, borrar}},
    COMPACTAR |-> {0},
    PID_STATUS |-> {[pid |-> 1, status |-> "PROCESS_NEW"]},
    INFO_WRITE |-> {[base_address |-> 5, info |-> <<8, 9>>]},
    INFO_READ |-> {[base_address |-> 5, size |-> 2]},
    INFO |-> {<<8, 9>>}]
=============================================================================
