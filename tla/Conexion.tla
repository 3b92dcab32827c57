------------------------------ MODULE Conexion ------------------------------
(***************************************************************************)
(* How the processes of the system find each other, talk and end: the      *)
(* servers and clients, the handshake, the threads of memoria, the loops   *)
(* that read packages, and what a process that ends does to the others.    *)
(* Processes are started in any order; a kernel that could not connect may *)
(* be started again.  What requests do is in the other modules.            *)
(* There is one console: the kernel admits its process before it executes, *)
(* so the client thread and the core never ask memoria at once, and the    *)
(* last thread of each kind, which the end of the kernel waits for, is the *)
(* only one.  With more consoles both may ask at once, without a lock, and *)
(* what they read of each other's packages is not modelled.                *)
(***************************************************************************)
EXTENDS Paquetes, FiniteSets

CONSTANTS
    Kernels,        \* the kernel and the ones started after it ended, in order
    Mensajes,       \* the values sent, by operation code
    MaxPedidos,     \* requests of kernel, CPU and filesystem
    OperadorEspera  \* console and exit come once memoria has started

VARIABLES
    est,        \* where each process is
    con,        \* each connection <<client, server>>
    flujo,      \* the cells on their way, of each connection and direction
    vuelo,      \* history: the messages they stand for
    visto,      \* history: last message received, as it was sent and as it was read
    espera,     \* the client of the connection waits for an answer
    atiende,    \* the request the server of the connection works on
    accept_connections,
    en_accept,  \* thr_server of memoria is in client_wait
    servidor,   \* thr_server of memoria: the connection whose handshake it is in
    conectados, \* fs_connected, cpu_connected, kernel_connected
    ultimo,     \* thr_server_conn: the thread end_memory_server waits for
    lista,      \* start_memory is over
    end_program_flag,
    proceso,    \* the process of the console
    pedidos,
    enOrden     \* history: every process was started once those before it listened

memvars == <<accept_connections, en_accept, servidor, conectados, ultimo, lista, end_program_flag>>
datos == <<flujo, vuelo, visto, espera, atiende>>
vars == <<est, con, datos, memvars, proceso, pedidos, enOrden>>

Modulos == {"memoria", "cpu", "fs"}
Procesos == Modulos \cup {"consola"} \cup {Kernels[n] : n \in DOMAIN Kernels}
EsKernel(p) == p \in Procesos \ (Modulos \cup {"consola"})
Rol(p) == IF EsKernel(p) THEN "kernel" ELSE p

Conexiones ==
    {<<p, "memoria">> : p \in Procesos \ {"memoria", "consola"}}
      \cup {c \in Procesos \X {"cpu", "fs"} : EsKernel(c[1])}
      \cup {c \in {"consola"} \X Procesos : EsKernel(c[2])}

nada == [op |-> "nada"]
Canales == Conexiones \X {"ida", "vuelta"}

Init ==
    /\ est = [p \in Procesos |-> "no"]
    /\ con = [c \in Conexiones |-> "no"]
    /\ flujo = [x \in Canales |-> <<>>]
    /\ vuelo = [x \in Canales |-> <<>>]
    /\ visto = <<nada, nada>>
    /\ espera = [c \in Conexiones |-> FALSE]
    /\ atiende = [c \in Conexiones |-> nada]
    /\ accept_connections = TRUE /\ en_accept = TRUE
    /\ servidor = {} /\ conectados = {} /\ ultimo = {}
    /\ lista = FALSE /\ end_program_flag = FALSE
    /\ proceso = "nada"
    /\ pedidos = 0
    /\ enOrden = TRUE

-----------------------------------------------------------------------------
(* Processes                                                               *)

\* The listening socket of CPU and filesystem is closed when their one client goes.
Escuchando(p) ==
    \/ p = "memoria" /\ est[p] = "corre"
    \/ p \in {"cpu", "fs"} /\ est[p] \in {"escucha", "handshake", "atiende"}
    \/ EsKernel(p) /\ est[p] = "sirve"

\* The server a process connects to first.
Primero(p) == IF p = "consola" THEN {Kernels[n] : n \in DOMAIN Kernels} ELSE {"memoria"}

\* README: memoria, filesystem, CPU, kernel, consoles.
Antes(p) ==
    CASE p = "memoria" -> {}
      [] p = "fs"      -> {"memoria"}
      [] p = "cpu"     -> {"memoria", "fs"}
      [] EsKernel(p)   -> Modulos
      [] p = "consola" -> {}

Arrancar(p) ==
    /\ est[p] = "no"
    /\ \A n \in DOMAIN Kernels : p = Kernels[n] /\ n > 1 => est[Kernels[n - 1]] = "fin"
    /\ p = "consola" /\ OperadorEspera => lista
    /\ est' = [est EXCEPT ![p] = IF p = "memoria" THEN "corre" ELSE "conecta"]
    /\ enOrden' = (enOrden /\ \A q \in Antes(p) : Escuchando(q))
    /\ UNCHANGED <<con, datos, memvars, proceso, pedidos>>

\* The end of a process closes its sockets; what it had sent can still be read.
Muerta(c) == con[c] = "cerrada" \/ est[c[1]] = "fin" \/ est[c[2]] = "fin"

-----------------------------------------------------------------------------
(* The client's side (create_connection, hs_client_to_module_valid)        *)

\* start_modules_client goes through all three, whatever happened with the others.
Destinos == <<"memoria", "cpu", "fs">>
Intentado(p, s) == con[<<p, s>>] # "no"
Acordada(c) == con[c] \in {"confirmada", "aceptada", "ignorada", "cerrada"}

\* The server p tries next.
Destino(p) ==
    CASE EsKernel(p) ->
           {Destinos[n] : n \in {n \in 1..3 : /\ ~Intentado(p, Destinos[n])
                                             /\ \A j \in 1..(n - 1) : Intentado(p, Destinos[j])}}
      [] p = "consola" -> {k \in Primero(p) : est[k] = "sirve" /\ ~Intentado(p, k)}
      [] OTHER -> {"memoria"} \ {s \in {"memoria"} : Intentado(p, s)}

\* Where p is once its connection to s has the state given.  The filesystem does not
\* look at the result.  The CPU frees what it has and goes on to its server with it:
\* it may die or not.  The kernel needs the three.
Tras(p, s, estado) ==
    CASE p = "fs"      -> {"escucha"}
      [] p = "cpu"     -> IF estado = "confirmada" THEN {"escucha"} ELSE {"escucha", "fin"}
      [] p = "consola" -> IF estado = "confirmada" THEN {"pide"} ELSE {"fin"}
      [] EsKernel(p)   -> IF s # "fs" THEN {"conecta"}
                          ELSE IF /\ estado = "confirmada"
                                  /\ Acordada(<<p, "memoria">>) /\ Acordada(<<p, "cpu">>)
                               THEN {"sirve"} ELSE {"fin"}

Conectar(p) ==
    /\ est[p] = "conecta"
    /\ \A c \in Conexiones : c[1] = p => con[c] \notin {"cola", "respondida"}
    /\ \E s \in Destino(p) :
         IF Escuchando(s)
         THEN /\ con' = [con EXCEPT ![<<p, s>>] = "cola"]
              /\ UNCHANGED est
         ELSE /\ con' = [con EXCEPT ![<<p, s>>] = "fallida"]
              /\ \E e \in Tras(p, s, "fallida") : est' = [est EXCEPT ![p] = e]
    /\ UNCHANGED <<datos, memvars, proceso, pedidos, enOrden>>

\* Its code arrives and is the expected one: HSOK.  Or the server is gone: HSFAIL.
hs_client_to_module_valid(c) ==
    /\ est[c[1]] = "conecta"
    /\ \E estado \in {"confirmada", "fallida"} :
         /\ IF estado = "confirmada"
            THEN con[c] = "respondida"
            ELSE con[c] = "cola" /\ Muerta(c)
         /\ con' = [con EXCEPT ![c] = estado]
         /\ \E e \in Tras(c[1], c[2], estado) : est' = [est EXCEPT ![c[1]] = e]
    /\ UNCHANGED <<datos, memvars, proceso, pedidos, enOrden>>

-----------------------------------------------------------------------------
(* The server's side                                                       *)

\* client_wait, and the first half of the handshake.  CPU and filesystem take one
\* client; memoria takes them until the three modules are connected.
client_wait(c) ==
    /\ con[c] = "cola" /\ ~Muerta(c)
    /\ con' = [con EXCEPT ![c] = "respondida"]
    /\ CASE c[2] = "memoria" ->
              /\ en_accept
              /\ en_accept' = FALSE /\ servidor' = {c}
              /\ UNCHANGED est
         [] c[2] \in {"cpu", "fs"} ->
              /\ est[c[2]] = "escucha"
              /\ est' = [est EXCEPT ![c[2]] = "handshake"]
              /\ UNCHANGED <<en_accept, servidor>>
         [] OTHER -> UNCHANGED <<est, en_accept, servidor>>
    /\ UNCHANGED <<datos, accept_connections, conectados, ultimo, lista, end_program_flag,
                   proceso, pedidos, enOrden>>

\* Mutant: every connection is taken for the first one of its module.
verify_existence_moduleNunca(r) == FALSE

verify_existence_module(r) == r \in conectados

\* Mutant: one module short.
FaltanModulosUnoMenos(cs) == Cardinality(cs) < 2

FaltanModulos(cs) == Cardinality(cs) < 3

\* HSOK has arrived, maybe from a client that ended since.  A module that memoria has
\* already gets no thread, and its socket stays open.
hs_server_to_module_valid(c) ==
    /\ con[c] = "confirmada" /\ est[c[2]] # "fin"
    /\ LET r == Rol(c[1]) IN
       IF c[2] = "memoria"
       THEN /\ servidor' = {}
            /\ con' = [con EXCEPT ![c] = IF verify_existence_module(r) THEN "ignorada"
                                                                       ELSE "aceptada"]
            /\ conectados' = conectados \cup {r}
            /\ ultimo' = IF verify_existence_module(r) \/ ~accept_connections THEN ultimo ELSE {c}
            /\ accept_connections' = (accept_connections /\ FaltanModulos(conectados'))
            /\ en_accept' = accept_connections'
            /\ UNCHANGED est
       ELSE /\ con' = [con EXCEPT ![c] = "aceptada"]
            /\ est' = IF c[2] \in {"cpu", "fs"} THEN [est EXCEPT ![c[2]] = "atiende"] ELSE est
            /\ UNCHANGED <<accept_connections, en_accept, servidor, conectados, ultimo>>
    /\ UNCHANGED <<datos, lista, end_program_flag, proceso, pedidos, enOrden>>

\* The main of memoria: it waits for the three, then start_memory.
start_memory ==
    /\ est["memoria"] = "corre" /\ ~lista /\ ~end_program_flag
    /\ conectados = {"fs", "cpu", "kernel"}
    /\ lista' = TRUE
    /\ UNCHANGED <<est, con, datos, accept_connections, en_accept, servidor, conectados,
                   ultimo, end_program_flag, proceso, pedidos, enOrden>>

\* The main of memoria sees the flag, or the operator brings it to the end of its menu.
\* The server thread may be in client_wait and take one more client before it looks.
end_memory_server ==
    /\ est["memoria"] = "corre" /\ end_program_flag
    /\ accept_connections \/ en_accept
    /\ accept_connections' = FALSE
    /\ en_accept' = (en_accept /\ accept_connections)
    /\ UNCHANGED <<est, con, datos, servidor, conectados, ultimo, lista, end_program_flag,
                   proceso, pedidos, enOrden>>

\* It has waited for the server thread and for the thread that was the last one then.
FinMemoria ==
    /\ est["memoria"] = "corre" /\ end_program_flag /\ ~accept_connections
    /\ ~en_accept /\ servidor = {} /\ \A c \in ultimo : con[c] = "cerrada"
    /\ est' = [est EXCEPT !["memoria"] = "fin"]
    /\ UNCHANGED <<con, datos, memvars, proceso, pedidos, enOrden>>

-----------------------------------------------------------------------------
(* Packages                                                                *)

\* package_send of the message ms[x] on each channel x of its domain.
Mandar(ms) ==
    /\ flujo' = [x \in Canales |-> IF x \in DOMAIN ms THEN flujo[x] \o package_send(ms[x])
                                                     ELSE flujo[x]]
    /\ vuelo' = [x \in Canales |-> IF x \in DOMAIN ms THEN Append(vuelo[x], ms[x]) ELSE vuelo[x]]

Leido(c, d) == package_recv(flujo[<<c, d>>])

\* get_package takes the first package of the stream.
Sacar(c, d) ==
    /\ flujo[<<c, d>>] # <<>>
    /\ visto' = <<Head(vuelo[<<c, d>>]), Leido(c, d).mensaje>>
    /\ flujo' = [flujo EXCEPT ![<<c, d>>] = Leido(c, d).resto]
    /\ vuelo' = [vuelo EXCEPT ![<<c, d>>] = Tail(@)]

De(op) == {[op |-> op, valor |-> v] : v \in Mensajes[op]}
END == [op |-> "END", valor |-> 0]
Estado(s) == [op |-> "PID_STATUS", valor |-> [pid |-> 1, status |-> s]]
PROCESS_END == Estado("PROCESS_END")

Trabajando(p) == \E c \in Conexiones : c[2] = p /\ atiende[c] # nada
Esperando(p) == \E c \in Conexiones : c[1] = p /\ espera[c]

\* What each client asks of each server.
Pedidos(c) ==
    IF EsKernel(c[1])
    THEN CASE c[2] = "memoria" -> De("PID_STATUS") \cup De("PID_INSTRUCCION") \cup De("COMPACTAR")
           [] c[2] = "cpu"     -> De("PCONTEXTO")
           [] c[2] = "fs"      -> De("INSTRUCCION")
    ELSE IF c[1] = "consola" THEN De("INSTRUCCIONES") ELSE De("INFO_READ") \cup De("INFO_WRITE")

\* CPU and filesystem ask memoria only while they work for the kernel.  Each client has
\* one thread that asks on a connection at a time: with one console, the kernel too.
Pedir(c) ==
    /\ ~Muerta(c) /\ Acordada(c) /\ ~espera[c]
    /\ \/ EsKernel(c[1]) /\ est[c[1]] = "sirve" /\ proceso = "vivo" /\ pedidos < MaxPedidos
       \/ c[1] \in {"cpu", "fs"} /\ Trabajando(c[1]) /\ pedidos < MaxPedidos
       \/ c[1] = "consola" /\ est[c[1]] = "pide"
    /\ \E m \in Pedidos(c) : Mandar([x \in {<<c, "ida">>} |-> m])
    /\ espera' = [espera EXCEPT ![c] = TRUE]
    /\ IF c[1] = "consola" THEN est' = [est EXCEPT ![c[1]] = "espera"] /\ UNCHANGED pedidos
                           ELSE pedidos' = pedidos + 1 /\ UNCHANGED est
    /\ UNCHANGED <<con, visto, atiende, memvars, proceso, enOrden>>

\* Mutant: memoria answers neither of the two statuses.
SinContestacionNunca(m) == m.op = "PID_STATUS"

\* handle_pid_status: PROCESS_END is not answered.
SinContestacion(m) == m = PROCESS_END

\* The loop of a server thread gets a request.  Before start_memory memoria has no
\* tables to serve it with, and dies.
get_package(c) ==
    /\ con[c] = "aceptada" /\ est[c[2]] # "fin" /\ atiende[c] = nada
    /\ flujo[<<c, "ida">>] # <<>> /\ Leido(c, "ida").mensaje.op # "END"
    /\ Sacar(c, "ida")
    /\ LET m == Leido(c, "ida").mensaje IN
       IF c[2] = "memoria" /\ ~lista
       THEN est' = [est EXCEPT !["memoria"] = "fin"] /\ UNCHANGED <<atiende, proceso>>
       ELSE /\ atiende' = [atiende EXCEPT ![c] = IF SinContestacion(m) THEN nada ELSE m]
            /\ proceso' = IF c[1] = "consola" THEN "vivo" ELSE proceso
            /\ UNCHANGED est
    /\ UNCHANGED <<con, espera, memvars, pedidos, enOrden>>

\* The operation codes a request may be answered with.
Respuestas(m) ==
    CASE m.op = "PID_STATUS"  -> {"TSEGMENTOS"}
      [] m.op = "PID_INSTRUCCION" -> IF m.valor.instruccion.identificador = "CREATE_SEGMENT"
                                     THEN {"SEGMENTO", "STATUS_CODE"} ELSE {"TSEGMENTOS"}
      [] m.op = "COMPACTAR"   -> {"LTSEGMENTOS"}
      [] m.op = "INFO_READ"   -> {"INFO", "STATUS_CODE"}
      [] m.op = "INFO_WRITE"  -> {"STATUS_CODE"}
      [] m.op = "PCONTEXTO"   -> {"PCONTEXTODESALOJO"}
      [] m.op = "INSTRUCCION" -> {"STATUS_CODE"}
      [] m.op = "INSTRUCCIONES" -> {"PID_STATUS"}

Responder(c) ==
    /\ atiende[c] # nada /\ est[c[2]] # "fin" /\ ~(c[2] \in {"cpu", "fs"} /\ Esperando(c[2]))
    /\ \E op \in Respuestas(atiende[c]) : \E m \in De(op) : Mandar([x \in {<<c, "vuelta">>} |-> m])
    /\ atiende' = [atiende EXCEPT ![c] = nada]
    /\ UNCHANGED <<est, con, visto, espera, memvars, proceso, pedidos, enOrden>>

\* The client reads its answer; a console goes on to wait for the end of its process.
RecibirRespuesta(c) ==
    /\ espera[c] /\ est[c[1]] # "fin"
    /\ Sacar(c, "vuelta")
    /\ espera' = [espera EXCEPT ![c] = FALSE]
    /\ est' = IF c[1] = "consola" THEN [est EXCEPT ![c[1]] = "espera fin"] ELSE est
    /\ UNCHANGED <<con, atiende, memvars, proceso, pedidos, enOrden>>

\* recv finds the other end closed: the client goes on with whatever the package holds,
\* taken for an answer or for an error, or dies of reading it.
SinRespuesta(c) ==
    /\ espera[c] /\ est[c[1]] # "fin" /\ Muerta(c) /\ flujo[<<c, "vuelta">>] = <<>>
    /\ espera' = [espera EXCEPT ![c] = FALSE]
    /\ \/ est' = IF c[1] = "consola" THEN [est EXCEPT ![c[1]] = "espera fin"] ELSE est
       \/ est' = [est EXCEPT ![c[1]] = "fin"]
    /\ UNCHANGED <<con, flujo, vuelo, visto, atiende, memvars, proceso, pedidos, enOrden>>

-----------------------------------------------------------------------------
(* Ends                                                                    *)

\* EXIT of the process: PROCESS_END to memoria, its status to the console.
TerminarProceso(k) ==
    /\ est[k] = "sirve" /\ proceso = "vivo" /\ ~Esperando(k)
    /\ atiende[<<"consola", k>>] = nada
    /\ Mandar([x \in {<<<<k, "memoria">>, "ida">>, <<<<"consola", k>>, "vuelta">>} |->
                  IF x[2] = "ida" THEN PROCESS_END ELSE Estado("SUCCESS")])
    /\ proceso' = "terminado"
    /\ UNCHANGED <<est, con, visto, espera, atiende, memvars, pedidos, enOrden>>

\* wait_end: the status, or the other end closed.
wait_end(k) ==
    /\ est["consola"] = "espera fin" /\ con[<<"consola", k>>] # "no"
    /\ \/ Sacar(<<"consola", k>>, "vuelta")
       \/ /\ flujo[<<<<"consola", k>>, "vuelta">>] = <<>> /\ est[k] = "fin"
          /\ UNCHANGED <<flujo, vuelo, visto>>
    /\ est' = [est EXCEPT !["consola"] = "fin"]
    /\ UNCHANGED <<con, espera, atiende, memvars, proceso, pedidos, enOrden>>

\* The operator ends the kernel: it waits for its threads, a console that waits is told
\* PROCESS_ABORTED, and free_modules_client says END to the three.
Salir(k) ==
    /\ est[k] = "sirve" /\ (OperadorEspera => lista)
    /\ ~Esperando(k) /\ atiende[<<"consola", k>>] = nada
    /\ con[<<"consola", k>>] \notin {"respondida", "confirmada"}
    /\ LET abortados == IF proceso = "vivo" THEN {<<<<"consola", k>>, "vuelta">>} ELSE {}
       IN Mandar([x \in (({k} \X Modulos) \X {"ida"}) \cup abortados |->
                    IF x[2] = "ida" THEN END ELSE Estado("PROCESS_ABORTED")])
    /\ est' = [est EXCEPT ![k] = "fin"]
    /\ UNCHANGED <<con, visto, espera, atiende, memvars, proceso, pedidos, enOrden>>

\* Mutant: memoria goes on without its kernel.
FinBucleSinFlag(c) ==
    /\ con' = [con EXCEPT ![c] = "cerrada"]
    /\ IF c[2] = "memoria"
       THEN UNCHANGED <<est, flujo, vuelo, end_program_flag>>
       ELSE /\ est' = [est EXCEPT ![c[2]] = "fin"]
            /\ Mandar([x \in {y \in Conexiones : y[1] = c[2] /\ Acordada(y)} \X {"ida"} |-> END])
            /\ UNCHANGED end_program_flag

\* The loop of a server thread is over.  The one of the kernel ends memoria; the one
\* process_client of CPU and filesystem ends the process, with an END for memoria.
FinBucle(c) ==
    /\ con' = [con EXCEPT ![c] = "cerrada"]
    /\ IF c[2] = "memoria"
       THEN /\ end_program_flag' = (end_program_flag \/ EsKernel(c[1]))
            /\ UNCHANGED <<est, flujo, vuelo>>
       ELSE /\ est' = [est EXCEPT ![c[2]] = "fin"]
            /\ Mandar([x \in {y \in Conexiones : y[1] = c[2] /\ Acordada(y)} \X {"ida"} |-> END])
            /\ UNCHANGED end_program_flag

EnGetPackage(c) ==
    /\ con[c] = "aceptada" /\ c[2] \in Modulos /\ est[c[2]] # "fin" /\ atiende[c] = nada

\* END arrives; it is the last package of its stream.
RecibirEnd(c) ==
    /\ EnGetPackage(c)
    /\ flujo[<<c, "ida">>] # <<>> /\ Leido(c, "ida").mensaje.op = "END"
    /\ visto' = <<Head(vuelo[<<c, "ida">>]), Leido(c, "ida").mensaje>>
    /\ FinBucle(c)
    /\ UNCHANGED <<espera, atiende, accept_connections, en_accept, servidor, conectados, ultimo, lista,
                   proceso, pedidos, enOrden>>

\* recv finds the other end closed and leaves the operation code as malloc gave it: the
\* loop ends, or the process dies of what it makes of it, or the code is one that the
\* loop serves, to nobody, and it goes round to recv again.
SinCliente(c) ==
    /\ EnGetPackage(c)
    /\ flujo[<<c, "ida">>] = <<>> /\ est[c[1]] = "fin"
    /\ \/ FinBucle(c)
       \/ /\ est' = [est EXCEPT ![c[2]] = "fin"]
          /\ UNCHANGED <<con, flujo, vuelo, end_program_flag>>
       \/ UNCHANGED <<est, con, flujo, vuelo, end_program_flag>>
    /\ UNCHANGED <<visto, espera, atiende, accept_connections, en_accept, servidor, conectados, ultimo,
                   lista, proceso, pedidos, enOrden>>

-----------------------------------------------------------------------------
Paso(c) ==
    \/ hs_client_to_module_valid(c) \/ client_wait(c) \/ hs_server_to_module_valid(c)
    \/ get_package(c) \/ Responder(c) \/ RecibirRespuesta(c) \/ SinRespuesta(c)
    \/ RecibirEnd(c) \/ SinCliente(c)

Next ==
    \/ \E p \in Procesos : Arrancar(p) \/ Conectar(p)
    \/ start_memory \/ end_memory_server \/ FinMemoria
    \/ \E c \in Conexiones : Paso(c) \/ Pedir(c)
    \/ \E k \in Procesos : EsKernel(k) /\ (TerminarProceso(k) \/ wait_end(k) \/ Salir(k))

Spec == Init /\ [][Next]_vars

\* Whatever a running thread can do: all of it but what a person starts, asks or ends.
Avanza ==
    \/ \E p \in Procesos : Conectar(p)
    \/ start_memory
    \/ \E c \in Conexiones : Paso(c)

\* Some thread runs on as long as one can; that is enough, since what is asked for is
\* bounded and no step is undone.  A loop that serves an operation code nobody sent (see
\* SinCliente) is taken to come, some time, upon one that it does not serve.
FairSpec == Spec /\ WF_vars(Avanza)

-----------------------------------------------------------------------------
(* Properties                                                              *)

\* What a process reads from a connection is what the other one sent, in its order,
\* and nothing of a package stays behind for the next one to begin with, when one thread
\* of the process reads it at a time, which is so with one console.
RecibeLoEnviado ==
    /\ visto[1] = visto[2]
    /\ \A c \in Conexiones, d \in {"ida", "vuelta"} : flujo[<<c, d>>] = <<>> <=> vuelo[<<c, d>>] = <<>>

\* memoria serves one connection of each module, also when a kernel that failed is
\* started again while the thread of the first one is still there.
UnaPorModulo ==
    \A a, b \in {c \in Conexiones : c[2] = "memoria" /\ con[c] \in {"aceptada", "cerrada"}} :
        Rol(a[1]) = Rol(b[1]) => a = b

\* The kernel got to serve consoles: only then does it end after a handshake with all.
Sirvio(k) == est[k] = "sirve" \/ (est[k] = "fin" /\ \A s \in Modulos : Acordada(<<k, s>>))

\* Started in the order of the README, each once those before it listen, the system
\* comes up: no handshake waits for another one, memoria starts and the kernel serves.
Arranque ==
    <>[](enOrden /\ est[Kernels[1]] # "no" => lista /\ Sirvio(Kernels[1]))

\* A kernel that ends, at its end or because it could not connect to all of them, takes
\* with it every module whose handshake with it was over.
Cierre ==
    <>[](\A c \in Conexiones :
           EsKernel(c[1]) /\ est[c[1]] = "fin" /\ con[c] \in {"confirmada", "aceptada", "cerrada"} =>
             est[c[2]] = "fin" \/ (c[2] = "memoria" /\ end_program_flag))

\* In the end nobody waits for an answer: each request got one, or its client learned
\* that there will be none; except those of a module that memoria did not take.
Respondido ==
    <>[](\A c \in Conexiones : espera[c] => con[c] = "ignorada" \/ est[c[1]] = "fin")
=============================================================================
