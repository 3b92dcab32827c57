# TUKI / KernelFlow in TLA+

TLA+ models of the modules of this repository (TP Sistemas Operativos 1C 2023, "TUKI"), their
TLC configurations and machine-checked proofs. Paths below are relative to the repository (`src/`).
Definitions keep the names of the C functions they model; `PROJECT.json` gives the lines of each.

## 1. The system

| Component | State | Operations | Talks to |
|---|---|---|---|
| **kernel**: queues and core (`queue_controller.c`, `kernel_core.c`) | five queues, one mutex each; `mutex_NEW_to_READY` | admission, dispatch, once a second | consoles (threads), CPU |
| **kernel**: cycle and EXIT (`kernel_cycle.c`) | the pcb in EXEC, `next_queue`, `exit_status` | `EXEC` (recursive), `EXIT` | CPU, memoria |
| **kernel**: system calls (`kernel_instructions.c`) | `compactation_flag`, `mutex_fs_connection`; threads `io`, `file_processing` | one handler per instruction | memoria, filesystem |
| **kernel**: resources and files (`kernel_sources.c`) | `t_recurso`: instances and waiting list; `archivos_abiertos`; tables of a pcb | WAIT, SIGNAL, F_OPEN, F_CLOSE, EXIT | |
| **kernel**: consoles (`server_handle.c`), menu (`print_information.c`), planner (`planner.c`) | one thread per console; `end_program_flag` | new process, end of process, kill, shut down | consola |
| **memoria** (`segmentos.c`, `algoritmos.c`, `compactacion.c`, `modulos.c`, `utils.c`) | segment tables, bitmap, `memory_space` | PROCESS_NEW / END, CREATE / DELETE_SEGMENT, compaction, read / write | kernel, CPU, filesystem |
| **filesystem** (`filesystem_*.c`) | FCBs, bitmap, blocks (files of the host, mmap) | open, create, truncate, read, write | kernel, memoria |
| **cpu** (`cpu/src`) | registers, the context it runs, `ejecutando`, `seg_fault` | fetch, decode, execute, MMU | kernel, memoria |
| servers and clients (`memory_server.c`, `server_handle.c`, `client_handle.c`, the `main`s) | who is connected, `accept_connections`, `end_program_flag` | start, connect, handshake, serve, end | all |
| **libs** (`package.c`, `communication.c`, `server.c`, `client.c`) | the streams | write and read each type, send, receive, handshake | all |
| **consola** | none that outlives a call | parse, send a program, wait for its end | kernel |

A process goes NEW -> READY -> EXEC -> READY / BLOCK / EXIT. The core sends its context to the CPU,
which evicts it with an instruction; a handler answers whether EXEC goes on with it (`true`,
recursion) or the core moves it to `next_queue`. Long work (I/O, F_READ, F_WRITE, F_TRUNCATE) is left
to detached threads that move the process from BLOCK themselves. Three modules are servers; the
kernel has one socket to each, shared by all of its threads.

What is hard here, and what makes each part correct:

- **kernel**: core, consoles' threads, file and I/O threads and the menu move the same pcbs, with a
  mutex per queue and none per pcb or `t_recurso`. A process has to be in exactly one queue
  (`EstadoUnico`), a blocked one needs somebody who will wake it (`BloqueadoTieneDespertador`),
  instances and files may not be lost when a process ends (`RecursoCuadra`, `ArchivoExclusivo`,
  `RestoLimpio`), also between the steps of another handler (`CuentaCuadra`, `DespertadorUnico`), and
  no process may get lost when it is killed or moved by several threads (`SiempreEnCola`, `ExitDefinitivo`),
  a compaction may not meet a file operation (`CompactaSinFS`), consoles have to be answered
  (`ConsolaInformada`, `TodosTerminan`).
- **memoria**: the bitmap is the only record of free space and has to agree with the tables
  (`BitmapExacto`, `SegmentosDisjuntos`); compaction moves segments one at a time with the same
  placement algorithms, has to end (`CompactacionTermina`), to make the room it was asked for
  (`ReintentoAlcanza`) and to keep every content (`ImplementaAbs`).
- **filesystem**: bitmap and pointer blocks change at once, the FCB at the end of a truncation
  (`BloquesExclusivos`, `SinFugas`, `TamanioCubierto`); an access is split over the direct block and the
  indirect ones by its own arithmetic (`SeguraEsExacta`, `ImplementaAbs`).
- **cpu** and the four together: a segment table has a copy in memoria, in the PCB and in the context,
  and compactions and other processes change the first one (`TablaVigente`); an address is translated
  by the CPU and used by a thread and the filesystem later (`SoloCompactarDesactualiza`); and of all this a program
  may see nothing (`ImplementaMaquina`).
- **connections**: readers and writers of a package agree only by offsets (`RecibeLoEnviado`); memoria has
  one thread in the handshake and one per module, and starts when the three are there (`Arranque`,
  `UnaPorModulo`); the end of the kernel is what ends everybody (`Cierre`); a process that waits for an
  answer learns when there will be none (`Respondido`).

## 2. Modules

| Module | Models |
|---|---|
| `Kernel` | the kernel with EXIT in the core; CPU, memoria and filesystem through their sockets |
| `KernelHilos` | EXIT in other threads, kills, and what the kernel does without a lock, access by access |
| `Memoria` | memoria; `MemoriaAbs` is what it promises: segments with a content and no addresses |
| `FileSystem` | filesystem; `ArchivosAbs` is what it promises: files of bytes and no blocks |
| `Cpu` | the cpu: MMU, checks, cycle, evictions, as actions to be composed |
| `Tuki` | kernel, `Cpu`, `Memoria` and the memory side of the filesystem, composed; `MaquinaAbs` is what they promise to a program: a machine of its own |
| `Paquetes` | what each type is as a stream and how it is read back |
| `Conexion` | all processes with their connections, handshakes, package loops and ends; uses `Paquetes` |
| `MCKernel`, `MCKernelHilos`, `MCMemoria`, `MCFileSystem`, `MCTuki`, `MCConexion` | instances for TLC |
| `Listas` | lemmas on sequences, and the least element of a set of naturals |
| `KernelProofs`, `KernelCicloProofs` | proofs about `Kernel`: types, sockets, mutexes and accounting; queues and the life of a process |
| `MemoriaProofs` | proofs about `Memoria`, and that it implements `MemoriaAbs` |
| `FileSystemProofs`, `FileSystemCopiasProofs` | proofs about `FileSystem`: blocks; copies and types |
| `TukiProofs`, `ConexionProofs` | proofs about `Tuki` and `Conexion` |

### Kernel

A step is what a thread does between two points where another one can get in. `pc` says where the
core and each client thread is; `saliendo[p]` how far `EXIT(p)` is (`EXIT` is one step
per file and resource); `tareas` are the threads `io` and `file_processing`. Of memoria there are its
tables (`enMemoria`) and the answers on the one socket (`sockMem`): a request is served when it is sent,
and its answer goes to whichever thread receives next, whole. `get_actual_multiprog` is three readings, each
under its own mutex. A NULL dereference is `caida`: nothing runs after it.

**Only the core.** The code takes no lock for the fields of a `t_recurso`, nor between finding the head of READY and
moving it. `Kernel` takes each of those handlers as one step, and so leaves out the threads that would come in
between: operations on open files do not fail, so `file_processing` never runs EXIT, and the
operator kills nobody. A process that a client thread could not admit holds nothing. That the core is then the only
one to run EXIT of a process that holds something is not taken on trust: theorem `KernelSoloElCore`. Everything that `Kernel`'s
properties and theorems say of semaphores, files and the dispatch is said under this restriction;
what happens without it is in `KernelHilos`.

Payloads (file pointers, sizes, addresses, registers) are left out, and HRRN is a free choice among
READY because burst estimates are times. Operations of a queue under its mutex are atomic, as is the
unlocked read of `search_pid`. The sort that HRRN does without the mutex is not modelled as a race.

Assumptions a configuration may make, each a constant:

| Constant | Meaning |
|---|---|
| `Disciplinado` | programs SIGNAL what they hold and use only files they opened, once |
| `EsperaAnidada = FALSE` | programs do not WAIT or F_OPEN while they hold something |
| `Carrera = FALSE` | no thread is so quick that it moves a process before the core has put it in BLOCK (`Alcanzable`) |
| `FallaCPU`, `FallaFS` | the CPU answers no context; the filesystem refuses to open a file |
| `Apagado` | the operator shuts the kernel down |
| `MaxSyscalls` | bound: system calls of a process before its EXIT |

### KernelHilos

The core, the threads `io` and `file_processing`, and the menu, with their local variables in `hilo`:
the step, the pcb, the index of a loop, the `t_recurso` at hand, the value read of `instancias`. `instancias++` and
`instancias--` are a read and a write, and every test reads again. SIGNAL, F_CLOSE and the two loops of EXIT share
the steps that release a `t_recurso` (`Leer`, `Sumar`, `Buscar`, `Sacarse`, `Probar`, `Destruir`, `Sacar`, `Despertar`). The dispatch reads the
head of READY and then moves it; `kill_process` looks through one queue per step and then moves. A `t_recurso` that is
destroyed leaves the value `colgado` wherever somebody points to it, in the table of another process and in the
local variable of another thread; its use is `caida`, and what the kernel would do after it is not followed.

A call on a `t_list` is one step, although the waiting lists are locked only while their head is taken; admission, memoria and the
answers of the filesystem, except that an operation fails, are left out, and so are processes in NEW.

| Constant | Meaning |
|---|---|
| `Usa` | the semaphores and files each program names, and whether it does I/O |
| `FallaEn` | processes whose operations on an open file may fail: their thread runs EXIT |
| `Mata` | processes the operator may kill, once each |
| `Carrera`, `MaxSyscalls` | as in `Kernel` |

Once two threads are in the middle of the same `t_recurso`, or one takes a process through EXIT while another works for it,
the kernel can go wrong: an EXIT between `instancias--` and `list_add` of a WAIT sees a negative count and moves
the head of an empty list (NULL), two increments become one, F_OPEN adds its process to a list that EXIT has
freed, a process is taken through EXIT twice. All of this is in the run `Hilos`. `cruzados`, a history variable that no step reads,
keeps the `t_recurso`s and processes on which threads met, and the properties say that it takes that: until then counts,
waiting lists and open files agree (`CuentaCuadra`), who is blocked has one waker (`DespertadorUnico`)
and nothing falls (`CaidaSoloSiSeCruzan`), in spite of stale heads of READY, processes in two queues, kills and EXIT in any
thread; and in any case no process is lost and none leaves EXIT (`SiempreEnCola`, `ExitDefinitivo`).

### Memoria

One thread serves the kernel's requests, so a request is one action; the compaction is one action per
turn of its loop (`compact_memory` lifts the first segment after the first hole and places it again).
`fase` and `pedido` are the kernel's protocol of COMPACTATION_REQUIRED, compaction and retry, with
PROCESS_NEW and PROCESS_END of other threads in between. `segs` holds the segments of all tables,
`ocupado` the bitmap. `memcpy` of ranges that overlap is taken to copy as `memmove` does.
In `MemoriaAbs` a compaction is a pause in which no segment may change; without it a content spoiled by a move could pass
for a write.

`IdsPropios` assumes that live segments of different processes have different ids. Without it
DELETE_SEGMENT clears another process's bits (run `MemoriaIds`; what the code does after that, with a freed segment in
the other one's table, is not followed). The workload is restricted further, with any value of `IdsPropios`: a process asks for no
id that it has, and deletes only ids that it has, which the code does not check. It would keep two segments with one
id, dereference NULL for an id that nobody has, and for 0 clear the bits of segment 0.

### FileSystem

Requests are served one at a time. F_TRUNCATE is a first step (the direct block, or the blocks freed),
one step per indirect block, and `update_fcb`; `Parar` stops the process in between, after which it
starts again from what is on the disk. Pointer blocks (`punt`) and data (`datos`) are kept apart: what an
access does to a block that it mistakes for another is a write to the data of that block. F_READ and
F_WRITE are the set of bytes their copies move (`Movidos`), each with the block and offset the code
computes. In the later blocks of an access `cant_bytes` may go below zero and is compared with `block_size`, a
`uint32_t`: it counts as larger than any block and a whole block is copied (`MasDeUnBloque`). So an access that ends
with a block may be copied right although `cant_bytes` is wrong, and `Segura` has a clause for that. Copies may run
past the end of the stream, or past the blocks of the file: what is read there is any value, and the process may
fail (`PuedeCaer`). A pointer written past a full pointer array goes to the heap and is dropped.

| Constant | Meaning |
|---|---|
| `CopiaSegura` | programs keep to the accesses that are copied right (`Segura`) |
| `CeroDirecto` | block 0 is used as the first block of a file only (a pointer of 0 also means "none") |
| `HaySitio` | programs ask for no more blocks than are free |
| `FallaMemoria` | memoria refuses an address |
| `Paradas` | phases of a truncation in which the process may stop: `crece`, `guarda` |

### Cpu and Tuki

`Cpu` keeps the context it was sent, its registers and the instruction under way. Decode and execute
are one step, except that fetch comes first; the answers of memoria are parameters of `MOV_IN` and
`MOV_OUT`. A logical address is segment number and offset by `TAM_MAX_SEGMENTO`; a register is as many cells as it
has groups of four bytes. `Caer` is the two ways the process dies: the check of an access to a segment
that is not there reads the size of NULL, and after a fault of F_READ or F_WRITE the cycle reads
parameters 3 and 4, which the new list of `cambiar_dir_logica_a_fisica_files` has not.

`Tuki` takes the actions of `Cpu` and `Memoria` by INSTANCE and adds the part of the kernel that moves
contexts, tables and addresses: EXEC and its recursion (`Seguir` sends the PCB back at once), the handlers
of YIELD, EXIT, CREATE_SEGMENT, DELETE_SEGMENT, F_READ and F_WRITE, `compactar` with `actualizar_tablas`, and
`file_processing` from its start to the filesystem's access to memoria. What the file holds is any
value; what F_WRITE took is `archivo`. Queues, resources and files are in `Kernel` and not repeated.
`MaquinaAbs` has no contexts, addresses or compactions: a process has registers and segments, an
instruction has its effect once, and a process ends by EXIT, by an access that is not its own, or for
a segment that does not fit. The refinement mapping takes registers and program counter from the CPU, the eviction
or the PCB, wherever the process is, and contents from the cells of its segments.

| Constant | Meaning |
|---|---|
| `EsperaArchivos` | no compaction begins while a file operation is pending. The code does not see to it: run `DireccionVieja` |
| `IdsPropios` | as in `Memoria` |
| `MaxInstrucciones` | bound: instructions of a program, the last one EXIT |

### Paquetes and Conexion

A stream is a sequence of cells (a `uint32_t` is one, a parameter as many as it is long), so offsets,
counts and sizes are what they are in `package.c` and a reader that takes one cell too many is seen.
`flujo` has the cells on their way, `vuelo`, a history variable, the messages they were made of. `t_data`, `t_address` and
`t_open_files` have codecs that nothing uses. `recv` is called without `MSG_WAITALL`; the model takes it to give all it
was asked for, as it does for packages of this size on one host.

One console asks at a time in `Conexion`: with one console at most one process is being admitted or ended, the core
has no other one to run meanwhile, and so requests of the kernel on one socket do not overlap (`Pedir` lets one be
outstanding). With more consoles they do overlap on memoria's socket, which has no lock, and `RecibeLoEnviado` says nothing of that:
the core (`execute_create_segment`, `execute_delete_segment`) and an admitting thread can both be in `package_recv`, whose three `recv`s
then take parts of each other's packages. The kernel joins only the last thread of each kind before
it ends, which with one console is all there are (`Salir`).

In `Conexion` processes are started in any order and a kernel that ended may be followed by another one. A connection goes
`cola` (connected, not accepted), `respondida`, `confirmada` (HSOK sent), `aceptada` (has a loop that
reads it), `cerrada`; or `ignorada` (memoria has that module already: no thread, and the socket stays open) or
`fallida`. The end of a process closes its sockets: what it sent can be read, then `recv` gives nothing and the operation
code is whatever `malloc` left, so that the reader ends its loop, dies, or serves what it takes for a request and
goes round (`SinCliente`; that it is not fooled for ever is part of the fairness); who waits for an answer takes it
for an error or dies (`SinRespuesta`). The server thread of
memoria may be in `client_wait` when `end_memory_server` tells it to stop, and takes one more client. A request
that reaches memoria before `start_memory` kills it. After a failed connection the CPU frees its
structures and goes on with them: it may die or serve.

| Constant | Meaning |
|---|---|
| `OperadorEspera` | consoles start, and the operator ends the kernel, once memoria has started (it does so within a second of the last handshake). Otherwise `Arranque` fails: memoria dies of the request, or ends before it started |
| `MaxPedidos` | bound: requests of kernel, CPU and filesystem |

## 3. Runs

| Run | Instance | Result |
|---|---|---|
| `KernelRecursos` | 3 processes, 1 semaphore, degree 2, FIFO, 2 calls each of WAIT, SIGNAL, I_O | passes: the queues, semaphores and consoles stay consistent |
| `KernelArchivos` | 2 processes, 1 file, HRRN, segments and compaction, a CPU that fails, F_OPEN refused, shutdown | passes: one owner per file, no file operation during a compaction, EXIT leaves nothing |
| `KernelVida` | 2 processes, 1 semaphore, 1 file, YIELD, no nested waits, F_OPEN refused | passes: every process ends and its console is told |
| `Hilos` | 2 processes that share a semaphore and a file, 2 calls each, a failed file operation, a kill, `Carrera` | passes: accounts, waiting lists and pointers are right until two threads meet on one of them; nobody is lost from the queues nor leaves EXIT |
| `Memoria` | 5 cells with contents, 2 processes, 3 ids, sizes 1-3, the three algorithms | passes: bitmap exact, compaction ends and suffices; implements `MemoriaAbs` |
| `FsBloques` | 7 blocks, 2 files of up to 4 blocks, stops while growing | passes: no block with two uses, none lost |
| `FsRefina` | 8 blocks of 2 bytes, 1 file of up to 6, accesses of 1 to 5 blocks at every kind of offset | passes: implements `ArchivosAbs`; `Segura` is exact for every access to 10 bytes |
| `Tuki` | 2 processes of up to 5 instructions, 4 cells, segments of 1 and 2, registers of 1 and 2 cells, FIRST fit | passes: tables are current, addresses too unless a compaction overtakes them, each program has its own machine |
| `Conexion` | 2 kernels one after the other, 1 console, 2 requests, values of every type | passes: packages, start and end |
| `KernelCarrera` | `Carrera = TRUE`, I_O | violated: a process in two queues |
| `MemoriaIds` | `IdsPropios = FALSE` | violated: cells of a live segment are free |
| `DireccionVieja` | `Tuki` with `EsperaArchivos = FALSE` | violated: a file operation with an address from before a compaction |

The three violations are disagreements of the code with its comments, logs or test programs, quoted
under `findings`. The passing runs state the assumption that keeps each of them away, so that
everything else is still checked.

**Bounds.** Three processes are the fewest for two threads that admit while a third process runs and
holds a semaphore that both others want; two calls each suffice for WAIT-SIGNAL, WAIT-WAIT and
I_O-WAIT. `Hilos` gives every pair of steps of two processes, two of their threads, the core and the menu. With two processes and one file there is an owner, a waiter, a hand-over and a destruction.
Five cells, one of them segment 0, with sizes 1 to 3 have holes of equal and of different sizes, a hole at the last cell, and fragmentation that only a
compaction mends; what does not depend on contents is proved for every size. In `Tuki` four cells, one of them segment 0, are the fewest in which a segment moves under another
process's address: a segment is deleted before another one, and one of two cells needs both holes. Five
instructions let a process create, delete, access, create again and end. The ids, sizes and addresses of `MCTuki` include the
segment that is one too many, the one that is too large, and accesses that fit and that do not. In
`Conexion` a second kernel is enough for a module that memoria has already; the values of `MCMensajes` have
lists of none, one, two and three, and instructions with none to four parameters. Seven blocks are one and a half of the largest file, which has a direct block, a pointer
block and two indirect ones.

**Symmetry and views.** Processes and files are interchangeable in the safety runs that use
`Permutations` (`Tuki` too); no liveness property is checked with symmetry. `FsBloques` looks at states through
`Vigente`, which leaves out the last answer, which no step reads, and pointers in blocks that
no FCB names, which are overwritten before they are read.

**Deadlock** is checked except in `KernelArchivos`, where a second PROCESS_END (a CPU that fails in a
nested EXEC) crashes memoria and the model stops there, and in the runs of `Tuki`, `Conexion` and `KernelHilos`,
which stop when all programs, processes or requests have ended.

**Fairness.** `KernelVida` has weak fairness of every thread: they are POSIX threads that poll or
block on a call that is answered. `LockNewToReady` has strong fairness: the core releases
`mutex_NEW_to_READY` and sleeps a second in every turn (`process_queues`), and a client that is waiting
gets it then. `CompactacionTermina` has weak fairness of the loop of the compaction only. `Conexion` has weak
fairness of `Avanza`, some running thread that can go on does: connecting, accepting, reading and
answering are blocking calls that return once they can, or loops with a sleep. What people do (start
a process, use a console, end the kernel) and the end of memoria, which waits at its menu, are not fair. One fairness
condition for all is enough because requests are bounded and nothing is undone, so every thread gets its turn.

## 4. Proofs

The theorems hold for every value of the constants that satisfies the named ASSUMEs, not only for the
instances of the runs. Each has the shape `ASSUME H PROVE Spec => []P`; H is either empty or says, with the
constants of the model, which behaviour of the operator, the programs or the environment is left out, and
each H is there because the code fails without it. The theorems on `Kernel` also stand on its restriction to EXIT in the core
(section 2): they say nothing of failed file operations and kills, with which several of them are false of the code.

| Theorem | Property | Hypotheses | Inductive invariant |
|---|---|---|---|
| `KernelTipos` | `TypeOK` | none | `Tipos` |
| `KernelCompactaSinFS` | `CompactaSinFS` | none | `Tipos /\ MutexFS` |
| `KernelTablaPropia` | `TablaPropia` | `SinSegmentos` | `Tipos /\ SocketPropio` |
| `KernelRecursoCuadra` | `RecursoCuadra` | none | `Tipos /\ Cuentas` |
| `KernelSinNulos` | `KernelEnPie` | `SoloAbiertos` | `Tipos /\ Cuentas` |
| `KernelSoloElCore` | that only the core runs EXIT of a process that holds something | `SinCarreras` | `Invariante` |
| `KernelEstadoUnico` | `EstadoUnico` | `SinCarreras` | `Invariante` (with `Ciclo`) |
| `KernelSinCaida` | `SinCaida` | `SinCarreras`, `SoloAbiertos` | the same |
| `KernelRestoLimpio` | `RestoLimpio` | `SinCarreras` | with `Limpio` |
| `KernelBloqueadoTieneDespertador` | `BloqueadoTieneDespertador` | `SinCarreras`, `~Apagado`, no CREATE_SEGMENT | with `ConDespertador` |
| `KernelArchivoExclusivo` | `ArchivoExclusivo` | `SinCarreras`, `Disciplinado` | with `UnDuenio` |
| `KernelConsolaInformada` | `ConsolaInformada` | `SinCarreras`, `SinSegmentos`, `~Apagado` | with `SocketPropio`, `Dicho` |
| `MemoriaTipos` | `TypeOK` | `IdsPropios` | `IInv` |
| `MemoriaBitmapExacto` | `BitmapExacto` | `IdsPropios` | `IInv` |
| `MemoriaSegmentosDisjuntos` | `SegmentosDisjuntos` | `IdsPropios` | `IInv` |
| `MemoriaReintentoAlcanza` | `ReintentoAlcanza` | `IdsPropios` | `IInv /\ Espacio` |
| `MemoriaImplementaAbs` | `ImplementaAbs` | `IdsPropios` | `RInv` |
| `FileSystemTipos` | `TypeOK` | none | its own |
| `FileSystemSeguraEsExacta` | `SeguraEsExacta` | none | none needed |
| `FileSystemBloquesExclusivos` | `BloquesExclusivos` | `Holgado`, `"guarda" \notin Paradas` | `Tipos /\ Bloqueo` |
| `FileSystemTamanioCubierto` | `TamanioCubierto` | the same | the same |
| `FileSystemSinFugas` | `SinFugas` | `Holgado` | `Tipos /\ (IInv \/ paro)` |
| `FileSystemImplementaAbs` | `ImplementaAbs` | `Prudente` | `RInv` |
| `TukiTablaVigente` | `TablaVigente` | none | `Copias /\ Tareas` |
| `TukiSoloCompactarDesactualiza` | `SoloCompactarDesactualiza` | none | with `UnoEnCpu`, `Traducida`, `Excluidos` |
| `TukiImplementaMaquina` | `ImplementaMaquina` | `EsperaArchivos`, `IdsPropios`, `ProgramasTipados` | `Ejecucion` |
| `UnaConexionPorModulo` | `UnaPorModulo` | none | with `Marcados` |
| `SeRecibeLoEnviado` | `RecibeLoEnviado` | `MensajesTipados` | `CInv` |

**Why the hypotheses.** `SinCarreras` is `~Carrera` and `~FallaCPU`: the race of run
`KernelCarrera`, and the second EXIT after a CPU that fails in a nested EXEC, put a process in two queues. `SoloAbiertos`: F_READ and F_WRITE of a file that is not open
dereference NULL. `SinSegmentos`: the core's requests of segments take no lock, so answers on the socket of memoria can
be crossed. No CREATE_SEGMENT, for `BloqueadoTieneDespertador` only: MAX_SEG_QUANTITY_REACHED leaves the `next_queue` of an
earlier call. `~Apagado`: the end of the kernel leaves processes in BLOCK with nobody to wake them, and writes
statuses. `Disciplinado`: a program that
opens a file twice waits for itself. `IdsPropios`: run `MemoriaIds`. `Holgado` is `HaySitio /\ CeroDirecto`, and `"guarda" \notin
Paradas`: a stop between freeing the blocks of a file and `update_fcb` leaves an FCB that names free blocks. `Prudente` is both of these, `CopiaSegura`
(the other accesses are copied wrong, which is what `Segura` says exactly) and `~FallaMemoria` (an F_WRITE whose data memoria refuses is
answered as if it had been written). `EsperaArchivos`: run `DireccionVieja`. `MensajesTipados`: each value sent has the C type of its operation code,
made of cells that are numbers or names, with parameters, lists and tables of any length and registers of the widths of `Anchos`; `MCMensajes` are such values.
`ProgramasTipados`: registers of the CPU, ids and sizes of the instance and SET values no longer than the register (a longer one is written past it);
`MCTuki` assumes it of its programs (`InstanciaTipada`), so TLC checks that it holds there. `TukiAssumption` only types the sizes: memory and segment 0
are not empty, segments have ids other than 0, registers have at least one cell, and 0 is a value.

**Kernel.** `Control` ties the label of each thread to what it relies on: the process it elected, `mutex_NEW_to_READY`
while it admits, and a NEW that is not empty until it takes its head. `MutexFS`: whoever is between lock and unlock of `mutex_fs_connection` is its owner, so
core and file threads exclude each other. `SocketPropio`: the lock of admission makes the one answer on the socket
that of the thread that waits. `Cuentas` is the accounting of every `t_recurso`: instances given plus
instances left are the initial ones through WAIT, SIGNAL, F_OPEN, F_CLOSE and every step of EXIT, and a negative
count is the length of the waiting list, so a wake-up finds somebody. `Ciclo` says in which queue a process is for
every label and task; it makes the five lists disjoint (`Repartida` of `Listas`). `Limpio`: what a step of EXIT has released is not taken again. `ConDespertador`:
each place in BLOCK is matched by a task or a place in a waiting list. `UnDuenio`: the instance of an open file is
at exactly one process. `Dicho`: a console is told of a process that is in EXIT, and nobody leaves EXIT or
has its status written there.

**Memoria.** `IInv == TypeOK /\ BitmapExacto /\ SegmentosDisjuntos /\ IdsUnicos`. The four go together: freeing a segment keeps the
bitmap exact only because no other segment has its cells, placing one keeps them disjoint only because
the bitmap is exact, and DELETE_SEGMENT frees the segment it drops only because ids are unique. `HuecoLibre` says that a hole an algorithm
chooses is free, `Levantar` and `LevantarUno` what the bitmap is once segments are lifted from it. `Espacio`: a pending
request fits in what is free, and after the compaction what is free is one hole. For the refinement each
action has a lemma that maps it to one of `MemoriaAbs` or to no change; a move is no change because the content is copied
as it was.

**FileSystem.** `Vista` is the FCB that `update_fcb` will write, for the truncation under way; `Bloqueo` says of `Vista` what the
properties say of the disk between requests: blocks of different files are different and taken, and those counted are there.
`Recuperable` is what makes a stop harmless: until `update_fcb` the FCB on the disk names a part of the blocks of `Vista`. `SeguraEsExacta` is a
fact about arithmetic for any block size: the copies are recursive functions, and what they compute is proved by taking the least turn
where they would differ (`MinimoExiste`, `Recurrencia`); `Exactitud` has both directions, that a safe access moves exactly its bytes and that any other does not.
`FileSystemTipos` includes the wrong copies, those that leave the stream or the blocks too.
`RInv` adds `Conserva` to `Bloqueo`: while a truncation is under way the blocks that `Vista` keeps are the ones the file had, in their order. Each byte of
each file has a place of its own, so a write changes the bytes it names and no other.

**Tuki.** `Copias`: memoria has a table for every live process and segments of live processes only, a compaction is asked for, done and answered while
the core is inside the handler and the CPU has no context to run (`Turno`), and all copies agree. `Tareas`: a process with a
file thread is in BLOCK until that thread moves it. `Direccionado`: the context is that of the process in EXEC, and the address is right
at the CPU, on its way back and at the thread. For `TukiSoloCompactarDesactualiza` there is `Excluidos` instead: the filesystem works on nothing while
memoria compacts, since both hold `mutex_fs_connection`; so a compaction finds only threads that wait, and every other step leaves the segments of a
blocked process alone (`Ajenos`). These say nothing of what the cells hold. `Ejecucion` adds what the refinement needs:
`MemoriaEnOrden` (segments on cells of their own, the bitmap exact, a value in every cell), `EnMarcha` (the process in EXEC is the one of the context,
with its current table, while the CPU has one), `Desalojado` (an eviction carries the registers, the program counter and a status that follows from the
instruction), `Registrado` (registers keep their widths) and `Encargos` (a pending file operation is inside a segment of its process, so memoria
refuses it nothing). Each action has a lemma named for it, `...Refina`, which gives both the invariant after it and the step of `MaquinaAbs` it is, or that
nothing a program can see changes; `CompactarRefina` is the one that says so of a compaction, `VistaAgrega` and its like say what a change of `segs` and `mem` does to
`contenido`. With shared ids `get_segment_by_id` of memoria may delete a segment of another process, and the refinement fails.

**Conexion.** Every connection that has or had a thread of memoria is marked in `conectados` (`Marcados`). The property alone is
not inductive: that a new connection is the first of its module is known only from the marks. `Otra` says what all steps but one may do to the connections.
For `SeRecibeLoEnviado` each type has a lemma that its reader takes from its writer's cells the value that was written (`InstruccionLeida`, `ListaLeida`,
`TablasLeidas`, `PContextoLeido`, `DesalojoLeido`...), from wherever in a stream they are (`EnLugar`); `IdaYVuelta` puts them together by operation code and `PaqueteLeido` adds
that the reader stops where the next package begins. What the folds of `Suma` and `FlattenSeq` and the recursive reader of lists compute is proved by the
least index where they would fail. `CInv`: each socket holds the packages of the messages in `vuelo`, one after the other (`Corrientes`), and servers work on requests.

Only model-checked: liveness (`CompactacionTermina`, `TodosTerminan`, `Arranque`, `Cierre`, `Respondido`), which is out of the prover's
reach.

## 5. Not modelled

- **consola**: the text of programs. Logs, prints, menus that only print, configuration, SIGINT and the release of structures.
- `filesystem/src/handle_requests_kernel.c`, which nothing calls, and the codecs of `t_data`, `t_address` and `t_open_files`, which
  nothing sends.
- Short reads of `recv`; a client that connects and sends nothing.
- Data races on single words and lists that the modules do not split: the sort that HRRN does without the mutex, a call on
  a `t_list` itself (one step in `KernelHilos`), the array on the stack that `execute_fread` and `execute_fwrite` leave to
  their thread. What the kernel does after the first use of NULL or of freed memory.
- Several threads in `package_recv` of memoria's socket (sections 1 and 2): a package taken apart between them.
- Kills of a process in NEW, and kills together with admissions (`KernelHilos` starts with everybody admitted).
- `fetch` past the last instruction, SET with a value longer than its register: programs of the model end in EXIT and
  keep to the register.

Behaviours the models show when an assumption is dropped and that are no run of their own:

- `Kernel` with `Instrucciones = {"I_O", "CREATE_SEGMENT"}`: after MAX_SEG_QUANTITY_REACHED a process goes to the queue of an
  earlier call and may stay in BLOCK with nobody to wake it (`BloqueadoTieneDespertador` fails).
- `Kernel` with `Instrucciones = {"DELETE_SEGMENT"}`: the core and the admission of a client thread take each
  other's answers from the socket of memoria (`TablaPropia` fails).
- `FileSystem` with `CopiaSegura = FALSE`: a copy that `Segura` excludes runs past the block it starts in or reads the wrong
  bytes (`ImplementaAbs` fails). With block 0 as an indirect or pointer block a file loses it; a
  stop while a file shrinks leaves an FCB that names free blocks; a full disk stores -1 as a pointer.
- The degree of multiprogramming is exceeded when a process passes between the three readings.

## 6. Plan

Done: the modules that keep state across requests (`Memoria` and `FileSystem` with their abstract
specifications, `Kernel`), the CPU, the composition around tables and addresses with its abstract
machine, packages, connections, start and end; a theorem for every safety invariant of the runs, and for
the refinements of `Memoria`, `FileSystem` and `Tuki`. The unlocked
steps of the kernel are modelled access by access in `KernelHilos`. Left: several threads in `package_recv` of one socket, and what
section 5 lists.
