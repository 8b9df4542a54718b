# Verification of the UnixOS simulation

TLA+ models of the distributed operating-system simulation of this repository
(`Kernel`, `cpu`, `Memoria`, `FileSystem`, `Consola`, `ganSOsLibrary`), checked with TLC,
and proofs checked with TLAPS about the kernel's schedulers, resources, permission to compact and
segment requests, its open files, about the memory, the CPU and the file system. Names are those of the C code;
line numbers refer to the file named with them (`kernel.h` is `Kernel/src/kernel.h`).

## 1. The system

| Component | State | Operations | Talks to |
|---|---|---|---|
| Kernel, schedulers (`kernel.h` 157-298, 450-474, 998-1253) | `consolasNew`, `consolasReady`, `consolasExit`, `consolasBlocked`, `global_PCB_list`, one counting semaphore per list, `hayEspacioReady`, `replanificar` | reception of a console, `gestionadorReady`, `fifoRunning` / `hrrnRunning`, `readOp`, `retenerPCB`, `operarFS`, `gestionadorExit` | CPU (context out and back, synchronous), Memory, FileSystem, consoles |
| Kernel, resources (299-443, 1192-1210) | `recursosDisponibles`, `recursosEnUso`, `recursos_por_proceso` | WAIT, SIGNAL, release on exit | two threads share it with no lock |
| Kernel, compaction (729-753, 906-983) | `compactionBlockers`, `compaction_required`, `compaction_permission` | `compaction_manager`, `operarFS` | Memory |
| Kernel, files (546-904, 1212-1218) | `GDT`, `diccionario_colas_archivos`, `tablaArchivos` of each PCB | F_OPEN to F_TRUNCATE | FileSystem |
| Kernel, segment requests (214-224, 478-544, 1257-1301) | `tablaSegmentos` of each PCB, `mutexMemoria` | request and reply | Memory |
| Memory (`memoria.h` 56-239, 378-663) | `huecos_libres`, `diccionario_tablas`, `tabla_inicial`, `user_space` | CREATE_SEGMENT, DELETE_SEGMENT, EXIT, COMPACTION, MOV_IN, MOV_OUT, F_READ, F_WRITE | one thread per client: kernel, CPU, file system |
| FileSystem (`filesys.h`) | `bitmap`, `datos_bloques`, FCB list and its directory | F_OPEN, F_TRUNCATE, F_READ, F_WRITE, restart | kernel (one call at a time), Memory |
| CPU (`cpu.c`, `cpu.h`) | `contexto`, registers | fetch-decode-execute until `interrupted`, `MMU` | kernel, Memory |
| Consola | a program text | sends it, waits for EXIT or ERROR | kernel |
| ganSOsLibrary | none | sockets, packets | all |

The kernel is six kinds of threads around four lists. A list is changed under its mutex and
announced by `sem_post` *after* the unlock, so the thread that takes a token may remove another
PCB than the one announced. What is hard, component by component:

* **Schedulers**: no thread may find the list it waited for empty, no PCB may be lost or be in
  two places, the degree of multiprogramming must hold, every process must end. HRRN takes a
  token, sorts, gives the token back and later looks at the head.
* **Resources**: the short-term scheduler and the exit thread run WAIT, SIGNAL and release at the
  same time with no lock: lost wake-ups, lost updates, a list destroyed under its user.
* **Permission to compact**: two flags and a counter read outside their mutexes decide when
  memory may move under physical addresses that queued F_READ and F_WRITE already carry.
* **Memory**: holes must stay merged and disjoint from segments, compaction must preserve
  contents and must make the room it promised.
* **Files**: a file is handed from who closes it to who waits for it, by the thread that serves file
  calls or by the exit thread, over tables, queues and freed memory that no lock protects.
* **Segment requests**: requests and replies of three threads share one socket, with the mutex
  released in between; PIDs are file descriptors that are used again.
* **CPU**: one set of registers and several copies of each program's; addresses translated now and
  used later.
* **FileSystem**: partial failure of a truncation, restart, accesses across blocks.

`PROJECT.json` lists the hazards one by one with the lines where they bite.

## 2. Modules

### Planificador, CicloDeVida (schedulers)

`Planificador` has a program counter per thread (`ready_pc`, `run_pc`, `fs_pc`, `exit_pc`;
`readyPCB`, `runningPCB`, `fsPCB`, `exitPCB` are the locals) and the number of I/O threads that
added their PCB and have not posted yet (`io_senial`). A step is one critical section of a list,
one semaphore operation, or one access to an unprotected variable. A mutex that is taken and
released within a step is not a variable. Where C would use NULL the action is guarded on a
non-empty list, and `SinListaVacia` states that the guard never stops a thread.

| Actions | Code |
|---|---|
| `NuevaConsola`, `SenialNew` | `gestionarNuevasConexiones`, branch PAQUETE |
| `EsperarNew` ... `SenialReady` | `gestionadorReady` |
| `Iniciar` | `recibirStart` (ENTER) |
| `Planificar`, `EsperarPlan`, `Ordenar`, `Devolver`, `Mirar` | outer loop of `hrrnRunning` |
| `EsperarReady`, `QuitarReady` | `fifoRunning` and the inner loop of `hrrnRunning` |
| `RetornaYield`, `RetornaFrente`, `RetornaIO`, `RetornaFS`, `RetornaTerminal`, `RunSenial*` | `recibir_PCB` and `readOp` |
| `Despertar`, `SenialIO` | `retenerPCB` |
| `EsperarBlocked` ... `FsSenialExit` | `operarFS` with `process_f_*` |
| `EsperarExit` ... `SenialEspacio` | `gestionadorExit` |

Abstractions: what an instruction is (the kind of return is chosen freely; `instrucciones`
bounds how many returns a program makes), the HRRN ratio (`Ordenar` yields any order), and
waiting for a resource or a file, which is the subject of other modules: here a file call is
always answered.

`CicloDeVida` is what the schedulers promise: FUERA, NEW, READY, RUNNING, BLOCKED, EXIT, FIN,
with the moves between them, at most `GRADO_MAX` admitted and one running. `EstadoDe` of
`Planificador` is the refinement mapping. It also allows BLOCKED to EXIT: a file call that
fails ends the process.

### Recursos (WAIT, SIGNAL, release on exit)

Two threads, `run` and `exit`, each with its own `pc`, PCB, resource, value of `*instancias`
read and pointer to a list. A step is one call on a shared list or dictionary, or one read or
write of `*instancias`. A destroyed list that is used, or NULL, ends the kernel (`caido`). Any
programs are a value of `Escenarios`; the last instruction of each ends it (`Final`), because
after it there is nothing to fetch.

Two predicates on the text of a program say which promises it earns. `SenialaLoSuyo`: it signals
only what it holds. `Disciplinado`: it also asks in one order, returns what it takes before it
ends, and names no unknown resource. `EsperaSoloSinInstancias`, `NadieSePierde` and
`DisciplinadosAcceden` are about programs that are all `Disciplinado`. `NingunaInstanciaDeMas`
is about those and, for a resource with at most one instance, about programs that only
`SenialaLoSuyo`. Outside it is false, and TLC shows why: with two instances, a program that ends
holding one makes the exit thread's `++` overwrite, or be overwritten by, a `--` of the
scheduler's (`lib_cargar`/`lib_guardar` against `wait_cargar`/`wait_guardar`), and an instance
appears; a SIGNAL of what is not held adds one too.

The programs TLC runs come from `MC_Recursos`: `Disciplina` (three programs that return what they
take, nested, over one instance of a resource and two of the other), `Carrera` (programs that end
holding the only instance of a resource others ask for), `SinWait` (SIGNAL of what was never
asked for, and unknown names).

### Compactacion (permission to compact)

The scheduler's thread and `operarFS`. The read of `compactionBlockers` in each thread, the read
of `compaction_required`, the post and the final assignment are each a step. `pendiente` is
history: at the last request, a permission not taken, a request not withdrawn, or `operarFS`
about to act on either was left over from an earlier one.

### Memoria, MemoriaIdeal

`Memoria` has `huecos_libres` as the list it is (first-fit ties depend on its order), a table per
PID, `user_space` as bytes that are blank or written, and `pedido`, the CREATE_SEGMENT that the
kernel retries after COMPACTION. `alojar_nuevo_hueco` is an operator with the four cases of the
code. One turn of the compaction loop, with its `realloc_segment`, is a step; so is each segment
that EXIT frees (`liberando` is the table out of the dictionary), and a MOV_OUT, which another
thread of the memory serves, may fall between two of them. Every one of the
three algorithms is run. `MemoriaIdeal` is a memory that is only a number of bytes: requests are
granted when the free bytes are enough and refused when they are not, whatever the fragmentation.

### SistemaDeArchivos (file system)

State: `listaFCB` and `directorio` (the FCB of each file in memory and in its config file), `bitmap`
(the set of marked blocks), `datos_bloques` (flat, one value per unit, with `sizeof(int)` = 1, so
pointers are the offsets of the code and `-1 + offset` lands where it lands in C), `pc` and `pedido`.

| Actions | Code (`filesys.h`) |
|---|---|
| `Crear` | `crearOAbrirArchivo`, `crearFCB`, `crearArchivoFCB` |
| `Truncar`, `Guardar`, `NoHayBloque` | `truncarArchivo`: before its loop, after it, and its early return |
| `OcuparBloque`, `OcuparIndirecto`, `NoHayIndirecto`, `AsentarOcupado` | `ocuparBloqueLibre`, its call to itself, `asentarFCB` |
| `LiberarIndirecto`, `LiberarDirecto`, `AsentarLiberado` | `liberarUltimoBloqueFCB`, `asentarFCB` |
| `Escribir`, `SalirDeLosBloques` | `escribirArchivo`; both it and `leerArchivo` out of the blocks |
| `Reiniciar` | the process ends at any step and `inicializarListaFCB` loads the FCBs |

A truncation takes or frees one block per step and saves the FCB in a step of its own, so that a
restart falls between the two. `cantidad_indirectos` is not loaded (489): after a restart it is any
number. Five variables are history. `sano` becomes false at the steps after which the code works on
garbage: the use of a count that was not loaded or is out of the pointer block (`Confunde`), an access
that needs a block the file does not have (`Dentro`; one that ends a block needs the next), a restart
between freeing a block and saving its FCB. `integro`: no truncation was cut. `sinBloque`: a
truncation ran out of blocks, whether it said so or not. `recargados`, `observado`: which FCBs were
loaded at a restart, and the one write whose data are followed. A use of an address out of
`datos_bloques` ends the behaviour (`caido`).

### Archivos (open files)

`operarFS` and `gestionadorExit`, each with its `pc`, its descriptor and its queue. A step is one
call on a list or dictionary that both threads reach. Descriptors and queues are identities: those
that are not freed are the domains of `descriptores` and `colas`, `malloc` gives one that nothing
refers to, and the use of a freed or NULL one ends the kernel (`caido`).

| Actions | Code (`kernel.h`) |
|---|---|
| `Pedir`, `Terminar` | `recieves_filesystem_petition`; EXIT and ERROR in `readOp` |
| `AbrirBuscar`, `AbrirNueva`, `AbrirGdt`, `AbrirTabla`, `AbrirEncolar` | `process_f_open`: the search, the two ways on |
| `Cerrar`, `Posicionar`, `Transferir`, `Recibir`, `Truncar` | `process_f_close`, `process_fseek`, `process_fread` and `process_fwrite`, `f_truncate_process` |
| `LibCola` ... `LibQuitar` | `liberar_archivo`, in either thread |
| `ExitTomar`, `ExitCerrarUno`, `ExitTerminar` | `gestionadorExit`, `cerrarArchivosDelProceso` |

Abstractions: READY is a set and any process of it makes the next call; a pointer is who moved it
last; the file system accepts every F_OPEN, as it does. `posicionados` is history. The programs come
from `MC_Archivos`: any calls, or (`cierran`) programs that open files in order, use only what they
have open and close it before they end.

### CPU, MaquinaIdeal (execution of programs)

`CPU` puts together the CPU, the context that travels to it and back, the tables that the memory
answers with, and the bytes that MOV_IN, MOV_OUT and the file system touch by physical address. Three
copies of the registers are kept apart: `PCB`, `contexto` and `lista_registros`.

| Actions | Code |
|---|---|
| `Despachar` | `enviar_PCB`, `recibir_paquete_contexto`, `cargarRegistros` |
| `Set`, `MovIn`, `MovOut`, `MovInDesconocido` | `set`, `mov_in`, `mov_out` (`cpu.h`), the instructions after which the cycle goes on |
| `Yield`, `PedirFS`, `PedirSegmento`, `Exit`, `ExitProcessError` | those that return the context: `cargarRegistrosContexto`, `paquete_contexto`, `recibir_PCB` |
| `CrearSegmento`, `BorrarSegmento`, `SinEspacio` | the answers of kernel and memory to a segment request |
| `Solicitar`, `LeerBloqueos`, `EsperarPermiso` | `compaction_manager` (911-918), each access to what it shares |
| `Compactar` | `compactar_segmentos` and `recibir_tablas_compactadas` |
| `LeerContador`, `LeerRequerida`, `DarPermiso`, `Olvidar`, `AtenderOtra`, `AtenderFS`, `Restar` | `operarFS` (929-974), with `esperarFileSystem` in the memory |
| `Retirar` | the end of a process |

Nothing keeps a compaction away from a queued F_READ or F_WRITE but what the code does: the counter
read without its mutex at 915 and 933, the flag and the semaphore. A permission that a request left
over lets the next one compact at once, and the physical addresses that wait are then stale.
`pendiente` remembers that some request found something of an earlier one, `Desviados` are the
programs whose address is stale. A segment that moves by less than its size loses the bytes that
`memset` blanks (finding 2): `ByteCompactado`.

`MaquinaIdeal` is the machine a program believes it has: registers, counter and segments that nobody
else changes, logical addresses only, segment 0 shared. Its steps are whole instructions; the
dispatches of `CPU`, and the steps of the agreement, are stutters. A compaction should be one too and
is not. `MaquinaIdeal.Compactar` says all it may do to a program: each segment keeps its first bytes,
all of them or at least one, with blanks after them; and a transfer that waits may be overtaken
(`desviados`), after which an F_READ may be written anywhere. Everything else about a program holds
across compactions.

Abstractions: YIELD stands for every instruction that only returns the context. To count an F_READ
and to queue it are one step (`Compactacion` has them apart); the file system serves the queued calls in
any order. Which hole a new segment takes is any that fits. Of a segment of no bytes, at which
nothing can be read, only the size and the ID matter. A program deletes only segments it has: the other case ends
the memory, in `Memoria`. Logical addresses are not negative. `strcpy` of 16 characters into the five
bytes of a PCB's register (`kernel.h:291`) and `leido[bytes]` in `sizeof(bytes)+1` bytes
(`cpu.h:273`) are taken to store what they are given.

### PedidosMemoria (requests and replies)

Three threads of the kernel (`ready`, `running`, `exit`), the memory, and the socket as one queue of
requests and one of replies. A step is one `send`, one `recv`, one take of `mutexMemoria` or one
update of the kernel's lists. A reply is read in two calls, the op code and the rest: `leida` says who
has read the first, and a thread that then reads gets a piece (`LeerMitad`).

| Actions | Code |
|---|---|
| `Pedir`, `TomarMutex`, `LeerOperacion`, `LeerTabla` | `pedirTablaSegmentosInicial`, `create_segment`, `delete_segment` with `recv_tabla_segmentos` |
| `Agregar`, `Decidir` | the end of `gestionadorReady`'s turn; the switch of `create_segment` |
| `PedirCompactacion`, `LeerTablas`, `LeerTablasSinPCB` | `compaction_manager`, `recibir_tablas_compactadas` |
| `Quitar`, `Avisar`, `Cerrar` | `gestionadorExit`: the global list, the EXIT to the memory, `close` |
| `CrearTabla`, `CrearSegmento`, `BorrarSegmento`, `BorrarAusente`, `BorrarTabla`, `Compactar` | `esperarKernel` of the memory |
| `Conectar`, `Admitir`, `Despachar`, `Devolver`, `PedirSegmento` | where the requests come from |

Abstractions: a segment is its ID, whose it is and how many compactions it has been through; whether a
request fits is any answer, except that after a compaction it does (`ReintentoSuficiente` of `Memoria`);
a program asks for one segment at a time; `gestionadorReady` adds to READY and to the global list in one
step. `solapados` is history: some time two threads were inside their operations.

## 3. Runs

| Run | Instance | Shows |
|---|---|---|
| `planificador` | 3 processes, degree 2, FIFO and HRRN, 3 returns each: 420 460 states | all of section 2's promises of the schedulers |
| `recursos` | 3 processes, 2 resources, the three families: 10 010 states | instances are conserved, nobody is lost, disciplined programs get their resources |
| `recursos_320` | programs that release by EXIT | violated: see findings |
| `memoria` | 2 processes, 6 bytes (1 of segment 0), sizes 1 to 3, 2 segments each: 700 696 states | partition, merging, compaction, refinement of `MemoriaIdeal` |
| `memoria_contenido` | 7 bytes | violated: see findings |
| `compactacion` | 3 processes, 3 requests: 83 454 states | the counter is exact, the agreement works when nothing is left over |
| `sistema_archivos` | 2 files, 6 blocks of 2 units, 5 with a bit, sizes 0, 3 and 5, one restart: 607 601 states | owners of blocks, disk against memory, data that persist |
| `archivos` | 3 processes, one file with any calls, two files with any or with ordered ones: 326 355 states | one user per file, hand-over, nobody left out |
| `archivos_579` | one file, any calls | violated: see findings |
| `cpu` | 2 processes, registers of 1 and 2 characters, 5 bytes, segments of 2, three families of programs of 3 lines: 337 611 states up to symmetry | registers, tables and addresses through compactions, refinement of `MaquinaIdeal` |
| `pedidos_memoria` | 3 PIDs, 4 consoles, 4 segment requests, 2 compactions: 2 755 087 states up to symmetry | replies match requests, tables agree |
| `pedidos_82` | as above | violated: see findings |

**Why these bounds are enough.** Schedulers: with degree 2 and three processes one waits for
room while two move between READY, BLOCKED and the CPU, and two PCBs in READY are needed for the
orders HRRN may choose; three returns let a process pass twice through READY or BLOCKED and then
end. Resources: races are between two threads on one resource, the third process is the one that
is blocked or overtakes. Memory: 5 free bytes and sizes 1 to 3 give up to three holes, overlapping
and disjoint moves, and requests that fit only after a compaction. Compaction: a permission left
over needs a request that did not wait, one that takes it, and a call of files in between: three
processes and two requests; the third request is margin. File system: size 3 needs the pointer block,
5 fills it, and the two together run out of blocks at each of the three places where one is looked
for; sizes are no multiples of the block, so `tamanio` wraps modulo 16 (32 bits in the code); a second
restart would load no other state than the first. The run stops at the first step that is not `sano`,
after which no property is claimed, and holds data in at most three units. Open files: a race needs
one process that has the file, one that waits and one that opens or ends while the first releases it;
two files are needed for a process that ends with several and for programs that nest them. CPU: two
programs alternate on the registers, one has a segment above a hole of the other's, and a compaction
moves it, by its size or by half of it, while an F_READ of its owner waits for the permission to be
given or, with one left over, does not make it wait: both the stale address and the overlapping move
are reached. The processes are alike, so that a symmetry is sound (only safety is checked). Requests: two processes ask at once while a third ends
or comes in, the fourth console gets the PID of one that ended, and a retry may need a second
compaction.

**What the properties say.** Each is commented in its module. In short:

* `SinListaVacia`, `Fichas`: the semaphores never promise a PCB that is not in the list.
* `MiradoSigueEnReady`: the process HRRN looked at is still in READY when it takes one.
* `ImplementaCiclo`, `TodosTerminan`: a process is in one place at a time, moves only as the life cycle
  says, never more than the degree are admitted, and every one ends.
* `NingunaInstanciaDeMas`, `EsperaSoloSinInstancias`, `NadieSePierde`, `DisciplinadosAcceden`: no
  instance appears from nowhere, nobody waits for a free resource at rest, nobody is lost, programs that
  ask in order get all they ask for.
* `BloqueosContados`, `CompactaEnCalma`, `PermisoEnCalma`, `OperacionAtendida`: the counter is the
  number of reads and writes on their way; when nothing is left over from an earlier request, memory is
  compacted with none of them queued and the permission arrives; every call is carried out.
* `ParticionDeMemoria`, `DesplazaAdyacente`, `ReintentoSuficiente`, `CompactaSinSolapar`,
  `ImplementaIdeal`: merged holes and segments partition the memory, the compaction moves what follows
  the first hole, makes the room it promised, keeps what does not overlap.
* `BloquesPropios`, `NingunBloquePerdido`, `BloquesSegunTamanio`: a block has one owner and is marked;
  no marked block is without owner; a file has the blocks of its size.
* `FcbEnDisco`, `LibresEnBlanco`, `DatosPersisten`: config files follow the FCBs, free blocks are
  blank, what was written is read back whatever the other files do and across restarts.
* `UnUsuarioPorArchivo`: an open file has one descriptor, in the hands of one process or of one thread
  that releases it, however the two threads interleave. `PunteroDelUsuario`: who did F_SEEK finds the
  pointer where it left it. `NadieQuedaAfuera`, `AbreAlgunaVez`: with programs that close what they
  open, whoever waits waits for a file somebody has, and gets it.
* `TraduccionesVigentes`: tables of the kernel and of the CPU are the memory's at every step, and an
  address that waits in a queued F_READ or F_WRITE is still right as long as no request to compact found
  something of an earlier one pending. `ImplementaMaquina`: each program runs on `MaquinaIdeal`, with
  or without that hypothesis.
* `UnaRespuestaPorPedido`: each thread that waits has one reply on its way and no reply is left over.
  `TablasAlDia`: as long as two threads never overlap, the tables of the kernel are the memory's, PIDs
  that are used again and compactions included.

Each module also has one `TypeOK`. In `CPU` it says that registers keep their width and that a
physical address is in the memory, in `PedidosMemoria` that the mutex is held exactly while a table
is read. `UnaRespuestaPorPedido` is an equality of two counts: requests in the socket and replies
against threads that wait.

**Fairness.** Every thread is a `while(1)` over blocking calls, scheduled by the operating system
and never cancelled, and CPU, memory and file system answer every request: weak fairness of each
thread, and of each I/O thread (`nanosleep` ends). Nothing forces a console to connect or ENTER to
be pressed. `sem_wait` needs only weak fairness here because each counting semaphore has one
waiting thread, apart from `hayConsolasReady`, whose two waits are in the same thread. `Archivos`
assumes the same of its two threads and of each program that is in READY: its number of calls is
bounded and the scheduler gives it the CPU (`TodosTerminan`). `Memoria`, `CPU`, `PedidosMemoria` and
`SistemaDeArchivos` claim no liveness and have none.

**Deadlock** is not an error in these runs: a kernel whose consoles were all served waits for ever,
and the modules that can fall (`caido`) or lose a permission stop; the cfg files say which.

## 4. Findings

1. `recursos_320`: `kernel.h:320` says every WAIT gets its resource some day. A WAIT that reads 0
   just before the exit thread returns the last instance sleeps for ever.
2. `memoria_contenido`: `memset` (`memoria.h:623`) blanks the end of a segment whose move overlaps.
3. `archivos_579`: `kernel.h:579` says nobody needs a file whose queue is empty. `operarFS` may hold
   its descriptor, about to queue a process, when the exit thread frees it; the kernel then falls, or
   the process has a freed descriptor.
4. `pedidos_82`: two threads that ask the memory at once can take each other's reply, and a PCB has
   then the segments of another process, against `kernel.c:82`.

Four more disagreements with comments of the code can be seen in the models and have no run of their
own. A WAIT that is granted does not always run again at once (`kernel.h:331`): `operarFS` inserts at
the front of READY too. `global_PCB_list` can keep a freed PCB (`kernel.h:240`), added after READY is
unlocked. A permission left over, or `compaction_required=false` (939) after a new request, lets memory
be compacted with a call queued, or leaves scheduler and file system waiting (`kernel.h:931`):
`pendiente` in `Compactacion` marks these behaviours. A truncation can answer 1 with a block missing
(`filesys.h:121` against 530): `sinBloque`.

## 5. Proofs

Each theorem holds for every value of the constants that satisfies the named `ASSUME` of its
module, which TLC evaluates in every run. The assumptions say what the code gives: a finite set
of processes, no PID equal to the mark of "none", bounds that are naturals, and the two below.

| Module | Theorem | States |
|---|---|---|
| `PlanificadorProofs` | `Tipos`, `FichasSiempre`, `NuncaListaVacia`, `MiradoSiempreEnReady` | `TypeOK`, `Fichas`, `SinListaVacia`, `MiradoSigueEnReady` |
| | `CicloImplementado` | `ImplementaCiclo`: `Planificador` refines `CicloDeVida` |
| `RecursosProofs` | `Tipos`, `NuncaDeMas` | `TypeOK`, `NingunaInstanciaDeMas` |
| | `SoloSinInstancias`, `NadieSePierdeNunca` | `EsperaSoloSinInstancias`, `NadieSePierde` |
| `CompactacionProofs` | `Tipos`, `BloqueosSiempreContados`, `SiempreCompactaEnCalma` | `TypeOK`, `BloqueosContados`, `CompactaEnCalma` |
| `MemoriaProofs` | `Tipos`, `Particion`, `Adyacente`, `Reintento` | `TypeOK`, `ParticionDeMemoria`, `DesplazaAdyacente`, `ReintentoSuficiente` |
| | `SinSolapar` | `CompactaSinSolapar`, an action property |
| | `IdealImplementada` | `ImplementaIdeal`: `Memoria` refines `MemoriaIdeal` |
| `CPUProofs` | `Tipos`, `NingunaTraduccionVencida` | `TypeOK`, `TraduccionesVigentes` |
| | `SegmentosSinSolaparse` | the segments of all tables are disjoint but for segment 0 |
| | `MaquinaImplementada` | `ImplementaMaquina`: `CPU` refines `MaquinaIdeal` |
| `PedidosMemoriaProofs` | `Tipos`, `SiempreUnaRespuesta`, `TablasSiempreAlDia` | `TypeOK`, `UnaRespuestaPorPedido`, `TablasAlDia` |
| `ArchivosProofs` | `Tipos`, `UnoPorArchivo` | `TypeOK`, `UnUsuarioPorArchivo` |
| | `PunteroIntacto`, `NadieAfuera` | `PunteroDelUsuario`, `NadieQuedaAfuera` |
| `SistemaDeArchivosProofs` | `Tipos`, `SiempreEnDisco` | `TypeOK`, `FcbEnDisco` |
| | `SiemprePropios`, `NingunoPerdido`, `SegunSuTamanio` | `BloquesPropios`, `NingunBloquePerdido`, `BloquesSegunTamanio` |
| | `LibresBlancos`, `LosDatosPersisten` | `LibresEnBlanco`, `DatosPersisten` |

Every proof that a step preserves an invariant has one step per action of `Next`; lemmas about
`Len`, `Append`, positions in a list and the cardinality of sets come first in each module.

**Schedulers.** `TypeOK` is inductive: it relates each local to the program counter of its thread.
`Fichas` is not by itself, because `Mirar` looks at the head of READY with no token in hand:
`FichasInv` adds `FichaDeMirar`, that READY is not empty then, since only the thread that looks can
remove from it. `NuncaListaVacia` follows: a thread between its `sem_wait` and its `list_remove` is
counted in the list's length, which is then positive. `MiradoInv` adds where that thread may be while
it holds the PCB it looked at. For the refinement `LugaresInv` says that each process is in exactly
one place (a list at one position, or the hands of one thread) and that `hayEspacioReady` counts the
room that is left; each action is then a move of `CicloDeVida` or a stutter.

**Resources.** From `RecursosAssumption`, of which the proofs need that the last instruction of a
program is `Final` (else a process would be fetched past its end). Six layers, each proved with the
ones before it:

1. `Tipado`: types, what each thread holds at each `pc`, and `VistoSigueAhi`: only the scheduler takes
   instances, so the one a WAIT saw is there when it takes it and the count stays natural.
2. `Lugares`: a process is in at most one place, and no list has it twice.
3. `Registros`: `recursos_por_proceso` follows the program: what the text up to the counter says that
   a process holds is in its list, and the last of the list is what it waits for.
4. `NadaQueLiberar`: of programs that return everything the list is exactly that, and the exit thread
   has nothing to release. It is what removes the race on `*instancias` for them.
5. `Instancias`: for each resource that is safe (all programs disciplined, or at most one instance),
   available instances, holders and instances in transit are together no more than the initial ones, and
   neither thread is about to write an old value.
6. `Calma`, for programs that return everything: an entry of `recursosEnUso` has somebody in it and no
   instance available, except within the steps that empty and destroy it; a process is in some place.

**Permission to compact.** `CompactacionInv`: `TypeOK`, `BloqueosContados`, `Manos` (what each
thread has at hand) and `CalmaMientrasEspera`: from a request before which nothing was
pending until its compaction, once one of the threads saw the counter at zero it stays there, because
only the scheduler's thread accepts reads and writes, and it is the one that waits.

**Memory.** From `MemoriaAssumption` (segment 0 is smaller than the memory, no size is 0). The
segments of the tables, those that are being freed and the holes are seen as sets of pieces.
`Reparto` says that they share out the bytes after segment 0 and that no hole touches another; an
action replaces some pieces by others with the same bytes (`MismosBytes`), and `Alojado` is what
`alojar_nuevo_hueco` makes of the holes in each of its four cases. `MemoriaInv` adds that a request
is kept only while it waits (`PedidoServible`), that compaction only runs for one, and what the
shape of a table is (segment 0 first, no segment twice). `ParticionDeMemoria`, which counts owners of a byte, follows
from the sets being disjoint and free of repetitions; `DesplazaAdyacente` because the bytes between
the end of the first hole and the next segment would be of nobody; `SinSolapar` because a move of at
least the segment's length writes on the hole only. `ReintentoSuficiente` needs the number of free
bytes. What the fold `BytesLibres` computes is shown equal to the number of bytes in the holes
(`SumaSonLibres`): the recursive function of the fold is unfolded, a closed form is shown to satisfy
its equation, and the least place where the two could differ gives the contradiction, so no
induction theorem is used. `EspacioPedido` then says that a waiting request fits in the free bytes,
and, once compacted, in one hole: nothing is allocated meanwhile, a hole only grows. For the
refinement, the bytes that `MemoriaIdeal` counts are in a bijection with the bytes of the segments
(`CuentaReserva`), so while nothing is being freed they and `BytesLibres` add up to the memory: a
hole that takes a segment shows that the free bytes reach, and a refusal that they do not. `SinBases`
of a table commutes with `list_add` and `list_remove` and does not see a compaction.

**CPU.** From `CPUAssumption` and `InstruccionesAssumption` (a value is a text; sizes and addresses are
naturals). `CPUInv`: `Tipado`, `Contados` (a program counter stays in its program), `ContextoDeAlguien`
(the context at the CPU is of the process on it), and `UnoSolo` (one process is on the CPU or being
answered), which is why no table changes while the CPU has a copy of it. Tables being the memory's
follows. For the addresses that wait, `AcuerdoInv` says why the agreement works, up to the first
request that finds something pending: `BloqueosContados`, the counter is the number of F_READ and
F_WRITE that wait or whose `compactionBlockers--` is still to come, and `Acordado`, `NadieEspera`: from
the moment one of the two threads has decided for the compaction, by reading 0 or by the permission,
nothing waits, and nothing comes until it is over, since the process on its way to `PedirFS` would
need the CPU while the scheduler is in `compaction_manager`.
For the refinement `MaquinaInv` adds that every table begins with segment 0 and that no two entries
share a byte (`ConElCompartido`, `Apartes`), and that only who waits has a request (`SinPedidos`). It
holds if no program deletes segment 0 (`NadieBorraElCompartido`, a hypothesis of both theorems, as
in `Memoria`): it would be taken from under all the others. TLC checked its three parts on `MC_CPU`
before they were proved. A write at a physical address is then `Escribe` on one segment of one
program (`LaEscritura`). In a compaction the segments that cover a byte after it began at the same
place before it (`MovidosAparte`, `MismaBase`), so the byte that arrives is the one that was there or a
blank (`LosBytesSeMueven`), and the blanks are at the end (`QuedaElPrincipio`), which is `Recorte`
(`SegmentosRecortados`); segment 0 never moves (`ElCompartidoSeVeIgual`). The file system may write at a
stale address, which keeps every segment's shape (`LaMismaForma`). A context switch is a stutter,
because what `cargarRegistros` leaves in a register does not depend on what it held
(`LoCargadoEsLoGuardado`). A compaction is `Compactar`, and an instruction, an answer and an EXIT are one
step of `MaquinaIdeal` each; `LoRechazadoNoEsCorrecto` shows that the CPU ends a program only for what the
machine cannot do.

**Requests.** `PedidosInv`: types; what each thread does (`Trabajos`), who has the mutex (`Turnos`),
where each program is (`Programas`); `UnaRespuestaPorPedido`, that requests in the socket and replies
are as many as the threads that wait; and, while no two threads have overlapped, `Sereno`: the socket
holds the EXITs of processes that ended and then at most one request or its reply, and the table of
each PCB is the memory's up to that request.

**Open files.** `UnUsuarioPorArchivo` is about two tables and a dictionary that two threads change
call by call, so most of the invariant says what holds in between. `ArchivosInv`: `Datos` (types),
`Manos` (what each thread holds at each `pc`), `Lugares` (a process is in one place at most), `Tenencia`
(a descriptor of GDT is in the hands of exactly one process or one thread that releases it; one that
is being made is known to nobody), `Parejas` (the five ways to see that a queue is that of a descriptor
agree), `NombresDeCola` (a queue is under one name) and `Posiciones` (the pointer of who did F_SEEK).
`NadieQuedaAfuera` adds `Disciplina`, for programs that close what they open: the kernel does not fall
(what finding 3 shows of others), nobody ends with a file, so that the exit thread releases nothing and
the races are gone; every process is at work, ended, or in the queue of a file that is open; an
open file has a queue; a call that waits for `operarFS` is one that can be carried out.

**File system.** In two parts. `FcbInv` needs no hypothesis: the shape of the FCBs and of the blocks
(`Tipado`), and that the disk is the memory but for the file being saved (`Sincronizado`). `Tipos` and
`SiempreEnDisco` follow. `BloquesInv` is `FcbInv` and, while the execution is `sano`, `Sanidad`. It sees
the blocks of a file as places: the direct pointer, the pointer block, its slots. `UnDuenio` says
that a block is in one place of one file; the others relate the places to the bitmap
(`DiscoContenido`, `NadaPerdido`), to the count of indirect blocks (`Contados`), to the size asked for,
plus or minus what the step of a truncation has still to do (`SegunTamanio`, `Momento`), and to
what the blocks hold (`RanurasEnBlanco`, `EnBlanco`, `ElObservado`). TLC checked `BloquesInv` on
`MC_SistemaDeArchivos` before it was proved. A step is described by the blocks it writes; the lemmas
`OtrosQuietos` and the like keep every other place, and one lemma for each way of taking or giving back a
block serves direct, indirect and pointer blocks. `NingunBloquePerdido`, `BloquesSegunTamanio` and
`DatosPersisten` speak of sequences of blocks, which two lemmas link to the places.

**What stays with TLC.** Liveness (`TodosTerminan`, `DisciplinadosAcceden`, `PermisoEnCalma`,
`OperacionAtendida`, `AbreAlgunaVez`): fairness and ENABLED are out of the prover's reach.

## 6. Not modelled

* The byte layout of packets, handshakes and the creation of sockets (`ganSOsLibrary`): a message
  arrives whole and in order. Which thread reads which part of a reply is in `PedidosMemoria`.
* The failure of `config_save`, and the bytes that travel between the file system and the memory.
* Time: estimates and response ratios of HRRN (and `est_prox_rafaga_backup`), `memory_delay`,
  `nanosleep`.
* Logging, including its unprotected reads of READY (`actualizarStringColaReady`).
* The branches MENSAJE, -1 and default of the reception of a console, which create no PCB, and the
  `socket_consola` that all the receiving threads share (`kernel.c:209`).
* `process_fread` adding to READY without the mutex: `Planificador` takes it as a critical section.
* `liberarRecursosDelProceso` leaving a destroyed list under a PID that is used again (1208):
  `Recursos` uses each PID once.
* The end of a process that is an abort of the kernel (a dead socket).

## 7. Plan

The components are modelled. What remains: PIDs that are used again in `Recursos`, and the queue of the
file system in `CPU`, whose order `Compactacion` keeps.
