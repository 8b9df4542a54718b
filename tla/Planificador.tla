---------------------------- MODULE Planificador ----------------------------
(***************************************************************************)
(* The schedulers of Kernel/src/kernel.h: the thread that receives each   *)
(* console (gestionarNuevasConexiones), the long-term scheduler           *)
(* (gestionadorReady), the short-term one (fifoRunning or hrrnRunning     *)
(* with readOp), one thread per I/O (retenerPCB), the thread of the file  *)
(* system calls (operarFS) and the one that frees finished processes      *)
(* (gestionadorExit), over the lists and counting semaphores they share.  *)
(*                                                                        *)
(* A step is one sem_wait or sem_post on a counting semaphore, or one     *)
(* critical section under the mutex of a list with the thread-local code  *)
(* around it; a local that is not used again is NINGUNO.  Time, estimates *)
(* and registers are abstracted: list_sort by response ratio is any       *)
(* permutation of the list.  Of a console, only the program it sends      *)
(* matters: any other message leaves nothing behind.  A file call ends in *)
(* whatever way the file server answers; waiting for a resource or for a  *)
(* file that is open is not in this module.                               *)
(***************************************************************************)
EXTENDS Naturals, Sequences, FiniteSets

CONSTANTS Procesos,     \* one process per console that may connect
          GRADO_MAX,    \* GRADO_MAX_MULTIPROGRAMACION
          Algoritmos,   \* the ALGORITMO_PLANIFICACION values considered
          MAX_SYSCALLS  \* bound: a program returns to the kernel at most this often

\* No PCB: a local that is not in use.
NINGUNO == "ninguno"

ASSUME PlanificadorAssumption ==
    /\ IsFiniteSet(Procesos) /\ NINGUNO \notin Procesos
    /\ GRADO_MAX \in Nat \ {0}
    /\ Algoritmos \subseteq {"FIFO", "HRRN"}
    /\ MAX_SYSCALLS \in Nat \ {0}

VARIABLES
    algoritmo,        \* kerConfigData.ALGORITMO_PLANIFICACION
    consola,          \* the receiving thread of each console
    instrucciones,    \* returns to the kernel left in each program, the last is EXIT
    consolasNew, consolasReady, consolasBlocked, consolasExit, \* the lists of PCBs
    global_PCB_list,  \* the PCBs in the list read after a compaction
    hayConsolasNew, hayEspacioReady, hayConsolasReady, hayConsolasBlocked, hayConsolasExit,
    ready_pc, readyPCB,                                \* gestionadorReady
    run_pc, runningPCB, nextPCB, replanificar, \* gestionadorRunning
    fs_pc, fsPCB,                                      \* operarFS
    exit_pc, exitPCB,                                  \* gestionadorExit
    durmiendo,        \* the PCBs held by an I/O thread in nanosleep
    io_senial,        \* the I/O threads between list_add and sem_post
    liberados         \* the PCBs given to free()

consolaVars == <<consola, instrucciones>>
readyVars == <<ready_pc, readyPCB>>
runPCBs == <<runningPCB, nextPCB, replanificar>>
runVars == <<run_pc, runPCBs>>
exitVars == <<exit_pc, exitPCB, liberados>>
fsVars == <<fs_pc, fsPCB, consolasBlocked, hayConsolasBlocked>>
ioVars == <<durmiendo, io_senial, fsVars>>
newLista == <<consolasNew, hayConsolasNew>>
readyLista == <<consolasReady, hayConsolasReady>>
exitLista == <<consolasExit, hayConsolasExit>>
vars == <<algoritmo, consolaVars, readyVars, runVars, exitVars, ioVars, newLista,
          readyLista, exitLista, global_PCB_list, hayEspacioReady>>

\* The reorderings of s that list_sort may produce.
Permutaciones(s) ==
    {[i \in DOMAIN s |-> s[f[i]]] :
        f \in {g \in [DOMAIN s -> DOMAIN s] : \A i, j \in DOMAIN s : g[i] = g[j] => i = j}}

Init ==
    /\ algoritmo \in Algoritmos
    /\ consola = [p \in Procesos |-> "fuera"]
    /\ instrucciones = [p \in Procesos |-> MAX_SYSCALLS]
    /\ consolasNew = <<>> /\ consolasReady = <<>> /\ consolasExit = <<>>
    /\ global_PCB_list = {}
    /\ hayEspacioReady = GRADO_MAX
    /\ hayConsolasNew = 0 /\ hayConsolasReady = 0 /\ hayConsolasExit = 0
    /\ ready_pc = "hayNew" /\ readyPCB = NINGUNO
    /\ run_pc = "inicio" /\ runningPCB = NINGUNO /\ nextPCB = NINGUNO
    /\ replanificar = FALSE
    /\ exit_pc = "hayExit" /\ exitPCB = NINGUNO /\ liberados = {}
    /\ durmiendo = {} /\ io_senial = 0
    /\ consolasBlocked = <<>> /\ hayConsolasBlocked = 0 /\ fs_pc = "hayBlocked" /\ fsPCB = NINGUNO
-----------------------------------------------------------------------------
(* Faulty variants: slips in the code that the properties below must catch *)

\* sem_trywait with its result ignored.
EsperarNew_SinEsperar ==
    /\ ready_pc = "hayNew"
    /\ hayConsolasNew' = hayConsolasNew - 1
    /\ ready_pc' = "hayEspacio"
    /\ UNCHANGED <<algoritmo, consolaVars, readyPCB, runVars, exitVars, ioVars, consolasNew,
                   readyLista, exitLista, global_PCB_list, hayEspacioReady>>

\* The place is not waited for.
EsperarEspacio_SinEsperar ==
    /\ ready_pc = "hayEspacio"
    /\ ready_pc' = "quitarNew"
    /\ UNCHANGED <<algoritmo, consolaVars, readyPCB, runVars, exitVars, ioVars, newLista,
                   readyLista, exitLista, global_PCB_list, hayEspacioReady>>

\* list_remove where the code has list_get.
Mirar_Quita ==
    /\ run_pc = "mirar" /\ consolasReady # <<>>
    /\ nextPCB' = Head(consolasReady)
    /\ consolasReady' = Tail(consolasReady)
    /\ run_pc' = "hayReady"
    /\ UNCHANGED <<algoritmo, consolaVars, readyVars, runningPCB, replanificar,
                   exitVars, ioVars, newLista, hayConsolasReady, exitLista, global_PCB_list,
                   hayEspacioReady>>

\* The inner loop of HRRN relies on the token its outer loop waited for and gave back.
EsperarReady_SinEsperar ==
    /\ run_pc = "hayReady"
    /\ run_pc' = "quitarReady"
    /\ UNCHANGED <<algoritmo, consolaVars, readyVars, runPCBs, exitVars, ioVars, newLista,
                   readyLista, exitLista, global_PCB_list, hayEspacioReady>>

\* HRRN does not give back the token it took to look at the list.
Devolver_Olvidado ==
    /\ run_pc = "devolver"
    /\ run_pc' = "mirar"
    /\ UNCHANGED <<algoritmo, consolaVars, readyVars, runPCBs, exitVars, ioVars, newLista,
                   readyLista, exitLista, global_PCB_list, hayEspacioReady>>

\* The place of a finished process is not given back.
SenialEspacio_Olvidada ==
    /\ exit_pc = "senialEspacio"
    /\ exit_pc' = "hayExit"
    /\ UNCHANGED <<algoritmo, consolaVars, readyVars, runVars, exitPCB, liberados, ioVars,
                   newLista, readyLista, exitLista, global_PCB_list, hayEspacioReady>>
-----------------------------------------------------------------------------
(* gestionarNuevasConexiones, one thread per console *)

\* PAQUETE: the program arrives and its PCB is added to NEW.
NuevaConsola(p) ==
    /\ consola[p] = "fuera"
    /\ consola' = [consola EXCEPT ![p] = "agregada"]
    /\ consolasNew' = Append(consolasNew, p)
    /\ UNCHANGED <<algoritmo, instrucciones, readyVars, runVars, exitVars, ioVars, hayConsolasNew,
                   readyLista, exitLista, global_PCB_list, hayEspacioReady>>

\* sem_post(&hayConsolasNew).
SenialNew(p) ==
    /\ consola[p] = "agregada"
    /\ consola' = [consola EXCEPT ![p] = "atendida"]
    /\ hayConsolasNew' = hayConsolasNew + 1
    /\ UNCHANGED <<algoritmo, instrucciones, readyVars, runVars, exitVars, ioVars, consolasNew,
                   readyLista, exitLista, global_PCB_list, hayEspacioReady>>
-----------------------------------------------------------------------------
(* gestionadorReady, the long-term scheduler *)

EsperarNew ==
    /\ ready_pc = "hayNew" /\ hayConsolasNew > 0
    /\ hayConsolasNew' = hayConsolasNew - 1
    /\ ready_pc' = "hayEspacio"
    /\ UNCHANGED <<algoritmo, consolaVars, readyPCB, runVars, exitVars, ioVars, consolasNew,
                   readyLista, exitLista, global_PCB_list, hayEspacioReady>>

EsperarEspacio ==
    /\ ready_pc = "hayEspacio" /\ hayEspacioReady > 0
    /\ hayEspacioReady' = hayEspacioReady - 1
    /\ ready_pc' = "quitarNew"
    /\ UNCHANGED <<algoritmo, consolaVars, readyPCB, runVars, exitVars, ioVars, newLista,
                   readyLista, exitLista, global_PCB_list>>

\* list_remove(consolasNew, 0); the memory then creates the initial segment table.
QuitarNew ==
    /\ ready_pc = "quitarNew" /\ consolasNew # <<>>
    /\ readyPCB' = Head(consolasNew)
    /\ consolasNew' = Tail(consolasNew)
    /\ ready_pc' = "agregarReady"
    /\ UNCHANGED <<algoritmo, consolaVars, runVars, exitVars, ioVars, hayConsolasNew, readyLista,
                   exitLista, global_PCB_list, hayEspacioReady>>

AgregarReady ==
    /\ ready_pc = "agregarReady"
    /\ consolasReady' = Append(consolasReady, readyPCB)
    /\ ready_pc' = "agregarGlobal"
    /\ UNCHANGED <<algoritmo, consolaVars, readyPCB, runVars, exitVars, ioVars, newLista,
                   hayConsolasReady, exitLista, global_PCB_list, hayEspacioReady>>

\* list_add(global_PCB_list, readyPCB), under no mutex and after READY is unlocked.
AgregarGlobal ==
    /\ ready_pc = "agregarGlobal"
    /\ global_PCB_list' = global_PCB_list \cup {readyPCB}
    /\ readyPCB' = NINGUNO
    /\ ready_pc' = "senialReady"
    /\ UNCHANGED <<algoritmo, consolaVars, runVars, exitVars, ioVars, newLista, readyLista,
                   exitLista, hayEspacioReady>>

SenialReady ==
    /\ ready_pc = "senialReady"
    /\ hayConsolasReady' = hayConsolasReady + 1
    /\ ready_pc' = "hayNew"
    /\ UNCHANGED <<algoritmo, consolaVars, readyPCB, runVars, exitVars, ioVars, newLista,
                   consolasReady, exitLista, global_PCB_list, hayEspacioReady>>

GestionadorReady ==
    EsperarNew \/ EsperarEspacio \/ QuitarNew \/ AgregarReady \/ AgregarGlobal \/ SenialReady
-----------------------------------------------------------------------------
(* gestionadorRunning: fifoRunning and hrrnRunning *)

\* Where the loop goes after readOp: HRRN leaves its inner loop when replanificar.
AlLazo(replanifica) ==
    IF algoritmo = "HRRN" /\ replanifica THEN "planificar" ELSE "hayReady"

\* ENTER was pressed: senialInicio.
Iniciar ==
    /\ run_pc = "inicio"
    /\ run_pc' = AlLazo(TRUE)
    /\ UNCHANGED <<algoritmo, consolaVars, readyVars, runPCBs, exitVars, ioVars, newLista,
                   readyLista, exitLista, global_PCB_list, hayEspacioReady>>

\* HRRN, top of the outer loop: replanificar = false, which a file error may set again before
\* the inner loop reads it.
Planificar ==
    /\ run_pc = "planificar"
    /\ replanificar' = FALSE
    /\ nextPCB' = NINGUNO
    /\ run_pc' = "esperarPlan"
    /\ UNCHANGED <<algoritmo, consolaVars, readyVars, runningPCB, exitVars, ioVars, newLista,
                   readyLista, exitLista, global_PCB_list, hayEspacioReady>>

EsperarPlan ==
    /\ run_pc = "esperarPlan" /\ hayConsolasReady > 0
    /\ hayConsolasReady' = hayConsolasReady - 1
    /\ run_pc' = "ordenar"
    /\ UNCHANGED <<algoritmo, consolaVars, readyVars, runPCBs, exitVars, ioVars, newLista,
                   consolasReady, exitLista, global_PCB_list, hayEspacioReady>>

\* hrrnListSort under mutexConsolasReady.
Ordenar ==
    /\ run_pc = "ordenar"
    /\ consolasReady' \in Permutaciones(consolasReady)
    /\ run_pc' = "devolver"
    /\ UNCHANGED <<algoritmo, consolaVars, readyVars, runPCBs, exitVars, ioVars, newLista,
                   hayConsolasReady, exitLista, global_PCB_list, hayEspacioReady>>

\* sem_post(&hayConsolasReady): the list was only looked at.
Devolver ==
    /\ run_pc = "devolver"
    /\ hayConsolasReady' = hayConsolasReady + 1
    /\ run_pc' = "mirar"
    /\ UNCHANGED <<algoritmo, consolaVars, readyVars, runPCBs, exitVars, ioVars, newLista,
                   consolasReady, exitLista, global_PCB_list, hayEspacioReady>>

\* list_get(consolasReady, 0): the process that is logged as RUNNING.
Mirar ==
    /\ run_pc = "mirar" /\ consolasReady # <<>>
    /\ nextPCB' = Head(consolasReady)
    /\ run_pc' = AlLazo(replanificar)
    /\ UNCHANGED <<algoritmo, consolaVars, readyVars, runningPCB, replanificar,
                   exitVars, ioVars, newLista, readyLista, exitLista, global_PCB_list,
                   hayEspacioReady>>

EsperarReady ==
    /\ run_pc = "hayReady" /\ hayConsolasReady > 0
    /\ hayConsolasReady' = hayConsolasReady - 1
    /\ run_pc' = "quitarReady"
    /\ UNCHANGED <<algoritmo, consolaVars, readyVars, runPCBs, exitVars, ioVars, newLista,
                   consolasReady, exitLista, global_PCB_list, hayEspacioReady>>

\* list_remove(consolasReady, 0); the process is sent to the CPU.
QuitarReady ==
    /\ run_pc = "quitarReady" /\ consolasReady # <<>>
    /\ runningPCB' = Head(consolasReady)
    /\ consolasReady' = Tail(consolasReady)
    /\ nextPCB' = NINGUNO
    /\ run_pc' = "cpu"
    /\ UNCHANGED <<algoritmo, consolaVars, readyVars, replanificar, exitVars,
                   ioVars, newLista, hayConsolasReady, exitLista, global_PCB_list,
                   hayEspacioReady>>

\* recibir_PCB and readOp: the CPU returns runningPCB, whose program has `restantes` returns
\* left, and readOp puts it in its next place, after which this thread no longer uses it.
Retorna(restantes, replanifica, pc) ==
    /\ run_pc = "cpu"
    /\ instrucciones' = [instrucciones EXCEPT ![runningPCB] = restantes]
    /\ runningPCB' = NINGUNO
    /\ replanificar' = replanifica
    /\ run_pc' = pc
    /\ UNCHANGED <<algoritmo, consola, readyVars, nextPCB, exitVars, io_senial, fs_pc, fsPCB,
                   newLista, hayConsolasReady, hayConsolasExit, hayConsolasBlocked,
                   global_PCB_list, hayEspacioReady>>

\* An operation after which the program goes on: it is not the last of the program.
Continua(replanifica, pc) ==
    /\ runningPCB # NINGUNO /\ instrucciones[runningPCB] > 1
    /\ Retorna(instrucciones[runningPCB] - 1, replanifica, pc)

\* YIELD.
RetornaYield ==
    /\ Continua(TRUE, "senialReady")
    /\ consolasReady' = Append(consolasReady, runningPCB)
    /\ UNCHANGED <<consolasExit, consolasBlocked, durmiendo>>

\* WAIT granted, SIGNAL, CREATE_SEGMENT and DELETE_SEGMENT: list_add_in_index(consolasReady, 0).
RetornaFrente ==
    /\ Continua(replanificar, "senialReady")
    /\ consolasReady' = <<runningPCB>> \o consolasReady
    /\ UNCHANGED <<consolasExit, consolasBlocked, durmiendo>>

\* i_o: a detached thread takes the PCB.
RetornaIO ==
    /\ Continua(TRUE, AlLazo(TRUE))
    /\ durmiendo' = durmiendo \cup {runningPCB}
    /\ UNCHANGED <<consolasReady, consolasExit, consolasBlocked>>

\* F_OPEN to F_TRUNCATE, recieves_filesystem_petition: the PCB is queued for operarFS.
RetornaFS ==
    /\ Continua(replanificar, "senialBlocked")
    /\ consolasBlocked' = Append(consolasBlocked, runningPCB)
    /\ UNCHANGED <<consolasReady, consolasExit, durmiendo>>

\* EXIT, ERROR and a lack of memory replan; a WAIT or SIGNAL of a resource that does not
\* exist ends the process without replanning.
RetornaTerminal(replanifica) ==
    /\ Retorna(0, replanifica, "senialExit")
    /\ consolasExit' = Append(consolasExit, runningPCB)
    /\ UNCHANGED <<consolasReady, consolasBlocked, durmiendo>>

RunSenialReady ==
    /\ run_pc = "senialReady"
    /\ hayConsolasReady' = hayConsolasReady + 1
    /\ run_pc' = AlLazo(replanificar)
    /\ UNCHANGED <<algoritmo, consolaVars, readyVars, runPCBs, exitVars, ioVars, newLista,
                   consolasReady, exitLista, global_PCB_list, hayEspacioReady>>

RunSenialExit ==
    /\ run_pc = "senialExit"
    /\ hayConsolasExit' = hayConsolasExit + 1
    /\ run_pc' = AlLazo(replanificar)
    /\ UNCHANGED <<algoritmo, consolaVars, readyVars, runPCBs, exitVars, ioVars, newLista,
                   readyLista, consolasExit, global_PCB_list, hayEspacioReady>>

\* readOp replans after recieves_filesystem_petition has posted.
RunSenialBlocked ==
    /\ run_pc = "senialBlocked"
    /\ hayConsolasBlocked' = hayConsolasBlocked + 1
    /\ replanificar' = TRUE
    /\ run_pc' = AlLazo(TRUE)
    /\ UNCHANGED <<algoritmo, consolaVars, readyVars, runningPCB, nextPCB,
                   exitVars, durmiendo, io_senial, fs_pc, fsPCB, consolasBlocked, newLista,
                   readyLista, exitLista, global_PCB_list, hayEspacioReady>>

ReadOp ==
    \/ RetornaYield \/ RetornaFrente \/ RetornaIO \/ RetornaFS
    \/ RetornaTerminal(TRUE) \/ RetornaTerminal(replanificar)

GestionadorRunning ==
    \/ Planificar \/ EsperarPlan \/ Ordenar \/ Devolver \/ Mirar \/ EsperarReady \/ QuitarReady
    \/ ReadOp \/ RunSenialReady \/ RunSenialExit \/ RunSenialBlocked
-----------------------------------------------------------------------------
(* retenerPCB, one detached thread per I/O *)

Despertar(p) ==
    /\ p \in durmiendo
    /\ durmiendo' = durmiendo \ {p}
    /\ consolasReady' = Append(consolasReady, p)
    /\ io_senial' = io_senial + 1
    /\ UNCHANGED <<algoritmo, consolaVars, readyVars, runVars, exitVars, fsVars, newLista,
                   hayConsolasReady, exitLista, global_PCB_list, hayEspacioReady>>

SenialIO ==
    /\ io_senial > 0
    /\ io_senial' = io_senial - 1
    /\ hayConsolasReady' = hayConsolasReady + 1
    /\ UNCHANGED <<algoritmo, consolaVars, readyVars, runVars, exitVars, durmiendo, fsVars,
                   newLista, consolasReady, exitLista, global_PCB_list, hayEspacioReady>>
-----------------------------------------------------------------------------
(* operarFS, one file system call at a time *)

EsperarBlocked ==
    /\ fs_pc = "hayBlocked" /\ hayConsolasBlocked > 0
    /\ hayConsolasBlocked' = hayConsolasBlocked - 1
    /\ fs_pc' = "quitarBlocked"
    /\ UNCHANGED <<algoritmo, consolaVars, readyVars, runVars, exitVars, durmiendo, io_senial,
                   fsPCB, consolasBlocked, newLista, readyLista, exitLista, global_PCB_list,
                   hayEspacioReady>>

QuitarBlocked ==
    /\ fs_pc = "quitarBlocked" /\ consolasBlocked # <<>>
    /\ fsPCB' = Head(consolasBlocked)
    /\ consolasBlocked' = Tail(consolasBlocked)
    /\ fs_pc' = "operar"
    /\ UNCHANGED <<algoritmo, consolaVars, readyVars, runVars, exitVars, durmiendo, io_senial,
                   hayConsolasBlocked, newLista, readyLista, exitLista, global_PCB_list,
                   hayEspacioReady>>

\* The file server answered: the PCB goes to the front of READY, or to its end (F_CLOSE).
Operar ==
    /\ fs_pc = "operar"
    /\ consolasReady' \in {<<fsPCB>> \o consolasReady, Append(consolasReady, fsPCB)}
    /\ fsPCB' = NINGUNO
    /\ fs_pc' = "senialReady"
    /\ UNCHANGED <<algoritmo, consolaVars, readyVars, runVars, exitVars, durmiendo, io_senial,
                   consolasBlocked, hayConsolasBlocked, newLista, hayConsolasReady, exitLista,
                   global_PCB_list, hayEspacioReady>>

\* F_CLOSE of a file that is not open, F_TRUNCATE without space or file: the process ends.
OperarError ==
    /\ fs_pc = "operar"
    /\ replanificar' = TRUE
    /\ consolasExit' = Append(consolasExit, fsPCB)
    /\ fsPCB' = NINGUNO
    /\ fs_pc' = "senialExit"
    /\ UNCHANGED <<algoritmo, consolaVars, readyVars, run_pc, runningPCB, nextPCB,
                   exitVars, durmiendo, io_senial, consolasBlocked, hayConsolasBlocked, newLista,
                   readyLista, hayConsolasExit, global_PCB_list, hayEspacioReady>>

FsSenialReady ==
    /\ fs_pc = "senialReady"
    /\ hayConsolasReady' = hayConsolasReady + 1
    /\ fs_pc' = "hayBlocked"
    /\ UNCHANGED <<algoritmo, consolaVars, readyVars, runVars, exitVars, durmiendo, io_senial,
                   fsPCB, consolasBlocked, hayConsolasBlocked, newLista, consolasReady, exitLista,
                   global_PCB_list, hayEspacioReady>>

FsSenialExit ==
    /\ fs_pc = "senialExit"
    /\ hayConsolasExit' = hayConsolasExit + 1
    /\ fs_pc' = "hayBlocked"
    /\ UNCHANGED <<algoritmo, consolaVars, readyVars, runVars, exitVars, durmiendo, io_senial,
                   fsPCB, consolasBlocked, hayConsolasBlocked, newLista, readyLista, consolasExit,
                   global_PCB_list, hayEspacioReady>>

OperarFS ==
    \/ EsperarBlocked \/ QuitarBlocked \/ Operar \/ OperarError
    \/ FsSenialReady \/ FsSenialExit
-----------------------------------------------------------------------------
(* gestionadorExit *)

EsperarExit ==
    /\ exit_pc = "hayExit" /\ hayConsolasExit > 0
    /\ hayConsolasExit' = hayConsolasExit - 1
    /\ exit_pc' = "quitarExit"
    /\ UNCHANGED <<algoritmo, consolaVars, readyVars, runVars, exitPCB, liberados, ioVars,
                   newLista, readyLista, consolasExit, global_PCB_list, hayEspacioReady>>

QuitarExit ==
    /\ exit_pc = "quitarExit" /\ consolasExit # <<>>
    /\ exitPCB' = Head(consolasExit)
    /\ consolasExit' = Tail(consolasExit)
    /\ exit_pc' = "liberar"
    /\ UNCHANGED <<algoritmo, consolaVars, readyVars, runVars, liberados, ioVars, newLista,
                   readyLista, hayConsolasExit, global_PCB_list, hayEspacioReady>>

\* list_remove_element(global_PCB_list, exitPCB), which does nothing when it is absent; then
\* the console is told EXIT and closed, and the PCB freed.
LiberarPCB ==
    /\ exit_pc = "liberar"
    /\ global_PCB_list' = global_PCB_list \ {exitPCB}
    /\ liberados' = liberados \cup {exitPCB}
    /\ exitPCB' = NINGUNO
    /\ exit_pc' = "senialEspacio"
    /\ UNCHANGED <<algoritmo, consolaVars, readyVars, runVars, ioVars, newLista, readyLista,
                   exitLista, hayEspacioReady>>

SenialEspacio ==
    /\ exit_pc = "senialEspacio"
    /\ hayEspacioReady' = hayEspacioReady + 1
    /\ exit_pc' = "hayExit"
    /\ UNCHANGED <<algoritmo, consolaVars, readyVars, runVars, exitPCB, liberados, ioVars,
                   newLista, readyLista, exitLista, global_PCB_list>>

GestionadorExit == EsperarExit \/ QuitarExit \/ LiberarPCB \/ SenialEspacio
-----------------------------------------------------------------------------
Next ==
    \/ \E p \in Procesos : NuevaConsola(p) \/ SenialNew(p) \/ Despertar(p)
    \/ Iniciar \/ GestionadorReady \/ GestionadorRunning \/ OperarFS \/ GestionadorExit \/ SenialIO

Spec == Init /\ [][Next]_vars

\* Every started thread keeps running; no console has to connect and ENTER may never come.
Equidad ==
    /\ \A p \in Procesos : WF_vars(SenialNew(p)) /\ WF_vars(Despertar(p))
    /\ WF_vars(SenialIO)
    /\ WF_vars(GestionadorReady) /\ WF_vars(GestionadorRunning)
    /\ WF_vars(OperarFS) /\ WF_vars(GestionadorExit)

FairSpec == Spec /\ Equidad
-----------------------------------------------------------------------------
(* Where each process is *)

EnLista(lista, p) == \E i \in DOMAIN lista : lista[i] = p

\* The PCB in the hands of a thread, between taking it from a list and leaving it in one.
EnManosDeReady(p) == ready_pc = "agregarReady" /\ readyPCB = p
EnCPU(p) == runningPCB = p
EnManosDeFS(p) == fsPCB = p
EnManosDeExit(p) == exitPCB = p

\* The life-cycle state of p, read off the lists and the threads.
EstadoDe(p) ==
    CASE consola[p] = "fuera" -> "FUERA"
      [] EnLista(consolasNew, p) \/ EnManosDeReady(p) -> "NEW"
      [] EnLista(consolasReady, p) -> "READY"
      [] EnCPU(p) -> "RUNNING"
      [] p \in durmiendo \/ EnLista(consolasBlocked, p) \/ EnManosDeFS(p) -> "BLOCKED"
      [] EnLista(consolasExit, p) \/ EnManosDeExit(p) -> "EXIT"
      [] OTHER -> "FIN"

Ciclo == INSTANCE CicloDeVida WITH estado <- [p \in Procesos |-> EstadoDe(p)]
-----------------------------------------------------------------------------
(* Properties *)

ReadyPcs == {"hayNew", "hayEspacio", "quitarNew", "agregarReady", "agregarGlobal", "senialReady"}
RunPcs == {"inicio", "planificar", "esperarPlan", "ordenar", "devolver", "mirar", "hayReady",
           "quitarReady", "cpu", "senialReady", "senialExit", "senialBlocked"}
FsPcs == {"hayBlocked", "quitarBlocked", "operar", "senialReady", "senialExit"}
ExitPcs == {"hayExit", "quitarExit", "liberar", "senialEspacio"}

\* Every variable keeps its type; the counting semaphores of kernel.c 180-184 are naturals.
TypeOK ==
    /\ algoritmo \in Algoritmos
    /\ consola \in [Procesos -> {"fuera", "agregada", "atendida"}]
    /\ instrucciones \in [Procesos -> Nat]
    /\ consolasNew \in Seq(Procesos) /\ consolasReady \in Seq(Procesos)
    /\ consolasBlocked \in Seq(Procesos) /\ consolasExit \in Seq(Procesos)
    /\ global_PCB_list \subseteq Procesos
    /\ hayConsolasNew \in Nat /\ hayEspacioReady \in Nat
    /\ hayConsolasReady \in Nat /\ hayConsolasBlocked \in Nat /\ hayConsolasExit \in Nat
    /\ ready_pc \in ReadyPcs /\ readyPCB \in Procesos \cup {NINGUNO}
    /\ run_pc \in RunPcs /\ runningPCB \in Procesos \cup {NINGUNO}
    /\ nextPCB \in Procesos \cup {NINGUNO}
    /\ replanificar \in BOOLEAN
    /\ fs_pc \in FsPcs /\ fsPCB \in Procesos \cup {NINGUNO}
    /\ exit_pc \in ExitPcs /\ exitPCB \in Procesos \cup {NINGUNO}
    /\ durmiendo \subseteq Procesos /\ io_senial \in Nat /\ liberados \subseteq Procesos
    /\ (readyPCB # NINGUNO <=> ready_pc \in {"agregarReady", "agregarGlobal"})
    /\ (runningPCB # NINGUNO <=> run_pc = "cpu")
    /\ (fsPCB # NINGUNO <=> fs_pc = "operar")
    /\ (exitPCB # NINGUNO <=> exit_pc = "liberar")

Cuenta(condicion) == IF condicion THEN 1 ELSE 0

Agregadas == {p \in Procesos : consola[p] = "agregada"}

FichasNew ==
    Len(consolasNew) = hayConsolasNew + Cardinality(Agregadas)
                       + Cuenta(ready_pc \in {"hayEspacio", "quitarNew"})

FichasReady ==
    Len(consolasReady) = hayConsolasReady + io_senial + Cuenta(fs_pc = "senialReady")
        + Cuenta(ready_pc \in {"agregarGlobal", "senialReady"})
        + Cuenta(run_pc \in {"ordenar", "devolver", "quitarReady", "senialReady"})

FichasBlocked ==
    Len(consolasBlocked) = hayConsolasBlocked + Cuenta(run_pc = "senialBlocked")
                           + Cuenta(fs_pc = "quitarBlocked")

FichasExit ==
    Len(consolasExit) = hayConsolasExit + Cuenta(run_pc = "senialExit")
                        + Cuenta(fs_pc = "senialExit") + Cuenta(exit_pc = "quitarExit")

\* The PCBs of each list are the tokens of its semaphore, the posts still due after a
\* list_add, and the tokens taken by a thread that has still to touch the list (or, HRRN, to
\* give the token back): no wake-up is lost and none is spent twice.
Fichas == FichasNew /\ FichasReady /\ FichasBlocked /\ FichasExit

\* No thread takes or looks at the head of an empty list (list_remove and list_get would
\* return NULL and the kernel die): the semaphores never promise a PCB that is not there,
\* although posts come after the list is unlocked and HRRN takes and gives back a token.
SinListaVacia ==
    /\ (ready_pc = "quitarNew" => consolasNew # <<>>)
    /\ (run_pc \in {"ordenar", "devolver", "mirar", "quitarReady"} => consolasReady # <<>>)
    /\ (fs_pc = "quitarBlocked" => consolasBlocked # <<>>)
    /\ (exit_pc = "quitarExit" => consolasExit # <<>>)

\* HRRN sorts, unlocks, looks at the head under a second lock, unlocks, and logs that PCB as
\* RUNNING (1126-1136) before it removes a head: whatever the other threads do meanwhile, the
\* PCB it holds a pointer to is still in READY, not freed.
MiradoSigueEnReady ==
    nextPCB # NINGUNO => EnLista(consolasReady, nextPCB)

\* The threads, lists and semaphores implement the life cycle.
ImplementaCiclo == Ciclo!Spec

\* Once ENTER was pressed every process that connected is eventually freed and its console
\* answered, whatever mix of YIELD, I/O, file calls and returns to the front its program makes.
TodosTerminan ==
    \A p \in Procesos : (consola[p] = "agregada" /\ run_pc # "inicio") ~> p \in liberados
=============================================================================
