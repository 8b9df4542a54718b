---------------------------- MODULE Compactacion ----------------------------
(***************************************************************************)
(* The agreement of Kernel/src/kernel.h on when memory may be compacted:  *)
(* compaction_manager, on the short-term scheduler's thread, against      *)
(* recieves_filesystem_petition, which counts the F_READ and F_WRITE that *)
(* are queued with physical addresses, and operarFS, which serves the     *)
(* queue and gives the permission.                                        *)
(*                                                                        *)
(* compactionBlockers and compaction_required are read without their      *)
(* mutexes, so each read and each write is a step of its own.  Which      *)
(* process runs is any of those in consolasReady, a finished process      *)
(* leaves its place to another, and after a compaction the retry of       *)
(* CREATE_SEGMENT is answered (module Memoria).                           *)
(***************************************************************************)
EXTENDS Naturals, Sequences, FiniteSets

CONSTANTS Procesos,          \* the processes admitted
          MAX_SOLICITUDES    \* bound: compactions requested in a behaviour

NINGUNO == "ninguno"

ASSUME CompactacionAssumption ==
    /\ IsFiniteSet(Procesos) /\ NINGUNO \notin Procesos
    /\ MAX_SOLICITUDES \in Nat \ {0}

VARIABLES
    consolasReady,       \* the processes in READY
    consolasBlocked, hayConsolasBlocked,  \* the queue of operarFS
    compactionBlockers, compaction_required, compaction_permission,
    run_pc, runningPCB, \* the short-term scheduler and the process it dispatched
    nuevo_nodo,          \* the node that recieves_filesystem_petition is queueing
    fs_pc, un_nodo,      \* operarFS and the node it serves
    solicitudes,         \* compactions requested so far
    pendiente            \* history: something of an earlier request was pending at the last one

readyVars == <<consolasReady, runningPCB>>
colaVars == <<consolasBlocked, hayConsolasBlocked>>
permisoVars == <<compaction_required, compaction_permission>>
historia == <<solicitudes, pendiente>>
vars == <<readyVars, colaVars, permisoVars, compactionBlockers, run_pc, nuevo_nodo, fs_pc,
          un_nodo, historia>>

\* A BlockedNode; the call and its parameters are abstracted to whether it is F_READ or F_WRITE.
Nodo == [un_pcb : Procesos, impide_compactacion : BOOLEAN]

SinNodo == [un_pcb |-> NINGUNO, impide_compactacion |-> FALSE]

Init ==
    /\ consolasReady = Procesos
    /\ consolasBlocked = <<>> /\ hayConsolasBlocked = 0
    /\ compactionBlockers = 0 /\ compaction_required = FALSE /\ compaction_permission = 0
    /\ run_pc = "hayReady" /\ runningPCB = NINGUNO /\ nuevo_nodo = SinNodo
    /\ fs_pc = "leerContador" /\ un_nodo = SinNodo
    /\ solicitudes = 0 /\ pendiente = FALSE
-----------------------------------------------------------------------------
(* Faulty variants: slips in the code that the properties below must catch *)

\* Every call is counted down, not only F_READ and F_WRITE.
Operar_RestaSiempre ==
    /\ fs_pc = "operar"
    /\ consolasReady' = consolasReady \cup {un_nodo.un_pcb}
    /\ fs_pc' = "restar"
    /\ UNCHANGED <<runningPCB, colaVars, permisoVars, compactionBlockers, run_pc, nuevo_nodo,
                   un_nodo, historia>>

\* F_READ and F_WRITE are not counted down.
Restar_Olvidado ==
    /\ fs_pc = "restar"
    /\ un_nodo' = SinNodo
    /\ fs_pc' = "leerContador"
    /\ UNCHANGED <<readyVars, colaVars, permisoVars, compactionBlockers, run_pc, nuevo_nodo,
                   historia>>

\* The permission is given without looking at compactionBlockers.
LeerContador_SinMirar ==
    /\ fs_pc = "leerContador"
    /\ fs_pc' = "leerRequerida"
    /\ UNCHANGED <<readyVars, colaVars, permisoVars, compactionBlockers, run_pc, nuevo_nodo,
                   un_nodo, historia>>

\* The request is not left where operarFS reads it.
Solicitar_SinMarcar ==
    /\ run_pc = "solicitar"
    /\ solicitudes' = solicitudes + 1
    /\ pendiente' = FALSE
    /\ run_pc' = "leerContador"
    /\ UNCHANGED <<readyVars, colaVars, permisoVars, compactionBlockers, nuevo_nodo, fs_pc,
                   un_nodo>>

\* block_NODE does not post.
SenialBlocked_Olvidada ==
    /\ run_pc = "senialBlocked"
    /\ run_pc' = "hayReady"
    /\ UNCHANGED <<readyVars, colaVars, permisoVars, compactionBlockers, nuevo_nodo, fs_pc,
                   un_nodo, historia>>
-----------------------------------------------------------------------------
(* The short-term scheduler *)

Despachar(p) ==
    /\ run_pc = "hayReady" /\ p \in consolasReady
    /\ consolasReady' = consolasReady \ {p}
    /\ runningPCB' = p
    /\ run_pc' = "cpu"
    /\ UNCHANGED <<colaVars, permisoVars, compactionBlockers, nuevo_nodo, fs_pc, un_nodo,
                   historia>>

\* The process returns from the CPU and stays among the ready ones.
VuelveAReady ==
    /\ consolasReady' = consolasReady \cup {runningPCB}
    /\ runningPCB' = NINGUNO
    /\ run_pc' = "hayReady"

\* Any operation that is neither of files nor in need of compaction.
Retorna ==
    /\ run_pc = "cpu"
    /\ VuelveAReady
    /\ UNCHANGED <<colaVars, permisoVars, compactionBlockers, nuevo_nodo, fs_pc, un_nodo,
                   historia>>

\* recieves_filesystem_petition of F_READ or F_WRITE (impide) or of another file call.
RetornaFS(impide) ==
    /\ run_pc = "cpu"
    /\ nuevo_nodo' = [un_pcb |-> runningPCB, impide_compactacion |-> impide]
    /\ runningPCB' = NINGUNO
    /\ run_pc' = IF impide THEN "sumar" ELSE "encolar"
    /\ UNCHANGED <<consolasReady, colaVars, permisoVars, compactionBlockers, fs_pc, un_nodo,
                   historia>>

\* compactionBlockers++ under mutexCBcounter.
Sumar ==
    /\ run_pc = "sumar"
    /\ compactionBlockers' = compactionBlockers + 1
    /\ run_pc' = "encolar"
    /\ UNCHANGED <<readyVars, colaVars, permisoVars, nuevo_nodo, fs_pc, un_nodo, historia>>

\* block_NODE: list_add under mutexConsolasBlocked.
Encolar ==
    /\ run_pc = "encolar"
    /\ consolasBlocked' = Append(consolasBlocked, nuevo_nodo)
    /\ nuevo_nodo' = SinNodo
    /\ run_pc' = "senialBlocked"
    /\ UNCHANGED <<readyVars, hayConsolasBlocked, permisoVars, compactionBlockers, fs_pc, un_nodo,
                   historia>>

SenialBlocked ==
    /\ run_pc = "senialBlocked"
    /\ hayConsolasBlocked' = hayConsolasBlocked + 1
    /\ run_pc' = "hayReady"
    /\ UNCHANGED <<readyVars, consolasBlocked, permisoVars, compactionBlockers, nuevo_nodo, fs_pc,
                   un_nodo, historia>>

\* CREATE_SEGMENT is answered that memory must be compacted.
FaltaCompactar ==
    /\ run_pc = "cpu" /\ solicitudes < MAX_SOLICITUDES
    /\ run_pc' = "solicitar"
    /\ UNCHANGED <<readyVars, colaVars, permisoVars, compactionBlockers, nuevo_nodo, fs_pc,
                   un_nodo, historia>>
-----------------------------------------------------------------------------
(* compaction_manager *)

\* A permission not taken, a request not withdrawn, or operarFS about to act on either.
AlgoPendiente ==
    \/ compaction_permission > 0 \/ compaction_required
    \/ fs_pc \in {"leerRequerida", "darPermiso", "olvidar"}

Solicitar ==
    /\ run_pc = "solicitar"
    /\ compaction_required' = TRUE
    /\ solicitudes' = solicitudes + 1
    /\ pendiente' = AlgoPendiente
    /\ run_pc' = "leerContador"
    /\ UNCHANGED <<readyVars, colaVars, compaction_permission, compactionBlockers, nuevo_nodo,
                   fs_pc, un_nodo>>

\* if(compactionBlockers>0), under no mutex.
LeerBloqueos ==
    /\ run_pc = "leerContador"
    /\ run_pc' = IF compactionBlockers > 0 THEN "esperarPermiso" ELSE "compactar"
    /\ UNCHANGED <<readyVars, colaVars, permisoVars, compactionBlockers, nuevo_nodo, fs_pc,
                   un_nodo, historia>>

EsperarPermiso ==
    /\ run_pc = "esperarPermiso" /\ compaction_permission > 0
    /\ compaction_permission' = compaction_permission - 1
    /\ run_pc' = "compactar"
    /\ UNCHANGED <<readyVars, colaVars, compaction_required, compactionBlockers, nuevo_nodo,
                   fs_pc, un_nodo, historia>>

\* COMPACTION was sent: the memory moves the segments until the tables come back, and then
\* create_segment asks again.
Compactar ==
    /\ run_pc = "compactar"
    /\ VuelveAReady
    /\ UNCHANGED <<colaVars, permisoVars, compactionBlockers, nuevo_nodo, fs_pc, un_nodo,
                   historia>>
-----------------------------------------------------------------------------
(* operarFS *)

\* if(compactionBlockers==0), under no mutex.
LeerContador ==
    /\ fs_pc = "leerContador"
    /\ fs_pc' = IF compactionBlockers = 0 THEN "leerRequerida" ELSE "hayBlocked"
    /\ UNCHANGED <<readyVars, colaVars, permisoVars, compactionBlockers, run_pc, nuevo_nodo,
                   un_nodo, historia>>

\* value_CR=compaction_required under mutex_CR.
LeerRequerida ==
    /\ fs_pc = "leerRequerida"
    /\ fs_pc' = IF compaction_required THEN "darPermiso" ELSE "hayBlocked"
    /\ UNCHANGED <<readyVars, colaVars, permisoVars, compactionBlockers, run_pc, nuevo_nodo,
                   un_nodo, historia>>

DarPermiso ==
    /\ fs_pc = "darPermiso"
    /\ compaction_permission' = compaction_permission + 1
    /\ fs_pc' = "olvidar"
    /\ UNCHANGED <<readyVars, colaVars, compaction_required, compactionBlockers, run_pc,
                   nuevo_nodo, un_nodo, historia>>

\* compaction_required=false, under no mutex.
Olvidar ==
    /\ fs_pc = "olvidar"
    /\ compaction_required' = FALSE
    /\ fs_pc' = "hayBlocked"
    /\ UNCHANGED <<readyVars, colaVars, compaction_permission, compactionBlockers, run_pc,
                   nuevo_nodo, un_nodo, historia>>

EsperarBlocked ==
    /\ fs_pc = "hayBlocked" /\ hayConsolasBlocked > 0
    /\ hayConsolasBlocked' = hayConsolasBlocked - 1
    /\ fs_pc' = "quitarBlocked"
    /\ UNCHANGED <<readyVars, consolasBlocked, permisoVars, compactionBlockers, run_pc,
                   nuevo_nodo, un_nodo, historia>>

QuitarBlocked ==
    /\ fs_pc = "quitarBlocked" /\ consolasBlocked # <<>>
    /\ un_nodo' = Head(consolasBlocked)
    /\ consolasBlocked' = Tail(consolasBlocked)
    /\ fs_pc' = "operar"
    /\ UNCHANGED <<readyVars, hayConsolasBlocked, permisoVars, compactionBlockers, run_pc,
                   nuevo_nodo, historia>>

\* process_fread and the rest: the file server answers and the PCB goes back to READY, before
\* compactionBlockers is counted down.
Operar ==
    /\ fs_pc = "operar"
    /\ consolasReady' = consolasReady \cup {un_nodo.un_pcb}
    /\ un_nodo' = IF un_nodo.impide_compactacion THEN un_nodo ELSE SinNodo
    /\ fs_pc' = IF un_nodo.impide_compactacion THEN "restar" ELSE "leerContador"
    /\ UNCHANGED <<runningPCB, colaVars, permisoVars, compactionBlockers, run_pc, nuevo_nodo,
                   historia>>

\* compactionBlockers-- under mutexCBcounter.
Restar ==
    /\ fs_pc = "restar"
    /\ compactionBlockers' = compactionBlockers - 1
    /\ un_nodo' = SinNodo
    /\ fs_pc' = "leerContador"
    /\ UNCHANGED <<readyVars, colaVars, permisoVars, run_pc, nuevo_nodo, historia>>
-----------------------------------------------------------------------------
GestionadorRunning ==
    \/ \E p \in Procesos : Despachar(p)
    \/ Retorna \/ (\E impide \in BOOLEAN : RetornaFS(impide)) \/ FaltaCompactar
    \/ Sumar \/ Encolar \/ SenialBlocked
    \/ Solicitar \/ LeerBloqueos \/ EsperarPermiso \/ Compactar

OperarFS ==
    \/ LeerContador \/ LeerRequerida \/ DarPermiso \/ Olvidar
    \/ EsperarBlocked \/ QuitarBlocked \/ Operar \/ Restar

Next == GestionadorRunning \/ OperarFS

Spec == Init /\ [][Next]_vars

\* Both threads keep running; the memory and the file server answer.
FairSpec == Spec /\ WF_vars(GestionadorRunning) /\ WF_vars(OperarFS)
-----------------------------------------------------------------------------
(* Properties *)

Cuenta(condicion) == IF condicion THEN 1 ELSE 0

RunPcs == {"hayReady", "cpu", "sumar", "encolar", "senialBlocked", "solicitar", "leerContador",
           "esperarPermiso", "compactar"}
FsPcs == {"leerContador", "leerRequerida", "darPermiso", "olvidar", "hayBlocked",
          "quitarBlocked", "operar", "restar"}

\* Every variable keeps its type; the counter of blockers never goes below zero.
TypeOK ==
    /\ consolasReady \subseteq Procesos /\ runningPCB \in Procesos \cup {NINGUNO}
    /\ consolasBlocked \in Seq(Nodo) /\ hayConsolasBlocked \in Nat
    /\ compactionBlockers \in Nat /\ compaction_required \in BOOLEAN
    /\ compaction_permission \in Nat
    /\ run_pc \in RunPcs /\ nuevo_nodo \in Nodo \cup {SinNodo}
    /\ fs_pc \in FsPcs /\ un_nodo \in Nodo \cup {SinNodo}
    /\ solicitudes \in 0 .. MAX_SOLICITUDES /\ pendiente \in BOOLEAN

\* The F_READ and F_WRITE whose addresses were translated and that were not carried out yet.
EnCola == {i \in DOMAIN consolasBlocked : consolasBlocked[i].impide_compactacion}

HayOperacionQueImpide ==
    EnCola # {} \/ (fs_pc = "operar" /\ un_nodo.impide_compactacion)

\* compactionBlockers counts the F_READ and F_WRITE that were accepted and not finished: in
\* the hands of the scheduler, queued, or with operarFS.
BloqueosContados ==
    compactionBlockers =
        Cuenta(run_pc = "encolar" /\ nuevo_nodo.impide_compactacion) + Cardinality(EnCola)
        + Cuenta(fs_pc \in {"operar", "restar"} /\ un_nodo.impide_compactacion)

\* When nothing of an earlier request was pending, compaction starts only once every F_READ
\* and F_WRITE was carried out, in whatever order the two threads read and write.
CompactaEnCalma ==
    run_pc = "compactar" /\ ~pendiente => ~HayOperacionQueImpide

\* When nothing of an earlier request was pending, the permission waited for arrives.
PermisoEnCalma ==
    (run_pc = "esperarPermiso" /\ ~pendiente) ~> (run_pc = "compactar")

\* A file call that was queued is carried out, even while the scheduler waits for the
\* permission: the two threads never wait on each other.
OperacionAtendida ==
    \A p \in Procesos :
        (\E i \in DOMAIN consolasBlocked : consolasBlocked[i].un_pcb = p) ~> p \in consolasReady
=============================================================================
