---------------------------- MODULE CicloDeVida ----------------------------
(***************************************************************************)
(* What the scheduler of the kernel promises of every process, whatever   *)
(* the threads, lists and semaphores that implement it: the states of     *)
(* the process life cycle that the log lines of kernel.h name ("Estado    *)
(* Anterior ... Estado Actual"), at most one process on the only CPU, and *)
(* never more than GRADO_MAX processes admitted (READY, RUNNING, BLOCKED  *)
(* or EXIT not yet served).  No lists, no order, no semaphores.           *)
(***************************************************************************)
EXTENDS Naturals, FiniteSets

CONSTANTS Procesos,   \* the processes, one per console
          GRADO_MAX   \* GRADO_MAX_MULTIPROGRAMACION of kernel.config

VARIABLE estado       \* the state of each process

Estados == {"FUERA", "NEW", "READY", "RUNNING", "BLOCKED", "EXIT", "FIN"}

Admitidos == {p \in Procesos : estado[p] \in {"READY", "RUNNING", "BLOCKED", "EXIT"}}

Init == estado = [p \in Procesos |-> "FUERA"]

\* The process p goes from one of the states of `desde` to the state `hacia`.
Pasa(p, desde, hacia) ==
    /\ estado[p] \in desde
    /\ estado' = [estado EXCEPT ![p] = hacia]

Crear(p) == Pasa(p, {"FUERA"}, "NEW")

Admitir(p) == Cardinality(Admitidos) < GRADO_MAX /\ Pasa(p, {"NEW"}, "READY")

Despachar(p) == (\A q \in Procesos : estado[q] # "RUNNING") /\ Pasa(p, {"READY"}, "RUNNING")

Ceder(p) == Pasa(p, {"RUNNING"}, "READY")

Bloquear(p) == Pasa(p, {"RUNNING"}, "BLOCKED")

Desbloquear(p) == Pasa(p, {"BLOCKED"}, "READY")

Terminar(p) == Pasa(p, {"RUNNING", "BLOCKED"}, "EXIT")

Liberar(p) == Pasa(p, {"EXIT"}, "FIN")

Next ==
    \E p \in Procesos :
        \/ Crear(p) \/ Admitir(p) \/ Despachar(p) \/ Ceder(p)
        \/ Bloquear(p) \/ Desbloquear(p) \/ Terminar(p) \/ Liberar(p)

Spec == Init /\ [][Next]_estado
=============================================================================
