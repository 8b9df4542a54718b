---------------------------- MODULE MemoriaIdeal ----------------------------
(***************************************************************************)
(* What the memory promises the kernel: segments live until they are      *)
(* deleted or their process ends, and a segment is refused ("Out of       *)
(* Memory") exactly when the free bytes, wherever they are, do not reach. *)
(* Bases, holes, the assignment algorithm and compaction do not show.     *)
(***************************************************************************)
EXTENDS Naturals, FiniteSets, Sequences, SequencesExt

CONSTANTS PIDs, IDs, Tamanos, TAM_MEMORIA, TAM_SEGMENTO_0

VARIABLES asignado,   \* PID -> its segments [ID, limite], in the order of creation
          rechazados  \* the processes that were refused a segment: they only end

Asignaciones == UNION {{p} \X DOMAIN asignado[p] : p \in DOMAIN asignado}
\* The bytes of the segments, one by one.
Reservados == UNION {{e} \X (1 .. asignado[e[1]][e[2]].limite) : e \in Asignaciones}
Ocupado == TAM_SEGMENTO_0 + Cardinality(Reservados)

Init == asignado = <<>> /\ rechazados = {}

Alta(p) ==
    /\ p \notin DOMAIN asignado
    /\ asignado' = [q \in DOMAIN asignado \cup {p} |-> IF q = p THEN <<>> ELSE asignado[q]]
    /\ UNCHANGED rechazados

Crear(p, id, tam) ==
    /\ p \in DOMAIN asignado \ rechazados
    /\ Ocupado + tam <= TAM_MEMORIA
    /\ asignado' = [asignado EXCEPT ![p] = Append(@, [ID |-> id, limite |-> tam])]
    /\ UNCHANGED rechazados

Rechazar(p, tam) ==
    /\ p \in DOMAIN asignado \ rechazados
    /\ Ocupado + tam > TAM_MEMORIA
    /\ rechazados' = rechazados \cup {p}
    /\ UNCHANGED asignado

\* Of two segments with the same ID the older one goes.
Borrar(p, id) ==
    /\ p \in DOMAIN asignado \ rechazados
    /\ \E i \in DOMAIN asignado[p] :
          /\ asignado[p][i].ID = id
          /\ \A j \in 1 .. i - 1 : asignado[p][j].ID # id
          /\ asignado' = [asignado EXCEPT ![p] = RemoveAt(@, i)]
    /\ UNCHANGED rechazados

Baja(p) ==
    /\ p \in DOMAIN asignado
    /\ asignado' = [q \in DOMAIN asignado \ {p} |-> asignado[q]]
    /\ rechazados' = rechazados \ {p}

Next ==
    \E p \in PIDs :
        \/ Alta(p) \/ Baja(p)
        \/ \E tam \in Tamanos : Rechazar(p, tam) \/ \E id \in IDs : Crear(p, id, tam)
        \/ \E id \in IDs : Borrar(p, id)

Spec == Init /\ [][Next]_<<asignado, rechazados>>
=============================================================================
