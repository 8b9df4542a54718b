------------------------------- MODULE Memoria -------------------------------
(***************************************************************************)
(* The segments of Memoria/src/memoria.h: the tables of the processes,    *)
(* the list of holes, the three assignment algorithms, and compaction,    *)
(* over the bytes of user_space. The thread esperarKernel serves one      *)
(* request of the kernel at a time; compaction is one step per displaced  *)
(* segment, and the end of a process one step per freed segment. A request*)
(* that needs compaction stays in `pedido` until the kernel's             *)
(* create_segment has asked for the compaction and retried; meanwhile its *)
(* running thread, so also the CPU, waits, while processes may still be   *)
(* admitted or end.                                                       *)
(*                                                                        *)
(* A byte is written ("x") or blank.  Bounds, with no check in the code:  *)
(* MAX_SEGMENTOS per process (CANT_SEGMENTOS is read and never used), the *)
(* sizes in Tamanos, and nobody deletes segment 0, which all tables share.*)
(***************************************************************************)
EXTENDS Integers, Sequences, FiniteSets, SequencesExt

CONSTANTS PIDs, IDs, Tamanos,
          TAM_MEMORIA, TAM_SEGMENTO_0,
          Algoritmos,      \* the ALGORITMO_ASIGNACION values considered
          MAX_SEGMENTOS

ASSUME MemoriaAssumption ==
    /\ TAM_SEGMENTO_0 \in Nat \ {0} /\ TAM_MEMORIA \in Nat /\ TAM_SEGMENTO_0 < TAM_MEMORIA
    /\ IDs \subseteq Nat \ {0} /\ Tamanos \subseteq Nat \ {0}
    /\ Algoritmos \subseteq {"BEST", "FIRST", "WORST"} /\ MAX_SEGMENTOS \in Nat

VARIABLES
    algoritmo,           \* configData.ALGORITMO_ASIGNACION
    diccionario_tablas,  \* PID -> list of segments [ID, base, limite]
    huecos_libres,       \* list of holes [pos, size]
    user_space,
    pedido,              \* the CREATE_SEGMENT that waits for compaction
    pc,                  \* esperarKernel: serving requests, freeing a table or compacting
    liberando,           \* the table that EXIT took out of the dictionary
    rechazados,          \* the processes the kernel ends with "Out of Memory"
    caido                \* the memory dereferenced NULL

vars == <<algoritmo, diccionario_tablas, huecos_libres, user_space, pedido, pc, liberando,
          rechazados, caido>>

NINGUNO == [pid |-> 0]
Direcciones == 0 .. TAM_MEMORIA - 1
segmento_0 == [ID |-> 0, base |-> 0, limite |-> TAM_SEGMENTO_0]

Init ==
    /\ algoritmo \in Algoritmos
    /\ diccionario_tablas = <<>>
    /\ huecos_libres = <<[pos |-> TAM_SEGMENTO_0, size |-> TAM_MEMORIA - TAM_SEGMENTO_0]>>
    /\ user_space = [d \in Direcciones |-> " "]
    /\ pedido = NINGUNO /\ pc = "esperar" /\ liberando = <<>>
    /\ rechazados = {} /\ caido = FALSE
-----------------------------------------------------------------------------
(* Faulty variants: slips in the code that the properties below must catch *)

\* The hole above is not looked for.
alojar_SinSuperior(huecos, base, lim) ==
    LET inf == SelectInSeq(huecos, LAMBDA h : h.pos + h.size = base)
    IN  IF inf # 0 THEN [huecos EXCEPT ![inf].size = @ + lim]
        ELSE Append(huecos, [pos |-> base, size |-> lim])

\* The position of the hole is not moved past the new segment.
Ocupar_SinMover(i, tam) ==
    IF huecos_libres[i].size = tam THEN RemoveAt(huecos_libres, i)
    ELSE [huecos_libres EXCEPT ![i].size = @ - tam]

\* An exhausted hole is kept, with size 0.
Ocupar_DejaVacio(i, tam) ==
    [huecos_libres EXCEPT ![i] = [pos |-> @.pos + tam, size |-> @.size - tam]]

\* The largest hole counts, not the sum.
BytesLibres_Mayor ==
    FoldSeq(LAMBDA h, n : IF h.size > n THEN h.size ELSE n, 0, huecos_libres)

\* Only the segments of the process that asks are moved.
SegmentosUtiles_DeUnaTabla(hueco) ==
    {e \in {<<p, i>> : p \in {pedido.pid}, i \in 1 .. MAX_SEGMENTOS + 1} :
        /\ e[2] \in DOMAIN diccionario_tablas[e[1]]
        /\ diccionario_tablas[e[1]][e[2]].base > hueco.pos}

\* memset of one byte too many.
Mover_BorraDeMas(desde, hasta, tam) ==
    [d \in Direcciones |->
        IF d \in hasta .. hasta + tam - 1 THEN user_space[desde + (d - hasta)]
        ELSE IF d \in desde .. desde + tam THEN " "
        ELSE user_space[d]]
-----------------------------------------------------------------------------
(* Holes *)

\* list_find: the first hole of the list that satisfies the condition, 0 if none does.
EsAdyacenteInferior(h, base) == h.pos + h.size = base
EsAdyacenteSuperior(h, base, lim) == base + lim = h.pos

alojar_nuevo_hueco(huecos, base, lim) ==
    LET inf == SelectInSeq(huecos, LAMBDA h : EsAdyacenteInferior(h, base))
        sup == SelectInSeq(huecos, LAMBDA h : EsAdyacenteSuperior(h, base, lim))
    IN  CASE inf # 0 /\ sup # 0 ->
                RemoveAt([huecos EXCEPT ![inf].size = @ + lim + huecos[sup].size], sup)
          [] inf # 0 /\ sup = 0 -> [huecos EXCEPT ![inf].size = @ + lim]
          [] inf = 0 /\ sup # 0 ->
                [huecos EXCEPT ![sup] = [pos |-> base, size |-> @.size + lim]]
          [] OTHER -> Append(huecos, [pos |-> base, size |-> lim])

\* Holes that can take the segment, and the one each algorithm takes: the first of the list
\* among equals (list_get_minimum and list_get_maximum keep the earlier one).
Utiles(tam) == {i \in DOMAIN huecos_libres : huecos_libres[i].size >= tam}

Clave(h) == CASE algoritmo = "BEST" -> h.size
              [] algoritmo = "FIRST" -> h.pos
              [] algoritmo = "WORST" -> -h.size

Elegido(tam) ==
    CHOOSE i \in Utiles(tam) : \A j \in Utiles(tam) :
        \/ Clave(huecos_libres[i]) < Clave(huecos_libres[j])
        \/ Clave(huecos_libres[i]) = Clave(huecos_libres[j]) /\ i <= j

\* The hole gives its first bytes to the segment; an exhausted hole leaves the list.
Ocupar(i, tam) ==
    IF huecos_libres[i].size = tam THEN RemoveAt(huecos_libres, i)
    ELSE [huecos_libres EXCEPT ![i] = [pos |-> @.pos + tam, size |-> @.size - tam]]

BytesLibres == FoldSeq(LAMBDA h, n : n + h.size, 0, huecos_libres)
-----------------------------------------------------------------------------
(* Requests of the kernel *)

Libre == ~caido /\ pc = "esperar"
\* The kernel's running thread has no request under way.
SinPedido == Libre /\ pedido = NINGUNO
Vivos == DOMAIN diccionario_tablas \ rechazados
Tabla(p) == diccionario_tablas[p]
Bytes(s) == s.base .. s.base + s.limite - 1

\* create_segment for a PID with no table: the initial table, whatever ID and size.
CrearTabla(p) ==
    /\ Libre /\ p \notin DOMAIN diccionario_tablas
    /\ diccionario_tablas' = [q \in DOMAIN diccionario_tablas \cup {p} |->
                                 IF q = p THEN <<segmento_0>> ELSE Tabla(q)]
    /\ UNCHANGED <<algoritmo, huecos_libres, user_space, pedido, pc, liberando, rechazados, caido>>

\* calloc_segment returns 0: allocated.
CallocAloja(p, id, tam) ==
    /\ Utiles(tam) # {}
    /\ LET i == Elegido(tam)
           nuevo == [ID |-> id, base |-> huecos_libres[i].pos, limite |-> tam]
       IN  /\ diccionario_tablas' = [diccionario_tablas EXCEPT ![p] = Append(@, nuevo)]
           /\ huecos_libres' = Ocupar(i, tam)
    /\ pedido' = NINGUNO
    /\ UNCHANGED <<algoritmo, user_space, pc, liberando, rechazados, caido>>

\* ... 1: fits in the sum of the holes, compaction needed.
CallocPideCompactar(p, id, tam) ==
    /\ Utiles(tam) = {} /\ BytesLibres >= tam
    /\ pedido' = [pid |-> p, id |-> id, tam |-> tam, compactado |-> FALSE]
    /\ UNCHANGED <<algoritmo, diccionario_tablas, huecos_libres, user_space, pc, liberando,
                   rechazados, caido>>

\* ... -1: no space; the kernel ends the process.
CallocRechaza(p, tam) ==
    /\ Utiles(tam) = {} /\ BytesLibres < tam
    /\ pedido' = NINGUNO
    /\ rechazados' = rechazados \cup {p}
    /\ UNCHANGED <<algoritmo, diccionario_tablas, huecos_libres, user_space, pc, liberando,
                   caido>>

Calloc(p, id, tam) ==
    CallocAloja(p, id, tam) \/ CallocPideCompactar(p, id, tam) \/ CallocRechaza(p, tam)

CrearSegmento(p, id, tam) ==
    /\ SinPedido /\ p \in Vivos /\ Len(Tabla(p)) <= MAX_SEGMENTOS
    /\ Calloc(p, id, tam)

\* The kernel's create_segment calls itself after compaction_manager.
Reintentar ==
    /\ Libre /\ pedido # NINGUNO /\ pedido.compactado
    /\ Calloc(pedido.pid, pedido.id, pedido.tam)

\* delete_segment: the first segment of the table with that ID ...
BorrarSegmento(p, id) ==
    /\ SinPedido /\ p \in Vivos
    /\ \E i \in DOMAIN Tabla(p) : Tabla(p)[i].ID = id
    /\ LET i == SelectInSeq(Tabla(p), LAMBDA s : s.ID = id)
       IN  /\ diccionario_tablas' = [diccionario_tablas EXCEPT ![p] = RemoveAt(@, i)]
           /\ huecos_libres' =
                 alojar_nuevo_hueco(huecos_libres, Tabla(p)[i].base, Tabla(p)[i].limite)
    /\ UNCHANGED <<algoritmo, user_space, pedido, pc, liberando, rechazados, caido>>

\* ... and when no segment has it, the NULL that list_remove_by_condition returns is used.
BorrarInexistente(p, id) ==
    /\ SinPedido /\ p \in Vivos
    /\ \A i \in DOMAIN Tabla(p) : Tabla(p)[i].ID # id
    /\ caido' = TRUE
    /\ UNCHANGED <<algoritmo, diccionario_tablas, huecos_libres, user_space, pedido, pc,
                   liberando, rechazados>>

\* EXIT of a process that has no request under way: dictionary_remove ...
Exit(p) ==
    /\ Libre /\ p \in DOMAIN diccionario_tablas
    /\ pedido = NINGUNO \/ pedido.pid # p
    /\ diccionario_tablas' = [q \in DOMAIN diccionario_tablas \ {p} |-> Tabla(q)]
    /\ liberando' = Tabla(p) /\ pc' = "salir"
    /\ rechazados' = rechazados \ {p}
    /\ UNCHANGED <<algoritmo, huecos_libres, user_space, pedido, caido>>

\* ... every segment after the first ...
LiberarSegmento ==
    /\ ~caido /\ pc = "salir" /\ Len(liberando) > 1
    /\ huecos_libres' = alojar_nuevo_hueco(huecos_libres, liberando[2].base, liberando[2].limite)
    /\ liberando' = RemoveAt(liberando, 2)
    /\ UNCHANGED <<algoritmo, diccionario_tablas, user_space, pedido, pc, rechazados, caido>>

\* ... and list_destroy.
FinExit ==
    /\ ~caido /\ pc = "salir" /\ Len(liberando) = 1
    /\ liberando' = <<>> /\ pc' = "esperar"
    /\ UNCHANGED <<algoritmo, diccionario_tablas, huecos_libres, user_space, pedido, rechazados,
                   caido>>

\* MOV_OUT of the process on the CPU: its addresses are translated by the MMU inside a
\* segment; here a value as long as segment i, which is not the shared one.  The CPU does not
\* wait for the memory's other threads.
MovOut(p, i) ==
    /\ ~caido /\ pedido = NINGUNO /\ p \in Vivos /\ i \in DOMAIN Tabla(p) \ {1}
    /\ user_space' = [d \in Direcciones |-> IF d \in Bytes(Tabla(p)[i]) THEN "x" ELSE user_space[d]]
    /\ UNCHANGED <<algoritmo, diccionario_tablas, huecos_libres, pedido, pc, liberando, rechazados,
                   caido>>
-----------------------------------------------------------------------------
(* Compaction *)

\* tabla_global_segmentos: every entry of every table.
Segmentos == UNION {{p} \X DOMAIN Tabla(p) : p \in DOMAIN diccionario_tablas}
Seg(e) == Tabla(e[1])[e[2]]

\* The hole of least position, the first of the list among equals.
PrimerHueco ==
    CHOOSE i \in DOMAIN huecos_libres : \A j \in DOMAIN huecos_libres :
        huecos_libres[i].pos < huecos_libres[j].pos
            \/ (huecos_libres[i].pos = huecos_libres[j].pos /\ i <= j)

SegmentosUtiles(hueco) == {e \in Segmentos : Seg(e).base > hueco.pos}

\* memmove of the segment to the hole, then memset of where it was.
Mover(desde, hasta, tam) ==
    LET movido == [d \in Direcciones |->
                      IF d \in hasta .. hasta + tam - 1 THEN user_space[desde + (d - hasta)]
                      ELSE user_space[d]]
    IN  [d \in Direcciones |-> IF d \in desde .. desde + tam - 1 THEN " " ELSE movido[d]]

Compactar ==
    /\ Libre /\ pedido # NINGUNO /\ ~pedido.compactado
    /\ pc' = "compactar"
    /\ UNCHANGED <<algoritmo, diccionario_tablas, huecos_libres, user_space, pedido, liberando,
                   rechazados, caido>>

\* One turn of the loop, with realloc_segment: the hole is rebuilt behind the segment.
Desplazar ==
    /\ ~caido /\ pc = "compactar" /\ huecos_libres # <<>>
    /\ LET hueco == huecos_libres[PrimerHueco]
       IN  \E e \in SegmentosUtiles(hueco) :
              /\ \A f \in SegmentosUtiles(hueco) : Seg(e).base <= Seg(f).base
              /\ user_space' = Mover(Seg(e).base, hueco.pos, Seg(e).limite)
              /\ diccionario_tablas' = [diccionario_tablas EXCEPT ![e[1]][e[2]].base = hueco.pos]
              /\ huecos_libres' = alojar_nuevo_hueco(RemoveAt(huecos_libres, PrimerHueco),
                                                     hueco.pos + Seg(e).limite, hueco.size)
    /\ UNCHANGED <<algoritmo, pedido, pc, liberando, rechazados, caido>>

\* No segment beyond the first hole: the tables go back to the kernel.
FinCompactar ==
    /\ ~caido /\ pc = "compactar" /\ huecos_libres # <<>>
    /\ SegmentosUtiles(huecos_libres[PrimerHueco]) = {}
    /\ pc' = "esperar"
    /\ pedido' = [pedido EXCEPT !.compactado = TRUE]
    /\ UNCHANGED <<algoritmo, diccionario_tablas, huecos_libres, user_space, liberando, rechazados,
                   caido>>

compactar_segmentos == Compactar \/ Desplazar \/ FinCompactar
-----------------------------------------------------------------------------
Next ==
    \/ \E p \in PIDs :
          \/ CrearTabla(p) \/ Exit(p)
          \/ \E id \in IDs : BorrarSegmento(p, id) \/ BorrarInexistente(p, id)
          \/ \E id \in IDs, tam \in Tamanos : CrearSegmento(p, id, tam)
          \/ \E i \in 2 .. MAX_SEGMENTOS + 1 : MovOut(p, i)
    \/ LiberarSegmento \/ FinExit \/ Reintentar \/ compactar_segmentos

Spec == Init /\ [][Next]_vars
-----------------------------------------------------------------------------
(* Properties *)

Segmento == [ID : IDs \cup {0}, base : Nat, limite : Nat \ {0}]
Pedidos == [pid : PIDs, id : IDs, tam : Tamanos, compactado : BOOLEAN]

\* Every variable keeps its type.
TypeOK ==
    /\ algoritmo \in Algoritmos
    /\ DOMAIN diccionario_tablas \subseteq PIDs
    /\ \A p \in DOMAIN diccionario_tablas : Tabla(p) \in Seq(Segmento)
    /\ huecos_libres \in Seq([pos : Nat, size : Nat \ {0}])
    /\ user_space \in [Direcciones -> {" ", "x"}]
    /\ pedido \in Pedidos \cup {NINGUNO}
    /\ pc \in {"esperar", "salir", "compactar"} /\ caido \in BOOLEAN
    /\ liberando \in Seq(Segmento)
    /\ rechazados \subseteq DOMAIN diccionario_tablas

\* The entries that are not the shared segment 0.
Propios == {e \in Segmentos : e[2] > 1}

\* At every moment, also half way through a compaction or the end of a process, segments and
\* holes share out the memory: every byte is in segment 0, or in one segment (which may be
\* about to be freed), or in one hole, and in no two. Free neighbours are always merged, in
\* whatever order segments are freed: else a request would be refused, or compaction asked
\* for, with a hole large enough.
ParticionDeMemoria ==
    /\ \A i, j \in DOMAIN huecos_libres :
          huecos_libres[i].pos + huecos_libres[i].size # huecos_libres[j].pos
    /\ \A d \in Direcciones :
        Cardinality({e \in Propios : d \in Bytes(Seg(e))})
          + Cardinality({i \in 2 .. Len(liberando) : d \in Bytes(liberando[i])})
          + Cardinality({i \in DOMAIN huecos_libres :
                d \in huecos_libres[i].pos .. huecos_libres[i].pos + huecos_libres[i].size - 1})
          = (IF d < TAM_SEGMENTO_0 THEN 0 ELSE 1)

\* memoria.h 580 "asume que el segmento y el hueco son adyacentes, y el hueco está a la
\* izquierda": so it is at every turn of the loop of compactar_segmentos.
DesplazaAdyacente ==
    pc = "compactar" =>
        /\ huecos_libres # <<>>
        /\ LET hueco == huecos_libres[PrimerHueco]
           IN  SegmentosUtiles(hueco) # {} =>
                  \E e \in SegmentosUtiles(hueco) : Seg(e).base = hueco.pos + hueco.size

\* The create_segment of the kernel that calls itself after the compaction (kernel.h 500-503)
\* is served by the second call, though other processes may have been admitted or ended since.
ReintentoSuficiente ==
    pedido # NINGUNO /\ pedido.compactado => Utiles(pedido.tam) # {}

Contenido(e) == [k \in 0 .. Seg(e).limite - 1 |-> user_space[Seg(e).base + k]]

\* Compaction keeps the bytes of the segments it does not move, and of those it moves by at
\* least their own length.
CompactaSinSolapar ==
    [][pc = "compactar" =>
          \A e \in Segmentos :
              \/ Contenido(e)' = Contenido(e)
              \/ 0 < Seg(e).base - Seg(e)'.base /\ Seg(e).base - Seg(e)'.base < Seg(e).limite]_vars

\* memoria.h 621 "muevo el contenido del bloque que le corresponde al segmento en espacio de
\* usuario": compaction keeps the bytes of every segment.
CompactaConservaContenido ==
    [][pc = "compactar" => \A e \in Segmentos : Contenido(e)' = Contenido(e)]_vars

\* A table without segment 0 and without bases.
SinBases(tabla) ==
    [i \in 1 .. Len(tabla) - 1 |-> [ID |-> tabla[i + 1].ID, limite |-> tabla[i + 1].limite]]
asignado == [p \in DOMAIN diccionario_tablas |-> SinBases(Tabla(p))]

Ideal == INSTANCE MemoriaIdeal

\* Seen without bases and holes, segments are created, deleted and refused as MemoriaIdeal
\* says: compaction and the assignment algorithm do not show, and "Out of Memory" means that
\* the free bytes do not reach.
ImplementaIdeal == Ideal!Spec
=============================================================================
