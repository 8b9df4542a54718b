--------------------------- MODULE PedidosMemoria ---------------------------
(***************************************************************************)
(* The dialogue of the kernel with the memory over one socket             *)
(* (Kernel/src/kernel.h 214-247, 478-544, 911-926, 1220-1301 and          *)
(* Memoria/src/memoria.h 464-578, 644-663).  Three threads of the kernel  *)
(* send requests: gestionadorReady for the first table of a process,      *)
(* gestionadorRunning for its segments and to compact, gestionadorExit    *)
(* when it ends.  mutexMemoria is released between a request and its      *)
(* reply, and neither the compaction nor EXIT takes it.                   *)
(*                                                                        *)
(* Where the memory puts a segment is in Memoria: here a place is whose it*)
(* is and how many compactions there were, and whether a CREATE_SEGMENT   *)
(* fits is any answer, but after a compaction it does.  The queues of the *)
(* kernel are in Planificador: here a process has one place.              *)
(***************************************************************************)
EXTENDS Integers, Sequences, FiniteSets, SequencesExt

CONSTANTS
    Procesos,             \* the PIDs: sockets of the consoles, which are used again
    MAX_COMPACTACIONES,   \* bound: compactions
    MAX_CONSOLAS,         \* bound: connections of consoles
    MAX_PEDIDOS           \* bound: segments asked for, by all the programs

ASSUME PedidosMemoriaAssumption ==
    /\ IsFiniteSet(Procesos)
    /\ MAX_COMPACTACIONES \in Nat /\ MAX_CONSOLAS \in Nat /\ MAX_PEDIDOS \in Nat

VARIABLES
    estado,               \* process -> "cerrado", "new", "admitiendo", "ready", "exec", "exit"
                          \* or "saliendo"
    tieneSegmento,        \* process -> its program was told that it has the segment 1
    tablaSegmentos,       \* PCB -> list of segments
    global_PCB_list,
    mutexMemoria,         \* the thread that has it, or NADIE
    pc, proceso,          \* thread -> where it is, and the process it works for
    operacion, flag,      \* of gestionadorRunning: what it asks, what it was answered
    pedidos, respuestas,  \* what the socket carries, each way
    leida,                \* the thread that read the op code of the first reply, or NADIE
    diccionario_tablas,   \* of the memory: process -> its table, <<>> when it has none
    compactaciones, recienCompactada,
    consolas, hechos,     \* connections and segments asked for so far
    solapados,            \* some time two threads were inside their operations
    caido                 \* the kernel or the memory dereferenced NULL, or read half a reply

kernel == <<estado, tieneSegmento, tablaSegmentos, global_PCB_list>>
hilos == <<mutexMemoria, pc, proceso, operacion, flag, solapados>>
socket == <<pedidos, respuestas, leida>>
memoria == <<diccionario_tablas, compactaciones, recienCompactada>>
cuentas == <<consolas, hechos>>
vars == <<kernel, hilos, socket, memoria, cuentas, caido>>

NADIE == "nadie"
PAQUETE == 2
Hilos == {"ready", "running", "exit"}
TablaInicial == <<[ID |-> 0, de |-> NADIE, vez |-> 0]>>
\* What recv_tabla_segmentos makes of the tables of all the processes.
Basura == <<[ID |-> -1, de |-> NADIE, vez |-> 0]>>

Init ==
    /\ estado = [p \in Procesos |-> "cerrado"] /\ tieneSegmento = [p \in Procesos |-> FALSE]
    /\ tablaSegmentos = [p \in Procesos |-> <<>>] /\ global_PCB_list = {}
    /\ mutexMemoria = NADIE /\ operacion = "nada" /\ flag = 0
    /\ pc = [h \in Hilos |-> "libre"] /\ proceso = [h \in Hilos |-> NADIE]
    /\ pedidos = <<>> /\ respuestas = <<>> /\ leida = NADIE
    /\ diccionario_tablas = [p \in Procesos |-> <<>>]
    /\ compactaciones = 0 /\ recienCompactada = FALSE
    /\ consolas = 0 /\ hechos = 0 /\ solapados = FALSE /\ caido = FALSE

En(h, a) == ~caido /\ pc[h] = a
Va(h, a) == pc' = [pc EXCEPT ![h] = a]
Pasa(p, e) == estado' = [estado EXCEPT ![p] = e]

\* From its first step until the tables of the kernel and of the memory agree again; the
\* request of gestionadorExit has no reply.
EnOperacion(h) == pc[h] \notin {"libre", "cerrar"}

Entra(h, p, a) ==
    /\ En(h, "libre")
    /\ Va(h, a) /\ proceso' = [proceso EXCEPT ![h] = p]
    /\ solapados' = (solapados \/ \E g \in Hilos \ {h} : EnOperacion(g))

\* A packet is one send.
Envia(pedido) == pedidos' = Append(pedidos, pedido)
-----------------------------------------------------------------------------
(* Consoles and programs *)

Conectar(p) ==
    /\ ~caido /\ estado[p] = "cerrado" /\ consolas < MAX_CONSOLAS
    /\ Pasa(p, "new") /\ consolas' = consolas + 1
    /\ UNCHANGED <<tieneSegmento, tablaSegmentos, global_PCB_list, hilos, socket, memoria, hechos,
                   caido>>

\* Given the CPU, which only one process has and only between two segment operations.
Despachar(p) ==
    /\ En("running", "libre") /\ estado[p] = "ready" /\ \A q \in Procesos : estado[q] # "exec"
    /\ Pasa(p, "exec")
    /\ UNCHANGED <<tieneSegmento, tablaSegmentos, global_PCB_list, hilos, socket, memoria, cuentas,
                   caido>>

\* Any instruction that is not about segments, or the end.
Devolver(p) ==
    /\ En("running", "libre") /\ estado[p] = "exec"
    /\ Pasa(p, "ready") \/ Pasa(p, "exit")
    /\ UNCHANGED <<tieneSegmento, tablaSegmentos, global_PCB_list, hilos, socket, memoria, cuentas,
                   caido>>

\* create_segment or delete_segment of the running process.  A program asks for the segment
\* that it has not, and deletes the one that it has.
PedirSegmento(p) ==
    /\ estado[p] = "exec" /\ hechos < MAX_PEDIDOS
    /\ Entra("running", p, "pedir")
    /\ operacion' = IF tieneSegmento[p] THEN "DELETE_SEGMENT" ELSE "CREATE_SEGMENT"
    /\ hechos' = hechos + 1
    /\ UNCHANGED <<kernel, mutexMemoria, flag, socket, memoria, consolas, caido>>

\* gestionadorReady takes a process from NEW.
Admitir(p) ==
    /\ estado[p] = "new" /\ Entra("ready", p, "pedir") /\ Pasa(p, "admitiendo")
    /\ UNCHANGED <<tieneSegmento, tablaSegmentos, global_PCB_list, mutexMemoria, operacion, flag,
                   socket, memoria, cuentas, caido>>
-----------------------------------------------------------------------------
(* pedirTablaSegmentosInicial, create_segment and delete_segment *)

Op(h) == IF h = "running" THEN operacion ELSE "CREATE_SEGMENT"
ID(h) == IF h = "running" THEN 1 ELSE 0

Pedir(h) ==
    /\ En(h, "pedir") /\ mutexMemoria = NADIE
    /\ Envia([op |-> Op(h), PID |-> proceso[h], ID |-> ID(h)])
    /\ Va(h, "esperar")
    /\ UNCHANGED <<kernel, mutexMemoria, proceso, operacion, flag, solapados, respuestas, leida,
                   memoria, cuentas, caido>>

TomarMutex(h) ==
    /\ En(h, "esperar") /\ mutexMemoria = NADIE
    /\ mutexMemoria' = h /\ Va(h, "leer")
    /\ UNCHANGED <<kernel, proceso, operacion, flag, solapados, socket, memoria, cuentas, caido>>

\* recibir_operacion, with the mutex for a table and without it for those of a compaction.
LeerOperacion(h) ==
    /\ En(h, "leer") \/ En(h, "leerTablas")
    /\ respuestas # <<>> /\ leida = NADIE
    /\ leida' = h
    /\ flag' = IF h = "running" THEN Head(respuestas).flag ELSE flag
    /\ Va(h, IF pc[h] = "leer" THEN "leerBuffer" ELSE "leerBufferTablas")
    /\ UNCHANGED <<kernel, mutexMemoria, proceso, operacion, solapados, pedidos, respuestas,
                   memoria, cuentas, caido>>

\* Two threads read one reply: each has a part of it, and takes a piece of it for a length.
LeerMitad(h) ==
    /\ En(h, "leer") \/ En(h, "leerTablas")
    /\ leida \notin {h, NADIE}
    /\ caido' = TRUE
    /\ UNCHANGED <<kernel, hilos, socket, memoria, cuentas>>

\* sem_post(&mutexMemoria) forgotten.
Suelta_Nunca == mutexMemoria
Suelta == NADIE

\* The rest of recv_tabla_segmentos.
LeerTabla(h) ==
    /\ En(h, "leerBuffer")
    /\ tablaSegmentos' = [tablaSegmentos EXCEPT ![proceso[h]] = Head(respuestas).tabla]
    /\ respuestas' = Tail(respuestas) /\ leida' = NADIE
    /\ mutexMemoria' = Suelta
    /\ Va(h, IF h = "ready" THEN "agregar" ELSE "decidir")
    /\ UNCHANGED <<estado, tieneSegmento, global_PCB_list, proceso, operacion, flag, solapados,
                   pedidos, memoria, cuentas, caido>>

\* gestionadorReady adds the PCB to READY and to the global list.
Agregar ==
    /\ En("ready", "agregar")
    /\ Pasa(proceso["ready"], "ready")
    /\ global_PCB_list' = global_PCB_list \cup {proceso["ready"]}
    /\ Va("ready", "libre")
    /\ UNCHANGED <<tieneSegmento, tablaSegmentos, mutexMemoria, proceso, operacion, flag,
                   solapados, socket, memoria, cuentas, caido>>

\* The switch of create_segment, and the end of delete_segment.
Sigue == operacion = "DELETE_SEGMENT" \/ flag = 0

Decidir ==
    /\ En("running", "decidir")
    /\ \/ /\ Sigue
          /\ Pasa(proceso["running"], "ready")
          /\ tieneSegmento' = [tieneSegmento EXCEPT
                                 ![proceso["running"]] = (operacion = "CREATE_SEGMENT")]
          /\ Va("running", "libre")
       \/ /\ ~Sigue /\ flag = -1
          /\ Pasa(proceso["running"], "exit") /\ Va("running", "libre")
          /\ UNCHANGED tieneSegmento
       \/ /\ ~Sigue /\ flag = 1
          /\ Va("running", "compactar")
          /\ UNCHANGED <<estado, tieneSegmento>>
    /\ UNCHANGED <<tablaSegmentos, global_PCB_list, mutexMemoria, proceso, operacion, flag,
                   solapados, socket, memoria, cuentas, caido>>
-----------------------------------------------------------------------------
(* compaction_manager, once permitted, and recibir_tablas_compactadas *)

PedirCompactacion ==
    /\ En("running", "compactar")
    /\ Envia([op |-> "COMPACTION", PID |-> NADIE, ID |-> 0])
    /\ Va("running", "leerTablas")
    /\ UNCHANGED <<kernel, mutexMemoria, proceso, operacion, flag, solapados, respuestas, leida,
                   memoria, cuentas, caido>>

\* Only the process that asked.
Actualizadas_Suya(tablas) ==
    [tablaSegmentos EXCEPT ![proceso["running"]] = tablas[proceso["running"]]]

Actualizadas(tablas) ==
    [p \in Procesos |-> IF tablas[p] = <<>> THEN tablaSegmentos[p] ELSE tablas[p]]

\* The table of a PID that no PCB of the global list has.
Huerfanas(tablas) == {p \in Procesos \ global_PCB_list : tablas[p] # <<>>}

LeerTablas ==
    LET r == Head(respuestas) IN
    /\ En("running", "leerBufferTablas") /\ flag = PAQUETE /\ Huerfanas(r.tablas) = {}
    /\ tablaSegmentos' = Actualizadas(r.tablas)
    /\ respuestas' = Tail(respuestas) /\ leida' = NADIE
    /\ Va("running", "pedir")
    /\ UNCHANGED <<estado, tieneSegmento, global_PCB_list, mutexMemoria, proceso, operacion, flag,
                   solapados, pedidos, memoria, cuentas, caido>>

\* list_find gives NULL, also for the table of one process read as the tables of all: the
\* first PID in it is the 0 of segment 0.
LeerTablasSinPCB ==
    /\ En("running", "leerBufferTablas")
    /\ flag = PAQUETE => Huerfanas(Head(respuestas).tablas) # {}
    /\ caido' = TRUE
    /\ UNCHANGED <<kernel, hilos, socket, memoria, cuentas>>
-----------------------------------------------------------------------------
(* gestionadorExit *)

Quitar(p) ==
    /\ estado[p] = "exit" /\ Entra("exit", p, "avisar") /\ Pasa(p, "saliendo")
    /\ global_PCB_list' = global_PCB_list \ {p}
    /\ UNCHANGED <<tieneSegmento, tablaSegmentos, mutexMemoria, operacion, flag, socket, memoria,
                   cuentas, caido>>

\* enviar_mensaje_razon(EXIT): no mutex and no reply.
Avisar ==
    /\ En("exit", "avisar")
    /\ Envia([op |-> "EXIT", PID |-> proceso["exit"], ID |-> 0])
    /\ Va("exit", "cerrar")
    /\ UNCHANGED <<kernel, mutexMemoria, proceso, operacion, flag, solapados, respuestas, leida,
                   memoria, cuentas, caido>>

\* The socket is closed: a new console may get the same PID.
Cerrar ==
    /\ En("exit", "cerrar")
    /\ Pasa(proceso["exit"], "cerrado")
    /\ tieneSegmento' = [tieneSegmento EXCEPT ![proceso["exit"]] = FALSE]
    /\ tablaSegmentos' = [tablaSegmentos EXCEPT ![proceso["exit"]] = <<>>]
    /\ Va("exit", "libre")
    /\ UNCHANGED <<global_PCB_list, mutexMemoria, proceso, operacion, flag, solapados, socket,
                   memoria, cuentas, caido>>
-----------------------------------------------------------------------------
(* The memory: esperarKernel *)

Atiende(op) == ~caido /\ pedidos # <<>> /\ Head(pedidos).op = op
PID == Head(pedidos).PID

Contesta(valor, tabla, tablas) ==
    respuestas' = Append(respuestas, [flag |-> valor, tabla |-> tabla, tablas |-> tablas])

NuevaTabla(tabla) == diccionario_tablas' = [diccionario_tablas EXCEPT ![PID] = tabla]

\* The first table is kept and not sent.
ContestaInicial_Calla == UNCHANGED respuestas
ContestaInicial == Contesta(0, TablaInicial, <<>>)

CrearTabla ==
    /\ Atiende("CREATE_SEGMENT") /\ diccionario_tablas[PID] = <<>>
    /\ NuevaTabla(TablaInicial) /\ ContestaInicial
    /\ pedidos' = Tail(pedidos)
    /\ UNCHANGED <<kernel, hilos, leida, compactaciones, recienCompactada, cuentas, caido>>

\* calloc_segment.
CrearSegmento ==
    LET tabla == diccionario_tablas[PID]
        conNuevo == Append(tabla, [ID |-> Head(pedidos).ID, de |-> PID, vez |-> compactaciones])
    IN  /\ Atiende("CREATE_SEGMENT") /\ tabla # <<>>
        /\ \/ /\ NuevaTabla(conNuevo) /\ Contesta(0, conNuevo, <<>>)
              /\ recienCompactada' = FALSE
           \/ /\ ~recienCompactada
              /\ \/ Contesta(-1, tabla, <<>>)
                 \/ compactaciones < MAX_COMPACTACIONES /\ Contesta(1, tabla, <<>>)
              /\ UNCHANGED <<diccionario_tablas, recienCompactada>>
        /\ pedidos' = Tail(pedidos)
        /\ UNCHANGED <<kernel, hilos, leida, compactaciones, cuentas, caido>>

BorrarSegmento ==
    LET tabla == diccionario_tablas[PID]
        i == SelectInSeq(tabla, LAMBDA s : s.ID = Head(pedidos).ID)
    IN  /\ Atiende("DELETE_SEGMENT") /\ i # 0
        /\ NuevaTabla(RemoveAt(tabla, i)) /\ Contesta(0, RemoveAt(tabla, i), <<>>)
        /\ pedidos' = Tail(pedidos)
        /\ UNCHANGED <<kernel, hilos, leida, compactaciones, recienCompactada, cuentas, caido>>

\* The segment to delete is not in the table: its base is read of NULL.
BorrarAusente ==
    /\ Atiende("DELETE_SEGMENT")
    /\ \A i \in DOMAIN diccionario_tablas[PID] : diccionario_tablas[PID][i].ID # Head(pedidos).ID
    /\ caido' = TRUE
    /\ UNCHANGED <<kernel, hilos, socket, memoria, cuentas>>

BorrarTabla ==
    /\ Atiende("EXIT")
    /\ NuevaTabla(<<>>)
    /\ pedidos' = Tail(pedidos)
    /\ UNCHANGED <<kernel, hilos, respuestas, leida, compactaciones, recienCompactada, cuentas,
                   caido>>

\* Every segment but segment 0 moves.
Movida(tabla) ==
    [i \in DOMAIN tabla |-> IF tabla[i].ID = 0 THEN tabla[i]
                            ELSE [tabla[i] EXCEPT !.vez = compactaciones + 1]]

\* Asked for only after a reply that the bound lets through: the guard states it.
Compactar ==
    /\ Atiende("COMPACTION") /\ compactaciones < MAX_COMPACTACIONES
    /\ compactaciones' = compactaciones + 1 /\ recienCompactada' = TRUE
    /\ diccionario_tablas' = [p \in Procesos |-> Movida(diccionario_tablas[p])]
    /\ Contesta(PAQUETE, Basura, diccionario_tablas')
    /\ pedidos' = Tail(pedidos)
    /\ UNCHANGED <<kernel, hilos, leida, cuentas, caido>>
-----------------------------------------------------------------------------
Next ==
    \/ \E p \in Procesos :
          Conectar(p) \/ Despachar(p) \/ Devolver(p) \/ PedirSegmento(p) \/ Admitir(p) \/ Quitar(p)
    \/ \E h \in {"ready", "running"} :
          Pedir(h) \/ TomarMutex(h) \/ LeerOperacion(h) \/ LeerMitad(h) \/ LeerTabla(h)
    \/ Agregar \/ Decidir \/ PedirCompactacion \/ LeerTablas \/ LeerTablasSinPCB
    \/ Avisar \/ Cerrar
    \/ CrearTabla \/ CrearSegmento \/ BorrarSegmento \/ BorrarAusente \/ BorrarTabla \/ Compactar

Spec == Init /\ [][Next]_vars
-----------------------------------------------------------------------------
(* Properties *)

Flags == {-1, 0, 1, PAQUETE}
Segmentos == [ID : {-1, 0, 1}, de : Procesos \cup {NADIE}, vez : 0 .. MAX_COMPACTACIONES]

\* Every variable keeps its type, and the mutex is held exactly while a table is read.
TypeOK ==
    /\ estado \in [Procesos -> {"cerrado", "new", "admitiendo", "ready", "exec", "exit",
                                "saliendo"}]
    /\ tieneSegmento \in [Procesos -> BOOLEAN] /\ global_PCB_list \subseteq Procesos
    /\ \A p \in Procesos :
          tablaSegmentos[p] \in Seq(Segmentos) /\ diccionario_tablas[p] \in Seq(Segmentos)
    /\ proceso \in [Hilos -> Procesos \cup {NADIE}]
    /\ {h \in Hilos : pc[h] \in {"leer", "leerBuffer"}} =
           (IF mutexMemoria = NADIE THEN {} ELSE {mutexMemoria})
    /\ \A i \in DOMAIN respuestas : respuestas[i].flag \in Flags
    /\ flag \in Flags /\ leida \in Hilos \cup {NADIE}
    /\ consolas \in 0 .. MAX_CONSOLAS /\ hechos \in 0 .. MAX_PEDIDOS
    /\ compactaciones \in 0 .. MAX_COMPACTACIONES

EsperanRespuesta ==
    {h \in Hilos : pc[h] \in {"esperar", "leer", "leerBuffer", "leerTablas", "leerBufferTablas"}}

\* Whoever takes the reply of whom, each thread that waits has one on its way: none waits for
\* ever, and none is left in the socket for the next request to find.
UnaRespuestaPorPedido ==
    Cardinality(EsperanRespuesta) =
        Cardinality({i \in DOMAIN pedidos : pedidos[i].op # "EXIT"}) + Len(respuestas)

TablasIguales ==
    pc["running"] = "libre" =>
        \A p \in Procesos : estado[p] \in {"ready", "exec", "exit"} =>
            tablaSegmentos[p] = diccionario_tablas[p]

\* While no two threads of the kernel are inside their operations at once, the table in a PCB
\* is that of the memory, also after compactions and for a process that got the PID of one
\* that ended, whose EXIT the memory may not have read yet; and no list lacks a process.
TablasAlDia == ~solapados => TablasIguales /\ ~caido

\* kernel.c 82 "Tabla de Segmentos: Contendrá ids, direcciones base y tamaños de los segmentos
\* de datos del proceso": between its requests, those that the memory has for it.
TablaDelProceso == TablasIguales
=============================================================================
