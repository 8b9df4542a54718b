--------------------------------- MODULE CPU ---------------------------------
(***************************************************************************)
(* The execution of programs: the CPU (cpu/src/cpu.c, cpu.h), the context *)
(* that the kernel sends and takes back (enviar_PCB, recibir_PCB, through *)
(* paquete_contexto), the segment tables that the memory answers with, and*)
(* the memory that MOV_IN, MOV_OUT and the file system read and write by  *)
(* physical address.                                                      *)
(*                                                                        *)
(* A step is one instruction of the CPU, or one answer of the kernel, the *)
(* memory or the file system.  A program is any sequence of Instrucciones.*)
(* Which process of READY is next is in Planificador and where a segment  *)
(* is put in Memoria: here any of them, and any hole that fits.           *)
(*                                                                        *)
(* A compaction is the one that Compactacion and Memoria take apart: it   *)
(* waits for the F_READ and F_WRITE whose addresses it would make stale,  *)
(* unless something of an earlier request was left, and it blanks bytes   *)
(* of a segment that moves by less than its size.  To count a file call   *)
(* and to queue it are one step here, its service another.                *)
(***************************************************************************)
EXTENDS Integers, Sequences, FiniteSets, FiniteSetsExt, SequencesExt

CONSTANTS Procesos,
          Escenarios,         \* [instrucciones, lineas]: what the lines of the programs may
                              \* be and, a bound, how many a program has before its EXIT
          Ancho,              \* register -> how many characters it holds
          Caracteres,
          TAM_MEMORIA, TAM_SEGMENTO_0, TAM_MAX_SEGMENTO

Registros == DOMAIN Ancho
Instrucciones == UNION {e.instrucciones : e \in Escenarios}

\* What the kernel puts in every register of a new PCB ("0000"): as narrow as the narrowest.
INICIAL == [i \in 1 .. Min({Ancho[r] : r \in Registros}) |-> "0"]

SinPedido == [op |-> "NADA"]
SinContexto == [PID |-> "nadie"]

ASSUME CPUAssumption ==
    /\ IsFiniteSet(Procesos) /\ \A e \in Escenarios : e.lineas \in Nat
    /\ Ancho \in [Registros -> Nat \ {0}] /\ {"0", " "} \subseteq Caracteres
    /\ TAM_SEGMENTO_0 \in Nat /\ TAM_MEMORIA \in Nat /\ TAM_SEGMENTO_0 <= TAM_MEMORIA
    /\ TAM_MAX_SEGMENTO \in Nat \ {0}

\* The parameters of an instruction: a value is a text, a size and an address are not negative.
ASSUME InstruccionesAssumption ==
    \A ins \in Instrucciones :
        /\ ins.op = "SET" => ins.valor \in Seq(Caracteres)
        /\ ins.op \in {"MOV_IN", "MOV_OUT", "F_READ", "F_WRITE"} => ins.direccion \in Nat
        /\ ins.op \in {"F_READ", "F_WRITE", "CREATE_SEGMENT"} => ins.bytes \in Nat
        /\ ins.op = "CREATE_SEGMENT" => ins.segmento \in Nat

VARIABLES
    escenario,            \* the element of Escenarios of this behaviour
    lugar,                \* "ready", "cpu", "kernel", "fs", "exit" or "fin"
    PCB,                  \* process -> [program_counter, registros, tablaSegmentos]
    pedido,               \* the instruction each process waits for, and in the parameters
    fisica,               \* of an F_READ or F_WRITE, its physical address
    contexto,             \* the execution context that the CPU has
    lista_registros,      \* the registers of the CPU
    diccionario_tablas,   \* of the memory: process -> list of [ID, base, limite]
    user_space,           \* of the memory: address -> character
    caido,                \* the CPU dereferenced NULL
    compactionBlockers, compaction_required, compaction_permission,
    run_pc, fs_pc,        \* compaction_manager, "pedir" when it does not run, and operarFS
    pendiente             \* history: some request found something of an earlier one pending

memoria == <<diccionario_tablas, user_space>>
cpu == <<contexto, lista_registros>>
parametros == <<pedido, fisica>>
programas == <<escenario, lugar, PCB, parametros, cpu, memoria, caido>>
permiso == <<compaction_required, compaction_permission>>
acuerdo == <<compactionBlockers, permiso, run_pc, fs_pc, pendiente>>
vars == <<programas, acuerdo>>

Direcciones == 0 .. TAM_MEMORIA - 1
Segmento0 == [ID |-> 0, base |-> 0, limite |-> TAM_SEGMENTO_0]

PCBNuevo == [program_counter |-> 0, registros |-> [r \in Registros |-> INICIAL],
             tablaSegmentos |-> <<Segmento0>>]

Init ==
    /\ escenario \in Escenarios
    /\ lugar = [p \in Procesos |-> "ready"]
    /\ PCB = [p \in Procesos |-> PCBNuevo]
    /\ pedido = [p \in Procesos |-> SinPedido] /\ fisica = [p \in Procesos |-> 0]
    /\ contexto = SinContexto
    /\ lista_registros = [r \in Registros |-> [i \in 1 .. Ancho[r] |-> "0"]]
    /\ diccionario_tablas = [p \in Procesos |-> <<Segmento0>>]
    /\ user_space = [d \in Direcciones |-> " "]
    /\ caido = FALSE
    /\ compactionBlockers = 0 /\ compaction_required = FALSE /\ compaction_permission = 0
    /\ run_pc = "pedir" /\ fs_pc = "leerContador" /\ pendiente = FALSE

PID == contexto.PID

\* One that leaves the zeros out: strcpy alone.
Cargar_SinCeros(reg, valor) == IF Len(valor) > Len(reg) THEN reg ELSE valor

\* set and set_sin_retardo on a register that holds reg: its length is the register's width.
\* A value that is too long leaves it as it was.
Cargar(reg, valor) ==
    IF Len(valor) > Len(reg) THEN reg
    ELSE [i \in 1 .. Len(reg) |-> IF i <= Len(valor) THEN valor[i] ELSE "0"]

Segmento(tabla, id) == SelectInSeq(tabla, LAMBDA s : s.ID = id)

\* The physical address, or -1 when the access does not fit in the segment.
MMU(tabla, logicAddr, offset) ==
    LET i == Segmento(tabla, logicAddr \div TAM_MAX_SEGMENTO)
        desplazamiento == logicAddr % TAM_MAX_SEGMENTO
    IN  IF i = 0 THEN -1
        ELSE IF tabla[i].base + desplazamiento + offset > tabla[i].base + tabla[i].limite THEN -1
        ELSE tabla[i].base + desplazamiento

Traduce(ins, offset) == MMU(contexto.tablaSegmentos, ins.direccion, offset)
-----------------------------------------------------------------------------
(* The kernel gives the CPU to a process: enviar_PCB, cargarRegistros *)

Libre == ~caido /\ \A p \in Procesos : lugar[p] \notin {"cpu", "kernel"}

\* The registers of the process that ran before stay.
CargarRegistros_Olvida(registros) == lista_registros

CargarRegistros(registros) == [r \in Registros |-> Cargar(lista_registros[r], registros[r])]

\* What recibir_paquete_contexto makes of the context of p: copies of all that the PCB holds.
Recibido(p) == [PID |-> p, program_counter |-> PCB[p].program_counter,
                registros |-> PCB[p].registros, tablaSegmentos |-> PCB[p].tablaSegmentos]

Despachar(p) ==
    /\ Libre /\ lugar[p] = "ready"
    /\ lugar' = [lugar EXCEPT ![p] = "cpu"]
    /\ contexto' = Recibido(p)
    /\ lista_registros' = CargarRegistros(PCB[p].registros)
    /\ UNCHANGED <<PCB, parametros, memoria, caido, escenario, acuerdo>>

\* FETCH of a line of the program: what the CPU does with it follows.
Fetch(ins) ==
    /\ ~caido /\ contexto # SinContexto /\ ins \in escenario.instrucciones
    /\ contexto.program_counter < escenario.lineas \/ ins.op = "EXIT"

Avanza == contexto' = [contexto EXCEPT !.program_counter = @ + 1]

\* cargarRegistrosContexto, paquete_contexto and, in the kernel, recibir_PCB.
Devuelve(registros, hasta) ==
    /\ PCB' = [PCB EXCEPT ![PID] = [program_counter |-> contexto.program_counter + 1,
                                    registros |-> registros,
                                    tablaSegmentos |-> contexto.tablaSegmentos]]
    /\ lugar' = [lugar EXCEPT ![PID] = hasta]
    /\ contexto' = SinContexto
-----------------------------------------------------------------------------
(* Instructions that the CPU executes and goes on *)

\* A register that can take the value.
Set(ins) ==
    /\ Fetch(ins) /\ ins.op = "SET"
    /\ ins.registro \in Registros /\ Len(ins.valor) <= Ancho[ins.registro]
    /\ lista_registros' = [lista_registros EXCEPT ![ins.registro] = Cargar(@, ins.valor)]
    /\ Avanza
    /\ UNCHANGED <<lugar, PCB, parametros, memoria, caido, escenario, acuerdo>>

Bytes(ins) == Len(lista_registros[ins.registro])

MovIn(ins) ==
    /\ Fetch(ins) /\ ins.op = "MOV_IN" /\ ins.registro \in Registros
    /\ LET dir == Traduce(ins, Bytes(ins))
           leido == [i \in 1 .. Bytes(ins) |-> user_space[dir + i - 1]]
       IN  /\ dir # -1
           /\ lista_registros' = [lista_registros EXCEPT ![ins.registro] = Cargar(@, leido)]
    /\ Avanza
    /\ UNCHANGED <<lugar, PCB, parametros, memoria, caido, escenario, acuerdo>>

MovOut(ins) ==
    /\ Fetch(ins) /\ ins.op = "MOV_OUT" /\ ins.registro \in Registros
    /\ LET dir == Traduce(ins, Bytes(ins))
       IN  /\ dir # -1
           /\ user_space' =
                [d \in Direcciones |-> IF d \in dir .. dir + Bytes(ins) - 1
                                       THEN lista_registros[ins.registro][d - dir + 1]
                                       ELSE user_space[d]]
    /\ Avanza
    /\ UNCHANGED <<lugar, PCB, parametros, lista_registros, diccionario_tablas, caido, escenario,
                   acuerdo>>

\* mov_in asks for the length of a register that does not exist; mov_out looks first.
MovInDesconocido(ins) ==
    /\ Fetch(ins) /\ ins.op = "MOV_IN" /\ ins.registro \notin Registros
    /\ caido' = TRUE
    /\ UNCHANGED <<lugar, PCB, parametros, cpu, memoria, escenario, acuerdo>>
-----------------------------------------------------------------------------
(* Instructions that give the CPU back *)

\* YIELD stands for I/O, WAIT, SIGNAL, F_OPEN, F_CLOSE, F_SEEK and F_TRUNCATE too: what is
\* theirs is in other modules, the way of the context is the same.
Yield(ins) ==
    /\ Fetch(ins) /\ ins.op = "YIELD"
    /\ Devuelve(lista_registros, "ready")
    /\ UNCHANGED <<parametros, lista_registros, memoria, caido, escenario, acuerdo>>

PedirFS(ins) ==
    /\ Fetch(ins) /\ ins.op \in {"F_READ", "F_WRITE"}
    /\ LET dir == Traduce(ins, ins.bytes)
       IN  dir # -1 /\ fisica' = [fisica EXCEPT ![PID] = dir]
    /\ pedido' = [pedido EXCEPT ![PID] = ins]
    /\ Devuelve(lista_registros, "fs")
    /\ compactionBlockers' = compactionBlockers + 1
    /\ UNCHANGED <<lista_registros, memoria, caido, escenario, permiso, run_pc, fs_pc, pendiente>>

\* A segment of an ID the process does not have would end the memory (Memoria).
PedirSegmento(ins) ==
    /\ Fetch(ins)
    /\ \/ ins.op = "CREATE_SEGMENT"
       \/ /\ ins.op = "DELETE_SEGMENT"
          /\ Segmento(diccionario_tablas[PID], ins.segmento) # 0
    /\ Devuelve(lista_registros, "kernel")
    /\ pedido' = [pedido EXCEPT ![PID] = ins]
    /\ UNCHANGED <<fisica, lista_registros, memoria, caido, escenario, acuerdo>>

Exit(ins) ==
    /\ Fetch(ins) /\ ins.op = "EXIT"
    /\ Devuelve(lista_registros, "exit")
    /\ UNCHANGED <<parametros, lista_registros, memoria, caido, escenario, acuerdo>>

\* What exit_process_error is called for.
Rechaza(ins) ==
    CASE ins.op = "SET" ->
            ins.registro \in Registros => Len(ins.valor) > Ancho[ins.registro]
      [] ins.op = "MOV_IN" -> ins.registro \in Registros /\ Traduce(ins, Bytes(ins)) = -1
      [] ins.op = "MOV_OUT" -> ins.registro \in Registros => Traduce(ins, Bytes(ins)) = -1
      [] ins.op \in {"F_READ", "F_WRITE"} -> Traduce(ins, ins.bytes) = -1
      [] OTHER -> ins.op = "DESCONOCIDA"

\* The registers of the context go back as they came, but f_read and f_write put the CPU's in
\* the context first.
ExitProcessError(ins) ==
    /\ Fetch(ins) /\ Rechaza(ins)
    /\ Devuelve(IF ins.op \in {"F_READ", "F_WRITE"} THEN lista_registros ELSE contexto.registros,
                "exit")
    /\ UNCHANGED <<parametros, lista_registros, memoria, caido, escenario, acuerdo>>

Ejecutar(ins) ==
    \/ Set(ins) \/ MovIn(ins) \/ MovOut(ins) \/ MovInDesconocido(ins) \/ Yield(ins)
    \/ PedirFS(ins) \/ PedirSegmento(ins) \/ Exit(ins) \/ ExitProcessError(ins)
-----------------------------------------------------------------------------
(* The kernel and the memory answer CREATE_SEGMENT and DELETE_SEGMENT *)

Rango(s) == s.base .. s.base + s.limite - 1
Ocupadas == UNION {Rango(s) : s \in UNION {Range(diccionario_tablas[p]) : p \in Procesos}}

\* The start of a hole with room for n characters.
HuecoUtil(b, n) ==
    /\ b + n <= TAM_MEMORIA /\ b .. b + n - 1 \cap Ocupadas = {}
    /\ b = 0 \/ b - 1 \in Ocupadas

\* The memory's table of p, which the kernel takes in place of the PCB's.
Responde(p, tabla) ==
    /\ diccionario_tablas' = [diccionario_tablas EXCEPT ![p] = tabla]
    /\ PCB' = [PCB EXCEPT ![p].tablaSegmentos = tabla]
    /\ lugar' = [lugar EXCEPT ![p] = "ready"]
    /\ pedido' = [pedido EXCEPT ![p] = SinPedido]

Atendida(p, op) ==
    ~caido /\ lugar[p] = "kernel" /\ run_pc = "pedir" /\ pedido[p].op = op

CrearSegmento(p) ==
    /\ Atendida(p, "CREATE_SEGMENT")
    /\ \E b \in Direcciones :
          /\ HuecoUtil(b, pedido[p].bytes)
          /\ Responde(p, Append(diccionario_tablas[p], [ID |-> pedido[p].segmento, base |-> b,
                                                        limite |-> pedido[p].bytes]))
    /\ UNCHANGED <<fisica, cpu, user_space, caido, escenario, acuerdo>>

BorrarSegmento(p) ==
    /\ Atendida(p, "DELETE_SEGMENT")
    /\ LET tabla == diccionario_tablas[p]
       IN  Responde(p, RemoveAt(tabla, Segmento(tabla, pedido[p].segmento)))
    /\ UNCHANGED <<fisica, cpu, user_space, caido, escenario, acuerdo>>

NoEntra(p) == \A b \in Direcciones : ~HuecoUtil(b, pedido[p].bytes)
Libres == TAM_MEMORIA - Cardinality(Ocupadas)

SinEspacio(p) ==
    /\ Atendida(p, "CREATE_SEGMENT") /\ NoEntra(p) /\ Libres < pedido[p].bytes
    /\ lugar' = [lugar EXCEPT ![p] = "exit"]
    /\ pedido' = [pedido EXCEPT ![p] = SinPedido]
    /\ UNCHANGED <<PCB, fisica, cpu, memoria, caido, escenario, acuerdo>>

-----------------------------------------------------------------------------
(* compaction_manager, which create_segment calls *)

\* A permission not taken, a request not withdrawn, or operarFS about to act on either.
AlgoPendiente ==
    \/ compaction_permission > 0 \/ compaction_required
    \/ fs_pc \in {"leerRequerida", "darPermiso", "olvidar"}

\* The memory answered that there is room, but not in one hole.
Solicitar(p) ==
    /\ Atendida(p, "CREATE_SEGMENT") /\ NoEntra(p) /\ Libres >= pedido[p].bytes
    /\ compaction_required' = TRUE
    /\ pendiente' = (pendiente \/ AlgoPendiente)
    /\ run_pc' = "leerContador"
    /\ UNCHANGED <<programas, compactionBlockers, compaction_permission, fs_pc>>

\* if(compactionBlockers>0), under no mutex.
LeerBloqueos ==
    /\ ~caido /\ run_pc = "leerContador"
    /\ run_pc' = IF compactionBlockers > 0 THEN "esperarPermiso" ELSE "compactar"
    /\ UNCHANGED <<programas, compactionBlockers, permiso, fs_pc, pendiente>>

EsperarPermiso ==
    /\ ~caido /\ run_pc = "esperarPermiso" /\ compaction_permission > 0
    /\ compaction_permission' = compaction_permission - 1
    /\ run_pc' = "compactar"
    /\ UNCHANGED <<programas, compactionBlockers, compaction_required, fs_pc, pendiente>>

\* Where a compaction leaves the segment: after all that was below it.  (The base of one of no
\* bytes is no address that anything is read from.)
BaseCompacta(s) == Cardinality({d \in Ocupadas : d < s.base})
Destino(s) == BaseCompacta(s) .. BaseCompacta(s) + s.limite - 1
Compactada(tabla) == [i \in DOMAIN tabla |-> [tabla[i] EXCEPT !.base = BaseCompacta(tabla[i])]]

\* The bytes of a segment that moves go to its destination by memmove, and then memset blanks
\* where it was, even what was just moved there.
ByteCompactado(s, d) ==
    IF BaseCompacta(s) # s.base /\ d \in Rango(s) THEN " "
    ELSE user_space[d - BaseCompacta(s) + s.base]

\* The segments move, one after the other, and recibir_tablas_compactadas replaces the table of
\* every process, also of those whose F_READ or F_WRITE waits with a physical address.  The
\* CREATE_SEGMENT is then asked again.
Compactar ==
    LET segmentos == UNION {Range(diccionario_tablas[q]) : q \in Procesos}
        Vive(q) == lugar[q] # "fin"
    IN  /\ ~caido /\ run_pc = "compactar"
        /\ run_pc' = "pedir"
        /\ diccionario_tablas' = [q \in Procesos |-> Compactada(diccionario_tablas[q])]
        /\ PCB' = [q \in Procesos |->
                     IF Vive(q) THEN [PCB[q] EXCEPT !.tablaSegmentos = diccionario_tablas'[q]]
                     ELSE PCB[q]]
        /\ user_space' =
             [d \in Direcciones |->
                IF \E s \in segmentos : d \in Destino(s)
                THEN ByteCompactado(CHOOSE s \in segmentos : d \in Destino(s), d)
                ELSE IF d \in Ocupadas THEN " " ELSE user_space[d]]
        /\ UNCHANGED <<lugar, parametros, cpu, caido, escenario, compactionBlockers, permiso,
                       fs_pc, pendiente>>
-----------------------------------------------------------------------------
(* operarFS *)

Avisa(desde, hasta) ==
    /\ ~caido /\ fs_pc = desde /\ fs_pc' = hasta
    /\ UNCHANGED <<programas, run_pc, pendiente>>

\* The permission is given without looking at compactionBlockers.
LeerContador_SinMirar ==
    /\ Avisa("leerContador", "leerRequerida")
    /\ UNCHANGED <<compactionBlockers, permiso>>

\* if(compactionBlockers==0), under no mutex.
LeerContador ==
    /\ Avisa("leerContador", IF compactionBlockers = 0 THEN "leerRequerida" ELSE "hayBlocked")
    /\ UNCHANGED <<compactionBlockers, permiso>>

LeerRequerida ==
    /\ Avisa("leerRequerida", IF compaction_required THEN "darPermiso" ELSE "hayBlocked")
    /\ UNCHANGED <<compactionBlockers, permiso>>

DarPermiso ==
    /\ Avisa("darPermiso", "olvidar")
    /\ compaction_permission' = compaction_permission + 1
    /\ UNCHANGED <<compactionBlockers, compaction_required>>

\* compaction_required=false, under no mutex.
Olvidar ==
    /\ Avisa("olvidar", "hayBlocked")
    /\ compaction_required' = FALSE
    /\ UNCHANGED <<compactionBlockers, compaction_permission>>

\* The file system has written what it read at the physical address, or read what it writes.
AtenderFS(p) ==
    /\ ~caido /\ lugar[p] = "fs" /\ fs_pc = "hayBlocked"
    /\ fs_pc' = "restar"
    /\ lugar' = [lugar EXCEPT ![p] = "ready"]
    /\ pedido' = [pedido EXCEPT ![p] = SinPedido] /\ fisica' = [fisica EXCEPT ![p] = 0]
    /\ \/ /\ pedido[p].op = "F_READ"
          /\ \E c \in Caracteres :
                user_space' = [d \in Direcciones |->
                                 IF d \in fisica[p] .. fisica[p] + pedido[p].bytes - 1 THEN c
                                 ELSE user_space[d]]
       \/ pedido[p].op = "F_WRITE" /\ UNCHANGED user_space
    /\ UNCHANGED <<PCB, cpu, diccionario_tablas, caido, escenario, compactionBlockers, permiso,
                   run_pc, pendiente>>

\* A file call without addresses, of those that Yield stands for, is served at any time.
AtenderOtra ==
    /\ Avisa("hayBlocked", "leerContador")
    /\ UNCHANGED <<compactionBlockers, permiso>>

\* compactionBlockers-- comes after the PCB is in READY.
Restar ==
    /\ Avisa("restar", "leerContador")
    /\ compactionBlockers' = compactionBlockers - 1
    /\ UNCHANGED permiso
-----------------------------------------------------------------------------
\* gestionadorExit frees the PCB; by the EXIT of the memory all but segment 0 become holes.
Retirar(p) ==
    /\ ~caido /\ lugar[p] = "exit"
    /\ lugar' = [lugar EXCEPT ![p] = "fin"]
    /\ diccionario_tablas' = [diccionario_tablas EXCEPT ![p] = <<Segmento0>>]
    /\ PCB' = [PCB EXCEPT ![p] = PCBNuevo]
    /\ UNCHANGED <<parametros, cpu, user_space, caido, escenario, acuerdo>>

Next ==
    \/ \E ins \in Instrucciones : Ejecutar(ins)
    \/ \E p \in Procesos :
          \/ Despachar(p) \/ CrearSegmento(p) \/ BorrarSegmento(p) \/ SinEspacio(p)
          \/ Solicitar(p) \/ AtenderFS(p) \/ Retirar(p)
    \/ LeerBloqueos \/ EsperarPermiso \/ Compactar
    \/ LeerContador \/ LeerRequerida \/ DarPermiso \/ Olvidar \/ AtenderOtra \/ Restar

Spec == Init /\ [][Next]_vars
-----------------------------------------------------------------------------
(* Properties *)

Textos(n) == [1 .. n -> Caracteres]

\* Every variable keeps its type, and every register its width: set takes strlen of what the
\* register holds for it, so one short value would narrow the register for good.  The physical
\* address of an access of no bytes may be the end of the memory.
TypeOK ==
    /\ lugar \in [Procesos -> {"ready", "cpu", "kernel", "fs", "exit", "fin"}]
    /\ \A r \in Registros : lista_registros[r] \in Textos(Ancho[r])
    /\ \A p \in Procesos :
          /\ PCB[p].program_counter \in 0 .. escenario.lineas + 1
          /\ \A r \in Registros : PCB[p].registros[r] \in {INICIAL} \cup Textos(Ancho[r])
    /\ pedido \in [Procesos -> Instrucciones \cup {SinPedido}]
    /\ fisica \in [Procesos -> 0 .. TAM_MEMORIA]
    /\ user_space \in [Direcciones -> Caracteres]
    /\ caido \in BOOLEAN
    /\ compactionBlockers \in Nat /\ compaction_required \in BOOLEAN
    /\ compaction_permission \in Nat
    /\ run_pc \in {"pedir", "leerContador", "esperarPermiso", "compactar"}
    /\ fs_pc \in {"leerContador", "leerRequerida", "darPermiso", "olvidar", "hayBlocked",
                  "restar"}
    /\ pendiente \in BOOLEAN

\* The F_READ and F_WRITE that wait with a physical address that a compaction made stale.
Desviados ==
    {p \in Procesos :
        /\ lugar[p] = "fs"
        /\ fisica[p] # MMU(diccionario_tablas[p], pedido[p].direccion, pedido[p].bytes)}

TablasAlDia ==
    /\ \A p \in Procesos :
          lugar[p] # "fin" => PCB[p].tablaSegmentos = diccionario_tablas[p]
    /\ contexto # SinContexto => contexto.tablaSegmentos = diccionario_tablas[PID]

\* The tables that the kernel keeps and the CPU works with are the memory's, whatever was
\* created, deleted or compacted.  And as long as no compaction was requested with something
\* of an earlier request pending, a physical address that waits in the parameters of an F_READ
\* or F_WRITE is still the translation of its logical address, in whatever order
\* compaction_manager and operarFS read and write what they share.
TraduccionesVigentes == TablasAlDia /\ (~pendiente => Desviados = {})

\* The machine that each program sees.
FaseDe(p) ==
    CASE lugar[p] \in {"ready", "cpu"} -> "corre" [] lugar[p] \in {"fs", "kernel"} -> "espera"
      [] lugar[p] = "exit" -> "termina" [] lugar[p] = "fin" -> "fin"

ContadorDe(p) ==
    IF FaseDe(p) \in {"termina", "fin"} THEN 0
    ELSE IF lugar[p] = "cpu" THEN contexto.program_counter ELSE PCB[p].program_counter

RegistroDe(p, r) ==
    LET ceros == [i \in 1 .. Ancho[r] |-> "0"]
    IN  IF FaseDe(p) \in {"termina", "fin"} THEN ceros
        ELSE IF lugar[p] = "cpu" THEN lista_registros[r] ELSE Cargar(ceros, PCB[p].registros[r])

BytesDe(s) == [i \in 1 .. s.limite |-> user_space[s.base + i - 1]]

\* The segments of a table but the first, which is segment 0.
SegmentosDe(tabla) ==
    [i \in 1 .. Len(tabla) - 1 |-> [ID |-> tabla[i + 1].ID, bytes |-> BytesDe(tabla[i + 1])]]

FaseVista == [p \in Procesos |-> FaseDe(p)]
ContadorVisto == [p \in Procesos |-> ContadorDe(p)]
RegistrosVistos == [p \in Procesos |-> [r \in Registros |-> RegistroDe(p, r)]]
SegmentosVistos == [p \in Procesos |-> SegmentosDe(diccionario_tablas[p])]
CompartidoVisto == BytesDe(Segmento0)

Ideal == INSTANCE MaquinaIdeal WITH
    fase <- FaseVista, contador <- ContadorVisto, registros <- RegistrosVistos,
    segmentos <- SegmentosVistos, compartido <- CompartidoVisto, pedido <- pedido,
    desviados <- Desviados

\* Each program runs on a machine of its own: of the single CPU, the copies of its registers,
\* the relocation of its segments and the transfers of the file system it sees nothing but
\* what MaquinaIdeal admits, the bytes that a compaction cuts off a segment and the F_READ
\* that a compaction overtook.
ImplementaMaquina == Ideal!Spec
=============================================================================
