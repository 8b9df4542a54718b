-------------------------- MODULE PedidosMemoriaProofs --------------------------
(***************************************************************************)
(* What holds of PedidosMemoria for every set of PIDs and every bound on  *)
(* compactions, consoles and requests.  PedidosInv says what each thread  *)
(* is doing and, while no two have been inside their operations at once,  *)
(* that the socket holds one request or its reply after the EXITs, and    *)
(* how far the table of a PCB may be from the one of the memory.          *)
(***************************************************************************)
EXTENDS PedidosMemoria, TLAPS, SequenceTheorems, FiniteSetTheorems, FunctionTheorems,
        WellFoundedInduction, NaturalsInduction

-----------------------------------------------------------------------------
(* Counting requests and the threads that wait *)

\* What UnaRespuestaPorPedido counts.
Esperan(donde) ==
    {h \in Hilos : donde[h] \in {"esperar", "leer", "leerBuffer", "leerTablas",
                                 "leerBufferTablas"}}
Preguntas(cola) == {i \in DOMAIN cola : cola[i].op # "EXIT"}

LEMMA HilosFinito == IsFiniteSet(Hilos)
  <1>1. IsFiniteSet({})
    BY FS_EmptySet
  <1>2. IsFiniteSet({} \cup {"ready"})
    BY <1>1, FS_AddElement
  <1>3. IsFiniteSet({} \cup {"ready"} \cup {"running"})
    BY <1>2, FS_AddElement
  <1>4. IsFiniteSet({} \cup {"ready"} \cup {"running"} \cup {"exit"})
    BY <1>3, FS_AddElement
  <1>5. {} \cup {"ready"} \cup {"running"} \cup {"exit"} = Hilos
    BY DEF Hilos
  <1>6. IsFiniteSet(Hilos)
    BY <1>4, <1>5, Zenon
  <1> QED
    BY <1>6

LEMMA EsperanFinito ==
    ASSUME NEW donde
    PROVE  IsFiniteSet(Esperan(donde)) /\ Cardinality(Esperan(donde)) \in Nat
  <1>1. Esperan(donde) \subseteq Hilos
    BY DEF Esperan
  <1>2. IsFiniteSet(Esperan(donde))
    BY <1>1, HilosFinito, FS_Subset
  <1> QED
    BY <1>2, FS_CardinalityType

\* A thread that goes on to wait, or stops.
LEMMA EsperaUnoMas ==
    ASSUME NEW antes, NEW despues, NEW h \in Hilos, h \in Esperan(despues), h \notin Esperan(antes),
           \A g \in Hilos \ {h} : despues[g] = antes[g]
    PROVE  Cardinality(Esperan(despues)) = Cardinality(Esperan(antes)) + 1
  <1>1. Esperan(despues) = Esperan(antes) \cup {h}
    BY DEF Esperan
  <1>2. Cardinality(Esperan(antes) \cup {h}) = Cardinality(Esperan(antes)) + 1
    BY EsperanFinito, FS_AddElement
  <1> QED
    BY <1>1, <1>2, Zenon

LEMMA EsperaIgual ==
    ASSUME NEW antes, NEW despues, NEW h \in Hilos, h \in Esperan(despues) <=> h \in Esperan(antes),
           \A g \in Hilos \ {h} : despues[g] = antes[g]
    PROVE  Cardinality(Esperan(despues)) = Cardinality(Esperan(antes))
  <1>1. Esperan(despues) = Esperan(antes)
    BY DEF Esperan
  <1> QED
    BY <1>1, Zenon

LEMMA PreguntasFinito ==
    ASSUME NEW S, NEW cola \in Seq(S)
    PROVE  IsFiniteSet(Preguntas(cola)) /\ Cardinality(Preguntas(cola)) \in Nat
  <1>1. Len(cola) \in Nat /\ Preguntas(cola) \subseteq 1 .. Len(cola)
    BY LenProperties DEF Preguntas
  <1>2. IsFiniteSet(1 .. Len(cola))
    BY <1>1, FS_Interval
  <1>3. IsFiniteSet(Preguntas(cola))
    BY <1>1, <1>2, FS_Subset
  <1> QED
    BY <1>3, FS_CardinalityType

LEMMA PreguntaUnaMas ==
    ASSUME NEW S, NEW cola \in Seq(S), NEW m \in S
    PROVE  Cardinality(Preguntas(Append(cola, m))) =
               Cardinality(Preguntas(cola)) + (IF m.op = "EXIT" THEN 0 ELSE 1)
  <1> DEFINE n == Len(cola)
  <1>1. /\ n \in Nat /\ DOMAIN cola = 1 .. n /\ DOMAIN Append(cola, m) = 1 .. n + 1
        /\ Append(cola, m)[n + 1] = m
        /\ \A i \in 1 .. n : Append(cola, m)[i] = cola[i]
    BY LenProperties, AppendProperties
  <1>2. CASE m.op = "EXIT"
    <2>1. Preguntas(Append(cola, m)) = Preguntas(cola)
      BY <1>1, <1>2 DEF Preguntas
    <2>2. Cardinality(Preguntas(Append(cola, m))) = Cardinality(Preguntas(cola))
      BY <2>1, Zenon
    <2> QED
      BY <1>2, <2>2, PreguntasFinito
  <1>3. CASE m.op # "EXIT"
    <2>1. Preguntas(Append(cola, m)) = Preguntas(cola) \cup {n + 1}
      BY <1>1, <1>3 DEF Preguntas
    <2>2. n + 1 \notin Preguntas(cola)
      BY <1>1 DEF Preguntas
    <2>3. Cardinality(Preguntas(cola) \cup {n + 1}) = Cardinality(Preguntas(cola)) + 1
      BY <2>2, PreguntasFinito, FS_AddElement
    <2>4. Cardinality(Preguntas(Append(cola, m))) = Cardinality(Preguntas(cola)) + 1
      BY <2>1, <2>3, Zenon
    <2> QED
      BY <1>3, <2>4
  <1> QED
    BY <1>2, <1>3

LEMMA PreguntaUnaMenos ==
    ASSUME NEW S, NEW cola \in Seq(S), cola # <<>>
    PROVE  Cardinality(Preguntas(cola)) =
               Cardinality(Preguntas(Tail(cola))) + (IF Head(cola).op = "EXIT" THEN 0 ELSE 1)
  <1> DEFINE n == Len(cola)
             resto == Preguntas(cola) \ {1}
             f == [i \in Preguntas(Tail(cola)) |-> i + 1]
  <1>1. /\ n \in Nat \ {0} /\ DOMAIN cola = 1 .. n /\ Head(cola) = cola[1]
        /\ Tail(cola) \in Seq(S) /\ DOMAIN Tail(cola) = 1 .. n - 1
        /\ \A i \in 1 .. n - 1 : Tail(cola)[i] = cola[i + 1]
    BY LenProperties, HeadTailProperties, EmptySeq
  <1>2. Preguntas(Tail(cola)) \subseteq 1 .. n - 1 /\ resto \subseteq 2 .. n
    BY <1>1 DEF Preguntas
  <1>3. \A i \in 1 .. n - 1 : i \in Preguntas(Tail(cola)) <=> i + 1 \in resto
    BY <1>1 DEF Preguntas
  <1>4. f \in Bijection(Preguntas(Tail(cola)), resto)
    <2>1. f \in [Preguntas(Tail(cola)) -> resto]
      BY <1>2, <1>3
    <2>2. \A a, b \in Preguntas(Tail(cola)) : f[a] = f[b] => a = b
      BY <1>1, <1>2
    <2>3. \A t \in resto : \E s \in Preguntas(Tail(cola)) : f[s] = t
      <3> SUFFICES ASSUME NEW t \in resto PROVE \E s \in Preguntas(Tail(cola)) : f[s] = t
        OBVIOUS
      <3>1. t - 1 \in 1 .. n - 1 /\ (t - 1) + 1 = t
        BY <1>1, <1>2
      <3>2. t - 1 \in Preguntas(Tail(cola))
        BY <1>3, <3>1
      <3> QED
        BY <3>1, <3>2
    <2> HIDE DEF f, resto
    <2> QED
      BY <2>1, <2>2, <2>3, Fun_IsBij
  <1>5. IsFiniteSet(Preguntas(cola)) /\ IsFiniteSet(Preguntas(Tail(cola)))
        /\ Cardinality(Preguntas(Tail(cola))) \in Nat
    BY <1>1, PreguntasFinito
  <1>6. IsFiniteSet(resto)
    BY <1>5, FS_Subset
  <1>7. Cardinality(resto) = Cardinality(Preguntas(Tail(cola)))
    <2> HIDE DEF f, resto
    <2>1. ExistsBijection(Preguntas(Tail(cola)), resto)
      BY <1>4 DEF ExistsBijection
    <2> QED
      BY <1>5, <1>6, <2>1, FS_Bijection
  <1>8. CASE Head(cola).op = "EXIT"
    <2>1. resto = Preguntas(cola)
      BY <1>1, <1>8 DEF Preguntas
    <2>2. Cardinality(resto) = Cardinality(Preguntas(cola))
      BY <2>1, Zenon
    <2> HIDE DEF resto
    <2> QED
      BY <1>5, <1>7, <1>8, <2>2
  <1>9. CASE Head(cola).op # "EXIT"
    <2>1. Preguntas(cola) = resto \cup {1} /\ 1 \notin resto
      BY <1>1, <1>9 DEF Preguntas
    <2> HIDE DEF resto
    <2>2. Cardinality(resto \cup {1}) = Cardinality(resto) + 1
      BY <1>6, <2>1, FS_AddElement
    <2>3. Cardinality(Preguntas(cola)) = Cardinality(resto) + 1
      BY <2>1, <2>2, Zenon
    <2> QED
      BY <1>7, <1>9, <2>3
  <1> QED
    BY <1>8, <1>9
-----------------------------------------------------------------------------
(* The inductive invariant *)

Estados == {"cerrado", "new", "admitiendo", "ready", "exec", "exit", "saliendo"}
Operaciones == {"CREATE_SEGMENT", "DELETE_SEGMENT"}
Tablas == Seq(Segmentos)

Pedidos == {m \in [op : Operaciones \cup {"EXIT", "COMPACTION"}, PID : Procesos \cup {NADIE},
                   ID : {0, 1}] : m.op # "COMPACTION" => m.PID \in Procesos}

Respuestas == {m \in [flag : Flags, tabla : Tablas, tablas : [Procesos -> Tablas] \cup {<<>>}] :
                  m.flag = PAQUETE => m.tablas \in [Procesos -> Tablas]}

\* Where a thread may be, and what each one does.
Sitios == {"libre", "pedir", "esperar", "leer", "leerBuffer", "agregar", "decidir", "compactar",
           "leerTablas", "leerBufferTablas", "avisar", "cerrar"}

Oficios ==
    /\ pc["ready"] \notin {"decidir", "compactar", "leerTablas", "leerBufferTablas", "avisar",
                           "cerrar"}
    /\ pc["running"] \notin {"agregar", "avisar", "cerrar"}
    /\ pc["exit"] \in {"libre", "avisar", "cerrar"}

Tipado ==
    /\ estado \in [Procesos -> Estados]
    /\ tieneSegmento \in [Procesos -> BOOLEAN] /\ global_PCB_list \subseteq Procesos
    /\ tablaSegmentos \in [Procesos -> Tablas] /\ diccionario_tablas \in [Procesos -> Tablas]
    /\ pc \in [Hilos -> Sitios] /\ Oficios
    /\ proceso \in [Hilos -> Procesos \cup {NADIE}]
    /\ operacion \in Operaciones \cup {"nada"} /\ flag \in Flags
    /\ mutexMemoria \in Hilos \cup {NADIE} /\ leida \in Hilos \cup {NADIE}
    /\ pedidos \in Seq(Pedidos) /\ respuestas \in Seq(Respuestas)
    /\ compactaciones \in 0 .. MAX_COMPACTACIONES
    /\ consolas \in 0 .. MAX_CONSOLAS /\ hechos \in 0 .. MAX_PEDIDOS
    /\ caido \in BOOLEAN /\ solapados \in BOOLEAN

\* Whom each thread works for.
Trabajos ==
    /\ \A h \in Hilos : pc[h] # "libre" => proceso[h] \in Procesos
    /\ pc["running"] # "libre" => estado[proceso["running"]] = "exec" /\ operacion \in Operaciones
    /\ pc["ready"] # "libre" => estado[proceso["ready"]] = "admitiendo"
    /\ pc["exit"] # "libre" => estado[proceso["exit"]] = "saliendo"
    /\ \A p \in Procesos :
          /\ estado[p] = "admitiendo" => pc["ready"] # "libre" /\ proceso["ready"] = p
          /\ estado[p] = "saliendo" => pc["exit"] # "libre" /\ proceso["exit"] = p

\* Who has the mutex, and who is in the middle of a reply.
Turnos ==
    /\ \A h \in Hilos : pc[h] \in {"leer", "leerBuffer"} <=> mutexMemoria = h
    /\ \A h \in Hilos : pc[h] \in {"leerBuffer", "leerBufferTablas"} <=> leida = h
    /\ leida # NADIE => respuestas # <<>>
    /\ leida = "running" => flag = Head(respuestas).flag

\* What a program has asked for, against what it was told.
Programas ==
    /\ pc["running"] # "libre" =>
          (operacion = "DELETE_SEGMENT" <=> tieneSegmento[proceso["running"]])
    /\ pc["running"] \in {"compactar", "leerTablas", "leerBufferTablas"} =>
          operacion = "CREATE_SEGMENT"
    /\ \A p \in Procesos : estado[p] \in {"cerrado", "new", "admitiendo"} => ~tieneSegmento[p]

-----------------------------------------------------------------------------
(* While no two threads have been inside their operations at once *)

Espera(h) == pc[h] \in {"esperar", "leer", "leerBuffer", "leerTablas", "leerBufferTablas"}
EnVuelo(h) == Espera(h) /\ respuestas = <<>>
Contestado(h) == Espera(h) /\ respuestas # <<>>

PideCompactar == [op |-> "COMPACTION", PID |-> NADIE, ID |-> 0]
Solicitud(h) == IF pc[h] = "leerTablas" THEN PideCompactar
                ELSE [op |-> Op(h), PID |-> proceso[h], ID |-> ID(h)]

UnaSolaOperacion == \A g, h \in Hilos : EnOperacion(g) /\ EnOperacion(h) => g = h

\* In the socket: messages of EXIT, then at most one request, or its reply alone.
SocketOrdenado ==
    /\ \A h \in Hilos : EnVuelo(h) => pedidos # <<>> /\ pedidos[Len(pedidos)] = Solicitud(h)
    /\ \A h \in Hilos : Contestado(h) => pedidos = <<>>
    /\ Len(respuestas) <= 1
    /\ respuestas # <<>> => \E h \in Hilos : Contestado(h)
    /\ \A i \in 1 .. Len(pedidos) : pedidos[i].op # "EXIT" =>
          i = Len(pedidos) /\ \E h \in Hilos : EnVuelo(h)

\* The table has the segment.
Tiene(tabla, id) == \E i \in 1 .. Len(tabla) : tabla[i].ID = id

Vivo(p) == estado[p] \in {"ready", "exec", "exit"}

\* The EXIT of p is in the socket.
HayExit(cola, p) == \E i \in 1 .. Len(cola) : cola[i].op = "EXIT" /\ cola[i].PID = p
Pendiente(p) == HayExit(pedidos, p)

\* The memory has not made the table of p, or has yet to delete it.
SinTabla(p) ==
    \/ estado[p] \in {"cerrado", "new"}
    \/ estado[p] = "admitiendo" /\ (pc["ready"] = "pedir" \/ EnVuelo("ready"))
    \/ estado[p] = "saliendo" /\ pc["exit"] = "cerrar"

\* running reads the tables of a compaction, or the table of one process.
Compacta == pc["running"] \in {"leerTablas", "leerBufferTablas"}

\* The memory has answered and the kernel has not read.
Desfasado(p) == Contestado("running") /\ (Compacta \/ p = proceso["running"])

TablasSerenas ==
    /\ \A p \in Procesos : Vivo(p) =>
          /\ p \in global_PCB_list /\ Tiene(diccionario_tablas[p], 0) /\ ~Pendiente(p)
          /\ Desfasado(p) \/ tablaSegmentos[p] = diccionario_tablas[p]
    /\ \A p \in Procesos : SinTabla(p) => Pendiente(p) \/ diccionario_tablas[p] = <<>>
    /\ pc["exit"] = "avisar" => ~Pendiente(proceso["exit"])
    /\ pc["ready"] = "agregar" =>
          /\ ~Pendiente(proceso["ready"]) /\ Tiene(diccionario_tablas[proceso["ready"]], 0)
          /\ tablaSegmentos[proceso["ready"]] = diccionario_tablas[proceso["ready"]]

RespuestaSerena ==
    /\ Contestado("ready") =>
          /\ Tiene(diccionario_tablas[proceso["ready"]], 0)
          /\ Head(respuestas).tabla = diccionario_tablas[proceso["ready"]]
    /\ Contestado("running") =>
          IF Compacta THEN /\ Head(respuestas).flag = PAQUETE
                           /\ Head(respuestas).tablas = diccionario_tablas
          ELSE Head(respuestas).tabla = diccionario_tablas[proceso["running"]]

\* The memory has done what running asked for.
Hecho == Contestado("running") \/ pc["running"] = "decidir"

SegmentosSerenos ==
    /\ \A p \in Procesos : estado[p] \in {"ready", "exec"} /\ tieneSegmento[p] =>
          \/ Tiene(diccionario_tablas[p], 1)
          \/ pc["running"] # "libre" /\ p = proceso["running"] /\ Hecho
    /\ operacion = "CREATE_SEGMENT" =>
          /\ Contestado("running") /\ ~Compacta /\ Head(respuestas).flag = 0 =>
                Tiene(diccionario_tablas[proceso["running"]], 1)
          /\ pc["running"] = "decidir" /\ flag = 0 =>
                Tiene(diccionario_tablas[proceso["running"]], 1)

Sereno == ~caido /\ UnaSolaOperacion /\ SocketOrdenado /\ TablasSerenas /\ RespuestaSerena
          /\ SegmentosSerenos

PedidosInv ==
    /\ Tipado /\ Trabajos /\ Turnos /\ Programas /\ UnaRespuestaPorPedido
    /\ ~solapados => Sereno

-----------------------------------------------------------------------------
(* The steps that keep it *)

\* A thread that is not waiting for work has a process and a request of its own.
LEMMA TrabajaParaAlguien ==
    ASSUME PedidosInv, NEW h \in {"ready", "running"}, pc[h] # "libre"
    PROVE  proceso[h] \in Procesos /\ Op(h) \in Operaciones /\ ID(h) \in {0, 1} /\ h \in Hilos
  BY DEF PedidosInv, Trabajos, Op, ID, Operaciones, Hilos

\* A message at the end of the socket.
LEMMA UnMensajeMas ==
    ASSUME NEW cola \in Seq(Pedidos), NEW m \in Pedidos, NEW larga, larga = Append(cola, m)
    PROVE  /\ larga \in Seq(Pedidos) /\ Len(larga) = Len(cola) + 1
           /\ Len(cola) \in Nat /\ larga # <<>> /\ larga[Len(larga)] = m
           /\ \A i \in 1 .. Len(cola) : larga[i] = cola[i]
           /\ \A q \in Procesos : HayExit(cola, q) => HayExit(larga, q)
           /\ \A q \in Procesos : HayExit(larga, q) /\ m.op # "EXIT" => HayExit(cola, q)
           /\ \A q \in Procesos : HayExit(larga, q) /\ m.PID # q => HayExit(cola, q)
  <1>1. /\ larga \in Seq(Pedidos) /\ Len(larga) = Len(cola) + 1
        /\ Len(cola) \in Nat /\ larga # <<>> /\ larga[Len(cola) + 1] = m
        /\ \A i \in 1 .. Len(cola) : larga[i] = cola[i]
    BY AppendProperties, LenProperties, EmptySeq
  <1>2. ASSUME NEW q \in Procesos, HayExit(larga, q)
        PROVE  HayExit(cola, q) \/ (m.op = "EXIT" /\ m.PID = q)
    <2>1. PICK i \in 1 .. Len(larga) : larga[i].op = "EXIT" /\ larga[i].PID = q
      BY <1>2 DEF HayExit
    <2>2. CASE i \in 1 .. Len(cola)
      <3>1. larga[i] = cola[i]
        BY <1>1, <2>2
      <3> QED
        BY <2>1, <2>2, <3>1 DEF HayExit
    <2>3. CASE i = Len(cola) + 1
      BY <1>1, <2>1, <2>3
    <2> QED
      BY <1>1, <2>2, <2>3
  <1>3. ASSUME NEW q \in Procesos, HayExit(cola, q) PROVE HayExit(larga, q)
    <2>1. PICK i \in 1 .. Len(cola) : cola[i].op = "EXIT" /\ cola[i].PID = q
      BY <1>3 DEF HayExit
    <2>2. i \in 1 .. Len(larga) /\ larga[i] = cola[i]
      BY <1>1
    <2> QED
      BY <2>1, <2>2 DEF HayExit
  <1> QED
    BY <1>1, <1>2, <1>3

\* An EXIT that is sent is in the socket.
LEMMA UnExitMas ==
    ASSUME NEW cola \in Seq(Pedidos), NEW m \in Pedidos, NEW larga, larga = Append(cola, m),
           NEW q \in Procesos, m.op = "EXIT", m.PID = q
    PROVE  HayExit(larga, q)
  <1>1. Len(larga) = Len(cola) + 1 /\ Len(cola) \in Nat /\ larga[Len(cola) + 1] = m
    BY AppendProperties, LenProperties
  <1> QED
    BY <1>1 DEF HayExit

\* The memory takes the first message.
LEMMA UnMensajeMenos ==
    ASSUME NEW cola \in Seq(Pedidos), cola # <<>>, NEW corta, corta = Tail(cola)
    PROVE  /\ corta \in Seq(Pedidos) /\ Len(corta) = Len(cola) - 1
           /\ Len(cola) \in Nat \ {0} /\ cola[1] = Head(cola) /\ Head(cola) \in Pedidos
           /\ \A i \in 1 .. Len(corta) : corta[i] = cola[i + 1]
           /\ \A q \in Procesos : HayExit(corta, q) => HayExit(cola, q)
           /\ \A q \in Procesos :
                 HayExit(cola, q) /\ Head(cola).op # "EXIT" => HayExit(corta, q)
           /\ \A q \in Procesos : HayExit(cola, q) /\ Head(cola).PID # q => HayExit(corta, q)
           /\ \A q \in Procesos :
                 Head(cola).op = "EXIT" /\ Head(cola).PID = q => HayExit(cola, q)
  <1>1. /\ corta \in Seq(Pedidos) /\ Len(corta) = Len(cola) - 1
        /\ Len(cola) \in Nat \ {0} /\ cola[1] = Head(cola) /\ Head(cola) \in Pedidos
        /\ \A i \in 1 .. Len(corta) : corta[i] = cola[i + 1]
    BY HeadTailProperties, LenProperties, EmptySeq
  <1>2. ASSUME NEW q \in Procesos, HayExit(corta, q) PROVE HayExit(cola, q)
    BY <1>1, <1>2 DEF HayExit
  <1>3. ASSUME NEW q \in Procesos, HayExit(cola, q)
        PROVE  HayExit(corta, q) \/ (Head(cola).op = "EXIT" /\ Head(cola).PID = q)
    <2>1. PICK i \in 1 .. Len(cola) : cola[i].op = "EXIT" /\ cola[i].PID = q
      BY <1>3 DEF HayExit
    <2>2. CASE i = 1
      BY <1>1, <2>1, <2>2
    <2>3. CASE i # 1
      <3>1. PICK j \in 1 .. Len(corta) : j + 1 = i
        BY <1>1, <2>3
      <3>2. corta[j] = cola[i]
        BY <1>1, <3>1
      <3> QED
        BY <2>1, <3>2 DEF HayExit
    <2> QED
      BY <2>2, <2>3
  <1>4. ASSUME Head(cola).op = "EXIT" PROVE HayExit(cola, Head(cola).PID)
    BY <1>1, <1>4 DEF HayExit
  <1> QED
    BY <1>1, <1>2, <1>3, <1>4

\* A thread of the kernel that is alone in its operation and does not wait finds in the socket
\* nothing but EXITs.
LEMMA SocketLibre ==
    ASSUME PedidosInv, ~solapados, NEW h \in Hilos, EnOperacion(h), ~Espera(h)
    PROVE  /\ respuestas = <<>> /\ \A g \in Hilos : ~EnVuelo(g) /\ ~Contestado(g)
           /\ \A i \in 1 .. Len(pedidos) : pedidos[i].op = "EXIT"
           /\ \A g \in Hilos \ {h} : ~EnOperacion(g)
  <1>1. \A g \in Hilos \ {h} : ~EnOperacion(g)
    BY DEF PedidosInv, Sereno, UnaSolaOperacion
  <1>2. \A g \in Hilos : ~Espera(g)
    BY <1>1 DEF EnOperacion, Espera
  <1> QED
    BY <1>1, <1>2 DEF PedidosInv, Sereno, SocketOrdenado, EnVuelo, Contestado

-----------------------------------------------------------------------------
(* The memory *)

\* What the first match of SelectInSeq is.
LEMMA HayMinimo ==
    ASSUME NEW S \in SUBSET Nat, S # {}
    PROVE  Min(S) \in S
  <1> DEFINE R == OpToRel(<, Nat)
  <1>1. IsWellFoundedOn(R, Nat)
    BY NatLessThanWellFounded
  <1>2. \A x, y \in Nat : <<y, x>> \in R <=> y < x
    BY DEF OpToRel
  <1> HIDE DEF R
  <1>3. PICK x \in S : \A y \in S : ~ (<<y, x>> \in R)
    BY <1>1, WFMin
  <1>4. ASSUME NEW y \in S PROVE x =< y
    <2>1. x \in Nat /\ y \in Nat /\ ~ (<<y, x>> \in R)
      BY <1>3
    <2>2. ~ (y < x)
      BY <1>2, <2>1
    <2> QED
      BY <2>1, <2>2
  <1> QED
    BY <1>4 DEF Min

\* One more segment in a table.
LEMMA TablaConUnoMas ==
    ASSUME NEW t \in Tablas, NEW s \in Segmentos
    PROVE  /\ Append(t, s) \in Tablas
           /\ \A id : Tiene(t, id) => Tiene(Append(t, s), id)
           /\ Tiene(Append(t, s), s.ID)
  <1>1. /\ Append(t, s) \in Tablas /\ Len(t) \in Nat /\ Len(Append(t, s)) = Len(t) + 1
        /\ Append(t, s)[Len(t) + 1] = s
        /\ \A i \in 1 .. Len(t) : Append(t, s)[i] = t[i]
    BY AppendProperties, LenProperties DEF Tablas
  <1>2. ASSUME NEW id, Tiene(t, id) PROVE Tiene(Append(t, s), id)
    <2>1. PICK i \in 1 .. Len(t) : t[i].ID = id
      BY <1>2 DEF Tiene
    <2>2. i \in 1 .. Len(Append(t, s)) /\ Append(t, s)[i].ID = id
      BY <1>1, <2>1
    <2> QED
      BY <2>2 DEF Tiene
  <1>3. Tiene(Append(t, s), s.ID)
    BY <1>1 DEF Tiene
  <1> QED
    BY <1>1, <1>2, <1>3

\* And one less.
LEMMA TablaConUnoMenos ==
    ASSUME NEW t \in Tablas, NEW j \in 1 .. Len(t), NEW corta, corta = RemoveAt(t, j)
    PROVE  /\ corta \in Tablas
           /\ \A id : Tiene(t, id) /\ id # t[j].ID => Tiene(corta, id)
  <1> DEFINE a == SubSeq(t, 1, j - 1)
             b == SubSeq(t, j + 1, Len(t))
  <1>1. /\ Len(t) \in Nat /\ j \in Nat /\ t \in Seq(Segmentos)
        /\ \A i \in 1 .. Len(t) : t[i] \in Segmentos
    BY LenProperties, ElementOfSeq DEF Tablas
  <1>2. /\ a \in Seq(Segmentos) /\ Len(a) = j - 1 /\ \A i \in 1 .. j - 1 : a[i] = t[i]
    BY <1>1, SubSeqProperties
  <1>3. /\ b \in Seq(Segmentos) /\ Len(b) = Len(t) - j
        /\ \A i \in 1 .. Len(t) - j : b[i] = t[i + j]
    BY <1>1, SubSeqProperties
  <1> HIDE DEF a, b
  <1>4. /\ a \o b \in Seq(Segmentos) /\ Len(a \o b) = Len(a) + Len(b)
        /\ \A i \in 1 .. Len(a) : (a \o b)[i] = a[i]
        /\ \A i \in Len(a) + 1 .. Len(a) + Len(b) : (a \o b)[i] = b[i - Len(a)]
        /\ Len(a) \in Nat /\ Len(b) \in Nat
    <2>1. Len(a) \in Nat /\ Len(b) \in Nat
      BY <1>2, <1>3, LenProperties
    <2>2. /\ a \o b \in Seq(Segmentos) /\ Len(a \o b) = Len(a) + Len(b)
          /\ \A i \in 1 .. Len(a) + Len(b) :
                (a \o b)[i] = IF i <= Len(a) THEN a[i] ELSE b[i - Len(a)]
      BY <1>2, <1>3, ConcatProperties
    <2>3. \A i \in 1 .. Len(a) : (a \o b)[i] = a[i]
      BY <2>1, <2>2
    <2>4. \A i \in Len(a) + 1 .. Len(a) + Len(b) : (a \o b)[i] = b[i - Len(a)]
      BY <2>1, <2>2
    <2> QED
      BY <2>1, <2>2, <2>3, <2>4
  <1>5. corta = a \o b
    BY DEF RemoveAt, a, b
  <1>6. ASSUME NEW id, Tiene(t, id), id # t[j].ID PROVE Tiene(corta, id)
    <2>1. PICK i \in 1 .. Len(t) : t[i].ID = id
      BY <1>6 DEF Tiene
    <2>2. CASE i < j
      <3>1. i \in 1 .. Len(a) /\ i \in 1 .. Len(a \o b)
        BY <1>1, <1>2, <1>3, <1>4, <2>2
      <3>2. (a \o b)[i] = t[i]
        BY <1>1, <1>2, <1>4, <2>2, <3>1
      <3> QED
        BY <1>5, <2>1, <3>1, <3>2 DEF Tiene
    <2>3. CASE i > j
      <3>1. /\ i - 1 \in Len(a) + 1 .. Len(a) + Len(b) /\ i - 1 \in 1 .. Len(a \o b)
            /\ (i - 1) - Len(a) = i - j /\ i - j \in 1 .. Len(t) - j /\ (i - j) + j = i
        BY <1>1, <1>2, <1>3, <1>4, <2>3
      <3>2. (a \o b)[i - 1] = b[i - j]
        BY <1>4, <3>1
      <3>3. b[i - j] = t[i]
        BY <1>3, <3>1
      <3> QED
        BY <1>5, <2>1, <3>1, <3>2, <3>3 DEF Tiene
    <2> QED
      BY <1>1, <1>6, <2>1, <2>2, <2>3
  <1> QED
    BY <1>4, <1>5, <1>6 DEF Tablas

\* A compaction moves segments, and keeps whose they are.
LEMMA TablaMovida ==
    ASSUME NEW t \in Tablas, compactaciones \in Nat, compactaciones < MAX_COMPACTACIONES
    PROVE  /\ Movida(t) \in Tablas
           /\ \A id : Tiene(t, id) => Tiene(Movida(t), id)
           /\ t = <<>> => Movida(t) = <<>>
  <1>1. /\ Len(t) \in Nat /\ DOMAIN t = 1 .. Len(t) /\ \A i \in 1 .. Len(t) : t[i] \in Segmentos
    BY LenProperties, ElementOfSeq DEF Tablas
  <1>2. \A i \in 1 .. Len(t) : Movida(t)[i] \in Segmentos /\ Movida(t)[i].ID = t[i].ID
    <2> SUFFICES ASSUME NEW i \in 1 .. Len(t)
                 PROVE  Movida(t)[i] \in Segmentos /\ Movida(t)[i].ID = t[i].ID
      OBVIOUS
    <2>1. compactaciones + 1 \in 0 .. MAX_COMPACTACIONES
      BY PedidosMemoriaAssumption
    <2>2. PICK s \in Segmentos : s = t[i]
      BY <1>1
    <2>3. [s EXCEPT !.vez = compactaciones + 1] \in Segmentos
          /\ [s EXCEPT !.vez = compactaciones + 1].ID = s.ID
      BY <2>1, <2>2 DEF Segmentos
    <2>4. Movida(t)[i] = IF s.ID = 0 THEN s ELSE [s EXCEPT !.vez = compactaciones + 1]
      BY <1>1, <2>2 DEF Movida
    <2> QED
      BY <2>2, <2>3, <2>4
  <1>3. Movida(t) = [i \in 1 .. Len(t) |-> Movida(t)[i]] /\ DOMAIN Movida(t) = 1 .. Len(t)
    BY <1>1 DEF Movida
  <1>4. Movida(t) \in Seq(Segmentos)
    BY <1>1, <1>2, <1>3, SeqDef
  <1>5. Len(Movida(t)) = Len(t)
    BY <1>1, <1>3, <1>4, LenProperties
  <1> QED
    BY <1>2, <1>4, <1>5, EmptySeq DEF Tiene, Tablas

\* What is sent last does not change what is read first.
LEMMA CabezaQueda ==
    ASSUME NEW S, NEW cola \in Seq(S), NEW m \in S, NEW larga, larga = Append(cola, m)
    PROVE  /\ larga # <<>> /\ larga \in Seq(S) /\ Len(larga) = Len(cola) + 1
           /\ cola # <<>> => Head(larga) = Head(cola)
           /\ cola = <<>> => Head(larga) = m
  <1>1. /\ larga \in Seq(S) /\ Len(larga) = Len(cola) + 1 /\ Len(cola) \in Nat
        /\ larga[Len(cola) + 1] = m /\ \A i \in 1 .. Len(cola) : larga[i] = cola[i]
    BY AppendProperties, LenProperties
  <1>2. larga # <<>> /\ Head(larga) = larga[1]
    BY <1>1, EmptySeq, HeadTailProperties
  <1>3. cola # <<>> => Head(larga) = Head(cola)
    BY <1>1, <1>2, EmptySeq, HeadTailProperties
  <1>4. cola = <<>> => Head(larga) = m
    BY <1>1, <1>2, EmptySeq
  <1> QED
    BY <1>1, <1>2, <1>3, <1>4

\* While the threads of the kernel are one at a time in their operations, a request that the
\* memory reads is the only message in the socket, and its author waits for the reply.
LEMMA PedidoAtendido ==
    ASSUME PedidosInv, ~solapados, pedidos # <<>>, Head(pedidos).op # "EXIT"
    PROVE  \E h \in {"ready", "running"} :
              /\ EnVuelo(h) /\ EnOperacion(h) /\ Head(pedidos) = Solicitud(h)
              /\ Len(pedidos) = 1 /\ respuestas = <<>> /\ Tail(pedidos) = <<>>
              /\ pc[h] \in {"esperar", "leer", "leerTablas"}
  <1>0. pedidos \in Seq(Pedidos)
    BY DEF PedidosInv, Tipado
  <1>1. /\ Len(pedidos) \in Nat \ {0} /\ pedidos[1] = Head(pedidos)
        /\ Tail(pedidos) \in Seq(Pedidos) /\ Len(Tail(pedidos)) = Len(pedidos) - 1
    <2>1. PICK corta : corta = Tail(pedidos)
      OBVIOUS
    <2>2. /\ corta \in Seq(Pedidos) /\ Len(corta) = Len(pedidos) - 1
          /\ Len(pedidos) \in Nat \ {0} /\ pedidos[1] = Head(pedidos)
      BY <1>0, <2>1, UnMensajeMenos
    <2> QED
      BY <2>1, <2>2
  <1>2. Len(pedidos) = 1 /\ \E h \in Hilos : EnVuelo(h)
    <2>1. 1 \in 1 .. Len(pedidos) /\ pedidos[1].op # "EXIT"
      BY <1>1
    <2>2. \A i \in 1 .. Len(pedidos) : pedidos[i].op # "EXIT" =>
             i = Len(pedidos) /\ \E h \in Hilos : EnVuelo(h)
      BY DEF PedidosInv, Sereno, SocketOrdenado
    <2> QED
      BY <2>1, <2>2
  <1>3. PICK h \in Hilos : EnVuelo(h)
    BY <1>2
  <1>4. pedidos[Len(pedidos)] = Solicitud(h) /\ respuestas = <<>>
    BY <1>3 DEF PedidosInv, Sereno, SocketOrdenado, EnVuelo
  <1>5. h \in {"ready", "running"} /\ EnOperacion(h)
    BY <1>3 DEF PedidosInv, Tipado, Oficios, Hilos, EnVuelo, Espera, EnOperacion
  <1>6. pc[h] \in {"esperar", "leer", "leerTablas"}
    BY <1>3, <1>4 DEF PedidosInv, Turnos, EnVuelo, Espera, Hilos, NADIE
  <1>7. Tail(pedidos) = <<>>
    BY <1>1, <1>2, EmptySeq
  <1> QED
    BY <1>1, <1>2, <1>3, <1>4, <1>5, <1>6, <1>7
\* What a reply leaves as it was: everything but the table it is about, which it carries.
Responde(h, r) ==
    /\ pedidos' = Tail(pedidos) /\ respuestas' = Append(respuestas, r)
    /\ UNCHANGED <<kernel, hilos, leida, cuentas, caido>>
    /\ diccionario_tablas' \in [Procesos -> Tablas]
    /\ \A q \in Procesos :
          /\ Tiene(diccionario_tablas[q], 0) => Tiene(diccionario_tablas'[q], 0)
          /\ diccionario_tablas[q] = <<>> /\ ~(h = "ready" /\ q = proceso["ready"]) =>
                diccionario_tablas'[q] = <<>>
          /\ Vivo(q) /\ ~(h = "running" /\ (Compacta \/ q = proceso["running"])) =>
                diccionario_tablas'[q] = diccionario_tablas[q]
          /\ Tiene(diccionario_tablas[q], 1) /\ ~(h = "running" /\ q = proceso["running"]) =>
                Tiene(diccionario_tablas'[q], 1)

\* The reply to the only request leaves the dialogue in order.
LEMMA MemoriaContesta ==
    ASSUME PedidosInv, ~solapados, pedidos # <<>>, Head(pedidos).op # "EXIT",
           NEW h \in {"ready", "running"}, EnVuelo(h), NEW r \in Respuestas, Responde(h, r),
           h = "ready" => /\ Tiene(diccionario_tablas'[proceso["ready"]], 0)
                          /\ r.tabla = diccionario_tablas'[proceso["ready"]],
           h = "running" /\ Compacta => r.flag = PAQUETE /\ r.tablas = diccionario_tablas',
           h = "running" /\ ~Compacta => r.tabla = diccionario_tablas'[proceso["running"]],
           h = "running" /\ ~Compacta /\ operacion = "CREATE_SEGMENT" /\ r.flag = 0 =>
               Tiene(diccionario_tablas'[proceso["running"]], 1)
    PROVE  Sereno'
  <1>1. /\ pc' = pc /\ proceso' = proceso /\ operacion' = operacion /\ flag' = flag
        /\ estado' = estado /\ tieneSegmento' = tieneSegmento /\ caido' = caido
        /\ tablaSegmentos' = tablaSegmentos /\ global_PCB_list' = global_PCB_list
        /\ pedidos' = Tail(pedidos) /\ respuestas' = Append(respuestas, r) /\ leida' = leida
    BY DEF Responde, kernel, hilos
  <1>2. Sereno
    BY DEF PedidosInv
  <1>3. respuestas = <<>> /\ pedidos' = <<>> /\ EnOperacion(h)
    <2>1. respuestas = <<>> /\ Tail(pedidos) = <<>>
      BY PedidoAtendido
    <2> QED
      BY <1>1, <2>1 DEF EnVuelo, Espera, EnOperacion
  <1>4. /\ respuestas' # <<>> /\ Head(respuestas') = r /\ Len(respuestas') = 1
        /\ Len(pedidos') = 0
    <2>1. respuestas \in Seq(Respuestas) /\ Len(respuestas) = 0
      BY <1>3, EmptySeq DEF PedidosInv, Tipado
    <2>2. PICK larga : larga = Append(respuestas, r)
      OBVIOUS
    <2>3. larga # <<>> /\ Len(larga) = Len(respuestas) + 1 /\ Head(larga) = r
      BY <1>3, <2>1, <2>2, CabezaQueda
    <2>4. Len(pedidos') = 0
      BY <1>3, EmptySeq
    <2> QED
      BY <1>1, <2>1, <2>2, <2>3, <2>4
  <1>5. \A g \in Hilos \ {h} : ~EnOperacion(g) /\ ~Espera(g)
    BY <1>2, <1>3 DEF Sereno, UnaSolaOperacion, EnOperacion, Espera, Hilos
  <1>6. \A g \in Hilos : ~EnVuelo(g)' /\ ~Contestado(g)
    BY <1>3, <1>4 DEF EnVuelo, Contestado
  <1>7. /\ Contestado(h)' /\ h \in Hilos
        /\ \A g \in Hilos \ {h} : ~Contestado(g)' /\ ~EnVuelo(g)
    BY <1>1, <1>4, <1>5 DEF EnVuelo, Contestado, Espera, Hilos
  <1>8. ~caido'
    BY <1>1, <1>2 DEF Sereno
  <1>9. UnaSolaOperacion'
    BY <1>1, <1>2 DEF Sereno, UnaSolaOperacion, EnOperacion
  <1>10. SocketOrdenado'
    BY <1>3, <1>4, <1>6, <1>7 DEF SocketOrdenado
  <1>11. TablasSerenas'
    <2>1. \A q \in Procesos : ~HayExit(pedidos', q) /\ ~HayExit(pedidos, q)
      <3>1. Len(pedidos) = 1 /\ pedidos[1] = Head(pedidos)
        <4>1. Len(pedidos) = 1 /\ pedidos \in Seq(Pedidos)
          BY PedidoAtendido DEF PedidosInv, Tipado
        <4> QED
          BY <4>1, HeadTailProperties
      <3> QED
        BY <1>4, <3>1 DEF HayExit
    <2>2. ASSUME NEW q \in Procesos, Vivo(q)'
          PROVE  /\ q \in global_PCB_list' /\ Tiene(diccionario_tablas'[q], 0)
                 /\ Desfasado(q)' \/ tablaSegmentos'[q] = diccionario_tablas'[q]
      <3>1. Vivo(q) /\ ~Desfasado(q)
        BY <1>1, <1>6, <2>2 DEF Vivo, Desfasado, Hilos
      <3>2. /\ q \in global_PCB_list /\ Tiene(diccionario_tablas[q], 0)
            /\ tablaSegmentos[q] = diccionario_tablas[q]
        BY <1>2, <3>1 DEF Sereno, TablasSerenas
      <3>3. CASE h = "running" /\ (Compacta \/ q = proceso["running"])
        BY <1>1, <1>7, <3>2, <3>3 DEF Desfasado, Responde, Compacta
      <3>4. CASE ~(h = "running" /\ (Compacta \/ q = proceso["running"]))
        BY <1>1, <3>1, <3>2, <3>4 DEF Responde
      <3> QED
        BY <3>3, <3>4
    <2>3. ASSUME NEW q \in Procesos, SinTabla(q)' PROVE diccionario_tablas'[q] = <<>>
      <3>1. SinTabla(q) /\ ~(h = "ready" /\ q = proceso["ready"])
        BY <1>1, <1>6, <1>7, <2>3
           DEF SinTabla, EnVuelo, Espera, PedidosInv, Trabajos, Hilos
      <3>2. diccionario_tablas[q] = <<>>
        BY <1>2, <2>1, <3>1 DEF Sereno, TablasSerenas, Pendiente
      <3> QED
        BY <3>1, <3>2 DEF Responde
    <2>4. pc'["exit"] # "avisar" /\ pc'["ready"] # "agregar"
      BY <1>1, <1>3, <1>5 DEF EnOperacion, Hilos, EnVuelo, Espera
    <2> QED
      BY <2>1, <2>2, <2>3, <2>4 DEF TablasSerenas, Pendiente
  <1>12. RespuestaSerena'
    BY <1>1, <1>4, <1>7 DEF RespuestaSerena, Compacta, Hilos
  <1>13. SegmentosSerenos'
    <2>1. pc["running"] # "decidir"
      BY <1>5 DEF EnOperacion, Hilos, EnVuelo, Espera
    <2>2. ASSUME NEW q \in Procesos, estado[q] \in {"ready", "exec"}, tieneSegmento[q]
          PROVE  \/ Tiene(diccionario_tablas'[q], 1)
                 \/ pc["running"] # "libre" /\ q = proceso["running"] /\ Hecho'
      <3>1. ~Hecho
        BY <1>6, <2>1 DEF Hecho, Hilos
      <3>2. Tiene(diccionario_tablas[q], 1)
        BY <1>2, <2>2, <3>1 DEF Sereno, SegmentosSerenos
      <3>3. CASE h = "running" /\ q = proceso["running"]
        BY <1>3, <1>7, <3>3 DEF Hecho, EnOperacion
      <3>4. CASE ~(h = "running" /\ q = proceso["running"])
        BY <3>2, <3>4 DEF Responde
      <3> QED
        BY <3>3, <3>4
    <2>3. operacion = "CREATE_SEGMENT" /\ Contestado("running")' /\ ~Compacta /\ r.flag = 0 =>
             Tiene(diccionario_tablas'[proceso["running"]], 1)
      BY <1>7 DEF Hilos
    <2> QED
      BY <1>1, <1>4, <2>1, <2>2, <2>3 DEF SegmentosSerenos, Compacta
  <1> QED
    BY <1>8, <1>9, <1>10, <1>11, <1>12, <1>13 DEF Sereno

LEMMA PasoConectar ==
    ASSUME PedidosInv, NEW p \in Procesos, Conectar(p)
    PROVE  PedidosInv'
  <1>1. /\ estado[p] = "cerrado" /\ consolas < MAX_CONSOLAS
        /\ estado' = [estado EXCEPT ![p] = "new"]
        /\ consolas' = consolas + 1
        /\ tieneSegmento' = tieneSegmento /\ tablaSegmentos' = tablaSegmentos
        /\ global_PCB_list' = global_PCB_list /\ mutexMemoria' = mutexMemoria /\ pc' = pc
        /\ proceso' = proceso /\ operacion' = operacion /\ flag' = flag
        /\ solapados' = solapados /\ pedidos' = pedidos /\ respuestas' = respuestas
        /\ leida' = leida /\ diccionario_tablas' = diccionario_tablas
        /\ compactaciones' = compactaciones /\ hechos' = hechos /\ caido' = caido
    BY DEF Conectar, En, Va, Pasa, Entra, Envia, kernel, hilos, socket, memoria, cuentas
  <1>2. /\ estado'[p] = "new"
        /\ \A q \in Procesos \ {p} : estado'[q] = estado[q]
    BY <1>1 DEF PedidosInv, Tipado, Trabajos, Hilos
  <1>11. Tipado'
    BY <1>1, <1>2, PedidosMemoriaAssumption DEF PedidosInv, Tipado, Trabajos, Oficios, Estados,
           Sitios, Operaciones, Hilos
  <1>12. Trabajos'
    BY <1>1, <1>2 DEF PedidosInv, Tipado, Trabajos, Operaciones, Oficios, Hilos
  <1>13. Turnos'
    BY <1>1, <1>2 DEF PedidosInv, Tipado, Turnos, NADIE, Hilos
  <1>14. Programas'
    BY <1>1, <1>2 DEF PedidosInv, Tipado, Trabajos, Programas, Hilos
  <1>15. UnaRespuestaPorPedido'
    BY <1>1, <1>2 DEF PedidosInv, UnaRespuestaPorPedido, EsperanRespuesta
  <1>16. ASSUME ~solapados' PROVE Sereno'
    <2>1. ~solapados /\ Sereno
      BY <1>1, <1>2, <1>16 DEF PedidosInv
    <2>2. ~caido'
      BY <1>1, <1>2, <2>1 DEF Sereno
    <2>3. UnaSolaOperacion'
      BY <1>1, <1>2, <2>1 DEF Sereno, UnaSolaOperacion, EnOperacion, Hilos
    <2>4. SocketOrdenado'
      BY <1>1, <1>2, <2>1 DEF PedidosInv, Tipado, Oficios, Sereno, UnaSolaOperacion, EnOperacion,
             SocketOrdenado, Solicitud, Op, ID, EnVuelo, Contestado, Espera, Hilos
    <2>5. TablasSerenas'
      BY <1>1, <1>2, <2>1 DEF PedidosInv, Tipado, Oficios, Trabajos, Sereno, UnaSolaOperacion,
             EnOperacion, TablasSerenas, Vivo, Pendiente, HayExit, SinTabla, Compacta, Desfasado,
             EnVuelo, Contestado, Espera, Hilos
    <2>6. RespuestaSerena'
      BY <1>1, <1>2, <2>1 DEF PedidosInv, Tipado, Oficios, Trabajos, Sereno, UnaSolaOperacion,
             EnOperacion, RespuestaSerena, Compacta, EnVuelo, Contestado, Espera, Hilos
    <2>7. SegmentosSerenos'
      BY <1>1, <1>2, <2>1 DEF PedidosInv, Tipado, Oficios, Trabajos, Programas, Sereno,
             UnaSolaOperacion, EnOperacion, SegmentosSerenos, Hecho, Compacta, EnVuelo,
             Contestado, Espera, Hilos
    <2> QED
      BY <2>2, <2>3, <2>4, <2>5, <2>6, <2>7 DEF Sereno
  <1> QED
    BY <1>11, <1>12, <1>13, <1>14, <1>15, <1>16 DEF PedidosInv

LEMMA PasoDespachar ==
    ASSUME PedidosInv, NEW p \in Procesos, Despachar(p)
    PROVE  PedidosInv'
  <1>1. /\ pc["running"] = "libre" /\ estado[p] = "ready"
        /\ estado' = [estado EXCEPT ![p] = "exec"]
        /\ tieneSegmento' = tieneSegmento /\ tablaSegmentos' = tablaSegmentos
        /\ global_PCB_list' = global_PCB_list /\ mutexMemoria' = mutexMemoria /\ pc' = pc
        /\ proceso' = proceso /\ operacion' = operacion /\ flag' = flag
        /\ solapados' = solapados /\ pedidos' = pedidos /\ respuestas' = respuestas
        /\ leida' = leida /\ diccionario_tablas' = diccionario_tablas
        /\ compactaciones' = compactaciones /\ consolas' = consolas /\ hechos' = hechos
        /\ caido' = caido
    BY DEF Despachar, En, Va, Pasa, Entra, Envia, kernel, hilos, socket, memoria, cuentas
  <1>2. /\ estado'[p] = "exec"
        /\ \A q \in Procesos \ {p} : estado'[q] = estado[q]
    BY <1>1 DEF PedidosInv, Tipado, Trabajos, Hilos
  <1>11. Tipado'
    BY <1>1, <1>2 DEF PedidosInv, Tipado, Trabajos, Oficios, Estados, Sitios, Operaciones, Hilos
  <1>12. Trabajos'
    BY <1>1, <1>2 DEF PedidosInv, Tipado, Trabajos, Operaciones, Oficios, Hilos
  <1>13. Turnos'
    BY <1>1, <1>2 DEF PedidosInv, Tipado, Turnos, NADIE, Hilos
  <1>14. Programas'
    BY <1>1, <1>2 DEF PedidosInv, Tipado, Trabajos, Programas, Hilos
  <1>15. UnaRespuestaPorPedido'
    BY <1>1, <1>2 DEF PedidosInv, UnaRespuestaPorPedido, EsperanRespuesta
  <1>16. ASSUME ~solapados' PROVE Sereno'
    <2>1. ~solapados /\ Sereno
      BY <1>1, <1>2, <1>16 DEF PedidosInv
    <2>2. ~caido'
      BY <1>1, <1>2, <2>1 DEF Sereno
    <2>3. UnaSolaOperacion'
      BY <1>1, <1>2, <2>1 DEF Sereno, UnaSolaOperacion, EnOperacion, Hilos
    <2>4. SocketOrdenado'
      BY <1>1, <1>2, <2>1 DEF PedidosInv, Tipado, Oficios, Sereno, UnaSolaOperacion, EnOperacion,
             SocketOrdenado, Solicitud, Op, ID, EnVuelo, Contestado, Espera, Hilos
    <2>5. TablasSerenas'
      BY <1>1, <1>2, <2>1 DEF PedidosInv, Tipado, Oficios, Trabajos, Sereno, UnaSolaOperacion,
             EnOperacion, TablasSerenas, Vivo, Pendiente, HayExit, SinTabla, Compacta, Desfasado,
             EnVuelo, Contestado, Espera, Hilos
    <2>6. RespuestaSerena'
      BY <1>1, <1>2, <2>1 DEF PedidosInv, Tipado, Oficios, Trabajos, Sereno, UnaSolaOperacion,
             EnOperacion, RespuestaSerena, Compacta, EnVuelo, Contestado, Espera, Hilos
    <2>7. SegmentosSerenos'
      BY <1>1, <1>2, <2>1 DEF PedidosInv, Tipado, Oficios, Trabajos, Programas, Sereno,
             UnaSolaOperacion, EnOperacion, SegmentosSerenos, Hecho, Compacta, EnVuelo,
             Contestado, Espera, Hilos
    <2> QED
      BY <2>2, <2>3, <2>4, <2>5, <2>6, <2>7 DEF Sereno
  <1> QED
    BY <1>11, <1>12, <1>13, <1>14, <1>15, <1>16 DEF PedidosInv

LEMMA PasoDevolver ==
    ASSUME PedidosInv, NEW p \in Procesos, Devolver(p)
    PROVE  PedidosInv'
  <1>1. /\ pc["running"] = "libre" /\ estado[p] = "exec"
        /\ estado' = [estado EXCEPT ![p] = "ready"] \/ estado' = [estado EXCEPT ![p] = "exit"]
        /\ tieneSegmento' = tieneSegmento /\ tablaSegmentos' = tablaSegmentos
        /\ global_PCB_list' = global_PCB_list /\ mutexMemoria' = mutexMemoria /\ pc' = pc
        /\ proceso' = proceso /\ operacion' = operacion /\ flag' = flag
        /\ solapados' = solapados /\ pedidos' = pedidos /\ respuestas' = respuestas
        /\ leida' = leida /\ diccionario_tablas' = diccionario_tablas
        /\ compactaciones' = compactaciones /\ consolas' = consolas /\ hechos' = hechos
        /\ caido' = caido
    BY DEF Devolver, En, Va, Pasa, Entra, Envia, kernel, hilos, socket, memoria, cuentas
  <1>2. /\ estado'[p] \in {"ready", "exit"} /\ estado' \in [Procesos -> Estados]
        /\ \A q \in Procesos \ {p} : estado'[q] = estado[q]
    BY <1>1 DEF PedidosInv, Tipado, Trabajos, Hilos, Estados
  <1>11. Tipado'
    BY <1>1, <1>2 DEF PedidosInv, Tipado, Trabajos, Oficios, Estados, Sitios, Operaciones, Hilos
  <1>12. Trabajos'
    BY <1>1, <1>2 DEF PedidosInv, Tipado, Trabajos, Operaciones, Oficios, Hilos
  <1>13. Turnos'
    BY <1>1, <1>2 DEF PedidosInv, Tipado, Turnos, NADIE, Hilos
  <1>14. Programas'
    BY <1>1, <1>2 DEF PedidosInv, Tipado, Trabajos, Programas, Hilos
  <1>15. UnaRespuestaPorPedido'
    BY <1>1, <1>2 DEF PedidosInv, UnaRespuestaPorPedido, EsperanRespuesta
  <1>16. ASSUME ~solapados' PROVE Sereno'
    <2>1. ~solapados /\ Sereno
      BY <1>1, <1>2, <1>16 DEF PedidosInv
    <2>2. ~caido'
      BY <1>1, <1>2, <2>1 DEF Sereno
    <2>3. UnaSolaOperacion'
      BY <1>1, <1>2, <2>1 DEF Sereno, UnaSolaOperacion, EnOperacion, Hilos
    <2>4. SocketOrdenado'
      BY <1>1, <1>2, <2>1 DEF PedidosInv, Tipado, Oficios, Sereno, UnaSolaOperacion, EnOperacion,
             SocketOrdenado, Solicitud, Op, ID, EnVuelo, Contestado, Espera, Hilos
    <2>5. TablasSerenas'
      <3>1. ASSUME NEW q \in Procesos
            PROVE  /\ Vivo(q)' <=> Vivo(q)
                   /\ SinTabla(q)' <=> SinTabla(q)
                   /\ Desfasado(q)' <=> Desfasado(q)
                   /\ Pendiente(q)' <=> Pendiente(q)
        BY <1>1, <1>2 DEF Vivo, Pendiente, SinTabla, Compacta, Desfasado, EnVuelo, Contestado,
               Espera
      <3>2. proceso["exit"]' = proceso["exit"] /\ proceso["ready"]' = proceso["ready"]
        BY <1>1
      <3> QED
        BY <1>1, <2>1, <3>1, <3>2 DEF PedidosInv, Tipado, Trabajos, Sereno, TablasSerenas, Pendiente
    <2>6. RespuestaSerena'
      BY <1>1, <1>2, <2>1 DEF PedidosInv, Tipado, Oficios, Trabajos, Sereno, UnaSolaOperacion,
             EnOperacion, RespuestaSerena, Compacta, EnVuelo, Contestado, Espera, Hilos
    <2>7. SegmentosSerenos'
      BY <1>1, <1>2, <2>1 DEF PedidosInv, Tipado, Oficios, Trabajos, Programas, Sereno,
             UnaSolaOperacion, EnOperacion, SegmentosSerenos, Hecho, Compacta, EnVuelo,
             Contestado, Espera, Hilos
    <2> QED
      BY <2>2, <2>3, <2>4, <2>5, <2>6, <2>7 DEF Sereno
  <1> QED
    BY <1>11, <1>12, <1>13, <1>14, <1>15, <1>16 DEF PedidosInv

LEMMA PasoPedirSegmento ==
    ASSUME PedidosInv, NEW p \in Procesos, PedirSegmento(p)
    PROVE  PedidosInv'
  <1>1. /\ ~caido /\ pc["running"] = "libre"
        /\ estado[p] = "exec" /\ hechos < MAX_PEDIDOS
        /\ pc' = [pc EXCEPT !["running"] = "pedir"]
        /\ proceso' = [proceso EXCEPT !["running"] = p]
        /\ solapados' = (solapados \/ \E g \in Hilos \ {"running"} : EnOperacion(g))
        /\ operacion' = IF tieneSegmento[p] THEN "DELETE_SEGMENT" ELSE "CREATE_SEGMENT"
        /\ hechos' = hechos + 1
        /\ estado' = estado /\ tieneSegmento' = tieneSegmento
        /\ tablaSegmentos' = tablaSegmentos /\ global_PCB_list' = global_PCB_list
        /\ mutexMemoria' = mutexMemoria /\ flag' = flag /\ pedidos' = pedidos
        /\ respuestas' = respuestas /\ leida' = leida
        /\ diccionario_tablas' = diccionario_tablas /\ compactaciones' = compactaciones
        /\ consolas' = consolas /\ caido' = caido
    BY DEF PedirSegmento, En, Va, Pasa, Entra, Envia, kernel, hilos, socket, memoria, cuentas
  <1>2. /\ pc'["running"] = "pedir"
        /\ \A g \in Hilos \ {"running"} : pc'[g] = pc[g]
        /\ proceso'["running"] = p
        /\ \A g \in Hilos \ {"running"} : proceso'[g] = proceso[g]
    BY <1>1 DEF PedidosInv, Tipado, Trabajos, Hilos
  <1>11. Tipado'
    BY <1>1, <1>2, PedidosMemoriaAssumption DEF PedidosInv, Tipado, Trabajos, Oficios, Estados,
           Sitios, Operaciones, Hilos
  <1>12. Trabajos'
    BY <1>1, <1>2 DEF PedidosInv, Tipado, Trabajos, Operaciones, Oficios, Hilos
  <1>13. Turnos'
    BY <1>1, <1>2 DEF PedidosInv, Tipado, Turnos, NADIE, Hilos
  <1>14. Programas'
    BY <1>1, <1>2 DEF PedidosInv, Tipado, Trabajos, Programas, Hilos
  <1>15. UnaRespuestaPorPedido'
    BY <1>1, <1>2 DEF PedidosInv, UnaRespuestaPorPedido, EsperanRespuesta
  <1>16. ASSUME ~solapados' PROVE Sereno'
    <2>1. ~solapados /\ Sereno
      BY <1>1, <1>2, <1>16 DEF PedidosInv
    <2>2. ~caido'
      BY <1>1, <1>2, <1>16, <2>1 DEF Sereno
    <2>3. UnaSolaOperacion'
      BY <1>1, <1>2, <1>16, <2>1 DEF Sereno, UnaSolaOperacion, EnOperacion, Hilos
    <2>4. SocketOrdenado'
      BY <1>1, <1>2, <1>16, <2>1 DEF PedidosInv, Tipado, Oficios, Sereno, UnaSolaOperacion,
             EnOperacion, SocketOrdenado, Solicitud, Op, ID, EnVuelo, Contestado, Espera, Hilos
    <2>5. TablasSerenas'
      BY <1>1, <1>2, <1>16, <2>1 DEF PedidosInv, Tipado, Oficios, Trabajos, Sereno,
             UnaSolaOperacion, EnOperacion, TablasSerenas, Vivo, Pendiente, HayExit, SinTabla,
             Compacta, Desfasado, EnVuelo, Contestado, Espera, Hilos
    <2>6. RespuestaSerena'
      BY <1>1, <1>2, <1>16, <2>1 DEF PedidosInv, Tipado, Oficios, Trabajos, Sereno,
             UnaSolaOperacion, EnOperacion, RespuestaSerena, Compacta, EnVuelo, Contestado,
             Espera, Hilos
    <2>7. SegmentosSerenos'
      BY <1>1, <1>2, <1>16, <2>1 DEF PedidosInv, Tipado, Oficios, Trabajos, Programas, Sereno,
             UnaSolaOperacion, EnOperacion, SegmentosSerenos, Hecho, Compacta, EnVuelo,
             Contestado, Espera, Hilos
    <2> QED
      BY <2>2, <2>3, <2>4, <2>5, <2>6, <2>7 DEF Sereno
  <1> QED
    BY <1>11, <1>12, <1>13, <1>14, <1>15, <1>16 DEF PedidosInv

LEMMA PasoAdmitir ==
    ASSUME PedidosInv, NEW p \in Procesos, Admitir(p)
    PROVE  PedidosInv'
  <1>1. /\ ~caido /\ pc["ready"] = "libre"
        /\ estado[p] = "new"
        /\ pc' = [pc EXCEPT !["ready"] = "pedir"]
        /\ proceso' = [proceso EXCEPT !["ready"] = p]
        /\ solapados' = (solapados \/ \E g \in Hilos \ {"ready"} : EnOperacion(g))
        /\ estado' = [estado EXCEPT ![p] = "admitiendo"]
        /\ tieneSegmento' = tieneSegmento /\ tablaSegmentos' = tablaSegmentos
        /\ global_PCB_list' = global_PCB_list /\ mutexMemoria' = mutexMemoria
        /\ operacion' = operacion /\ flag' = flag /\ pedidos' = pedidos
        /\ respuestas' = respuestas /\ leida' = leida
        /\ diccionario_tablas' = diccionario_tablas /\ compactaciones' = compactaciones
        /\ consolas' = consolas /\ hechos' = hechos /\ caido' = caido
    BY DEF Admitir, En, Va, Pasa, Entra, Envia, kernel, hilos, socket, memoria, cuentas
  <1>2. /\ pc'["ready"] = "pedir"
        /\ \A g \in Hilos \ {"ready"} : pc'[g] = pc[g]
        /\ proceso'["ready"] = p
        /\ \A g \in Hilos \ {"ready"} : proceso'[g] = proceso[g]
        /\ estado'[p] = "admitiendo"
        /\ \A q \in Procesos \ {p} : estado'[q] = estado[q]
    BY <1>1 DEF PedidosInv, Tipado, Trabajos, Hilos
  <1>11. Tipado'
    BY <1>1, <1>2 DEF PedidosInv, Tipado, Trabajos, Oficios, Estados, Sitios, Operaciones, Hilos
  <1>12. Trabajos'
    BY <1>1, <1>2 DEF PedidosInv, Tipado, Trabajos, Operaciones, Oficios, Hilos
  <1>13. Turnos'
    BY <1>1, <1>2 DEF PedidosInv, Tipado, Turnos, NADIE, Hilos
  <1>14. Programas'
    BY <1>1, <1>2 DEF PedidosInv, Tipado, Trabajos, Programas, Hilos
  <1>15. UnaRespuestaPorPedido'
    BY <1>1, <1>2 DEF PedidosInv, UnaRespuestaPorPedido, EsperanRespuesta
  <1>16. ASSUME ~solapados' PROVE Sereno'
    <2>1. ~solapados /\ Sereno
      BY <1>1, <1>2, <1>16 DEF PedidosInv
    <2>2. ~caido'
      BY <1>1, <1>2, <1>16, <2>1 DEF Sereno
    <2>3. UnaSolaOperacion'
      BY <1>1, <1>2, <1>16, <2>1 DEF Sereno, UnaSolaOperacion, EnOperacion, Hilos
    <2>4. SocketOrdenado'
      BY <1>1, <1>2, <1>16, <2>1 DEF PedidosInv, Tipado, Oficios, Sereno, UnaSolaOperacion,
             EnOperacion, SocketOrdenado, Solicitud, Op, ID, EnVuelo, Contestado, Espera, Hilos
    <2>5. TablasSerenas'
      BY <1>1, <1>2, <1>16, <2>1 DEF PedidosInv, Tipado, Oficios, Trabajos, Sereno,
             UnaSolaOperacion, EnOperacion, TablasSerenas, Vivo, Pendiente, HayExit, SinTabla,
             Compacta, Desfasado, EnVuelo, Contestado, Espera, Hilos
    <2>6. RespuestaSerena'
      BY <1>1, <1>2, <1>16, <2>1 DEF PedidosInv, Tipado, Oficios, Trabajos, Sereno,
             UnaSolaOperacion, EnOperacion, RespuestaSerena, Compacta, EnVuelo, Contestado,
             Espera, Hilos
    <2>7. SegmentosSerenos'
      BY <1>1, <1>2, <1>16, <2>1 DEF PedidosInv, Tipado, Oficios, Trabajos, Programas, Sereno,
             UnaSolaOperacion, EnOperacion, SegmentosSerenos, Hecho, Compacta, EnVuelo,
             Contestado, Espera, Hilos
    <2> QED
      BY <2>2, <2>3, <2>4, <2>5, <2>6, <2>7 DEF Sereno
  <1> QED
    BY <1>11, <1>12, <1>13, <1>14, <1>15, <1>16 DEF PedidosInv

LEMMA PasoQuitar ==
    ASSUME PedidosInv, NEW p \in Procesos, Quitar(p)
    PROVE  PedidosInv'
  <1>1. /\ ~caido /\ pc["exit"] = "libre"
        /\ estado[p] = "exit"
        /\ pc' = [pc EXCEPT !["exit"] = "avisar"]
        /\ proceso' = [proceso EXCEPT !["exit"] = p]
        /\ solapados' = (solapados \/ \E g \in Hilos \ {"exit"} : EnOperacion(g))
        /\ estado' = [estado EXCEPT ![p] = "saliendo"]
        /\ global_PCB_list' = global_PCB_list \ {p}
        /\ tieneSegmento' = tieneSegmento /\ tablaSegmentos' = tablaSegmentos
        /\ mutexMemoria' = mutexMemoria /\ operacion' = operacion /\ flag' = flag
        /\ pedidos' = pedidos /\ respuestas' = respuestas /\ leida' = leida
        /\ diccionario_tablas' = diccionario_tablas /\ compactaciones' = compactaciones
        /\ consolas' = consolas /\ hechos' = hechos /\ caido' = caido
    BY DEF Quitar, En, Va, Pasa, Entra, Envia, kernel, hilos, socket, memoria, cuentas
  <1>2. /\ pc'["exit"] = "avisar"
        /\ \A g \in Hilos \ {"exit"} : pc'[g] = pc[g]
        /\ proceso'["exit"] = p
        /\ \A g \in Hilos \ {"exit"} : proceso'[g] = proceso[g]
        /\ estado'[p] = "saliendo"
        /\ \A q \in Procesos \ {p} : estado'[q] = estado[q]
    BY <1>1 DEF PedidosInv, Tipado, Trabajos, Hilos
  <1>11. Tipado'
    BY <1>1, <1>2 DEF PedidosInv, Tipado, Trabajos, Oficios, Estados, Sitios, Operaciones, Hilos
  <1>12. Trabajos'
    BY <1>1, <1>2 DEF PedidosInv, Tipado, Trabajos, Operaciones, Oficios, Hilos
  <1>13. Turnos'
    BY <1>1, <1>2 DEF PedidosInv, Tipado, Turnos, NADIE, Hilos
  <1>14. Programas'
    BY <1>1, <1>2 DEF PedidosInv, Tipado, Trabajos, Programas, Hilos
  <1>15. UnaRespuestaPorPedido'
    BY <1>1, <1>2 DEF PedidosInv, UnaRespuestaPorPedido, EsperanRespuesta
  <1>16. ASSUME ~solapados' PROVE Sereno'
    <2>1. ~solapados /\ Sereno
      BY <1>1, <1>2, <1>16 DEF PedidosInv
    <2>2. ~caido'
      BY <1>1, <1>2, <1>16, <2>1 DEF Sereno
    <2>3. UnaSolaOperacion'
      BY <1>1, <1>2, <1>16, <2>1 DEF Sereno, UnaSolaOperacion, EnOperacion, Hilos
    <2>4. SocketOrdenado'
      BY <1>1, <1>2, <1>16, <2>1 DEF PedidosInv, Tipado, Oficios, Sereno, UnaSolaOperacion,
             EnOperacion, SocketOrdenado, Solicitud, Op, ID, EnVuelo, Contestado, Espera, Hilos
    <2>5. TablasSerenas'
      BY <1>1, <1>2, <1>16, <2>1 DEF PedidosInv, Tipado, Oficios, Trabajos, Sereno,
             UnaSolaOperacion, EnOperacion, TablasSerenas, Vivo, Pendiente, HayExit, SinTabla,
             Compacta, Desfasado, EnVuelo, Contestado, Espera, Hilos
    <2>6. RespuestaSerena'
      BY <1>1, <1>2, <1>16, <2>1 DEF PedidosInv, Tipado, Oficios, Trabajos, Sereno,
             UnaSolaOperacion, EnOperacion, RespuestaSerena, Compacta, EnVuelo, Contestado,
             Espera, Hilos
    <2>7. SegmentosSerenos'
      BY <1>1, <1>2, <1>16, <2>1 DEF PedidosInv, Tipado, Oficios, Trabajos, Programas, Sereno,
             UnaSolaOperacion, EnOperacion, SegmentosSerenos, Hecho, Compacta, EnVuelo,
             Contestado, Espera, Hilos
    <2> QED
      BY <2>2, <2>3, <2>4, <2>5, <2>6, <2>7 DEF Sereno
  <1> QED
    BY <1>11, <1>12, <1>13, <1>14, <1>15, <1>16 DEF PedidosInv

LEMMA PasoPedir ==
    ASSUME PedidosInv, NEW h \in {"ready", "running"}, Pedir(h)
    PROVE  PedidosInv'
  <1>1. /\ ~caido /\ pc[h] = "pedir" /\ mutexMemoria = NADIE
        /\ pedidos' = Append(pedidos, [op |-> Op(h), PID |-> proceso[h], ID |-> ID(h)])
        /\ pc' = [pc EXCEPT ![h] = "esperar"]
        /\ estado' = estado /\ tieneSegmento' = tieneSegmento
        /\ tablaSegmentos' = tablaSegmentos /\ global_PCB_list' = global_PCB_list
        /\ mutexMemoria' = mutexMemoria /\ proceso' = proceso /\ operacion' = operacion
        /\ flag' = flag /\ solapados' = solapados /\ respuestas' = respuestas /\ leida' = leida
        /\ diccionario_tablas' = diccionario_tablas /\ compactaciones' = compactaciones
        /\ consolas' = consolas /\ hechos' = hechos /\ caido' = caido
    BY DEF Pedir, En, Va, Pasa, Entra, Envia, kernel, hilos, socket, memoria, cuentas
  <1>2. /\ pc'[h] = "esperar"
        /\ \A g \in Hilos \ {h} : pc'[g] = pc[g]
    BY <1>1 DEF PedidosInv, Tipado, Trabajos, Hilos
  <1>3. PICK m \in Pedidos : /\ m = [op |-> Op(h), PID |-> proceso[h], ID |-> ID(h)]
                              /\ pedidos' = Append(pedidos, m) /\ m.op # "EXIT"
    BY <1>1, TrabajaParaAlguien DEF Pedidos, Operaciones
  <1>11. Tipado'
    BY <1>1, <1>2, <1>3, AppendProperties DEF PedidosInv, Tipado, Trabajos, Oficios, Estados,
           Sitios, Operaciones, Hilos
  <1>12. Trabajos'
    BY <1>1, <1>2, <1>3 DEF PedidosInv, Tipado, Trabajos, Operaciones, Oficios, Hilos
  <1>13. Turnos'
    BY <1>1, <1>2, <1>3 DEF PedidosInv, Tipado, Turnos, NADIE, Hilos
  <1>14. Programas'
    BY <1>1, <1>2, <1>3 DEF PedidosInv, Tipado, Trabajos, Programas, Hilos
  <1>15. UnaRespuestaPorPedido'
    <2>1. Cardinality(Esperan(pc)) = Cardinality(Preguntas(pedidos)) + Len(respuestas)
      BY DEF PedidosInv, UnaRespuestaPorPedido, EsperanRespuesta, Esperan, Preguntas
    <2>2. /\ h \in Hilos /\ h \in Esperan(pc') /\ h \notin Esperan(pc)
          /\ \A g \in Hilos \ {h} : pc'[g] = pc[g]
      BY <1>1, <1>2 DEF Esperan, Hilos
    <2>3. Cardinality(Esperan(pc')) = Cardinality(Esperan(pc)) + 1
      BY <2>2, EsperaUnoMas
    <2>4. Cardinality(Preguntas(pedidos')) = Cardinality(Preguntas(pedidos)) + 1
      BY <1>1, <1>3, PreguntaUnaMas DEF PedidosInv, Tipado
    <2>5. Len(respuestas') = Len(respuestas)
      BY <1>1
    <2>6. /\ Len(respuestas) \in Nat /\ Len(respuestas') \in Nat
          /\ Cardinality(Preguntas(pedidos)) \in Nat /\ Cardinality(Preguntas(pedidos')) \in Nat
          /\ Cardinality(Esperan(pc)) \in Nat /\ Cardinality(Esperan(pc')) \in Nat
      BY <1>11, LenProperties, EsperanFinito, PreguntasFinito DEF PedidosInv, Tipado
    <2>7. Cardinality(Esperan(pc')) = Cardinality(Preguntas(pedidos')) + Len(respuestas')
      BY <2>1, <2>3, <2>4, <2>5, <2>6
    <2> QED
      BY <2>7, Zenon DEF UnaRespuestaPorPedido, EsperanRespuesta, Esperan, Preguntas
  <1>16. ASSUME ~solapados' PROVE Sereno'
    <2>1. ~solapados /\ Sereno
      BY <1>1, <1>2, <1>3, <1>16 DEF PedidosInv
    <2>20. /\ EnOperacion(h) /\ ~Espera(h) /\ h \in Hilos
      BY <1>1, <1>2 DEF EnOperacion, Espera, Hilos
    <2>21. /\ respuestas = <<>> /\ \A g \in Hilos : ~EnVuelo(g) /\ ~Contestado(g)
           /\ \A i \in 1 .. Len(pedidos) : pedidos[i].op = "EXIT"
           /\ \A g \in Hilos \ {h} : ~EnOperacion(g)
      BY <2>1, <2>20, SocketLibre
    <2>22. /\ Len(pedidos') = Len(pedidos) + 1 /\ Len(pedidos) \in Nat /\ pedidos' # <<>>
           /\ pedidos'[Len(pedidos')] = m
           /\ \A i \in 1 .. Len(pedidos) : pedidos'[i] = pedidos[i]
           /\ \A q \in Procesos : HayExit(pedidos', q) <=> HayExit(pedidos, q)
      <3>1. pedidos \in Seq(Pedidos)
        BY DEF PedidosInv, Tipado
      <3>2. PICK larga : larga = pedidos'
        OBVIOUS
      <3>4. larga = Append(pedidos, m) /\ m.op # "EXIT" /\ m \in Pedidos
        BY <1>3, <3>2
      <3>3. /\ Len(larga) = Len(pedidos) + 1 /\ Len(pedidos) \in Nat /\ larga # <<>>
            /\ larga[Len(larga)] = m
            /\ \A i \in 1 .. Len(pedidos) : larga[i] = pedidos[i]
        BY <3>1, <3>4, UnMensajeMas
      <3>5. ASSUME NEW q \in Procesos, HayExit(pedidos, q) PROVE HayExit(larga, q)
        BY <3>1, <3>4, <3>5, UnMensajeMas
      <3>6. ASSUME NEW q \in Procesos, HayExit(larga, q) PROVE HayExit(pedidos, q)
        BY <3>1, <3>4, <3>6, UnMensajeMas
      <3> QED
        BY <3>2, <3>3, <3>5, <3>6
    <2>2. ~caido'
      BY <1>1, <1>2, <1>3, <2>1, <2>20, <2>21, <2>22 DEF Sereno
    <2>3. UnaSolaOperacion'
      BY <1>1, <1>2, <1>3, <2>1, <2>20, <2>21, <2>22 DEF Sereno, UnaSolaOperacion, EnOperacion,
             Hilos
    <2>4. SocketOrdenado'
      BY <1>1, <1>2, <1>3, <2>1, <2>20, <2>21, <2>22 DEF PedidosInv, Tipado, Oficios, Sereno,
             UnaSolaOperacion, EnOperacion, SocketOrdenado, Solicitud, Op, ID, EnVuelo,
             Contestado, Espera, Hilos
    <2>5. TablasSerenas'
      <3>1. ASSUME NEW q \in Procesos
            PROVE  /\ Vivo(q)' <=> Vivo(q)
                   /\ SinTabla(q)' => SinTabla(q)
                   /\ ~Desfasado(q) /\ ~Desfasado(q)'
                   /\ Pendiente(q)' <=> Pendiente(q)
        BY <1>1, <1>2, <2>20, <2>21, <2>22
           DEF Vivo, SinTabla, Desfasado, EnVuelo, Contestado, Espera, Pendiente, Hilos
      <3>2. pc'["ready"] # "agregar" /\ pc'["exit"] # "avisar"
        BY <1>2, <2>21 DEF EnOperacion, Hilos
      <3>3. \A q \in Procesos : Vivo(q) =>
               /\ q \in global_PCB_list /\ Tiene(diccionario_tablas[q], 0) /\ ~Pendiente(q)
               /\ tablaSegmentos[q] = diccionario_tablas[q]
        BY <2>1, <3>1 DEF Sereno, TablasSerenas
      <3>4. \A q \in Procesos : SinTabla(q) => Pendiente(q) \/ diccionario_tablas[q] = <<>>
        BY <2>1 DEF Sereno, TablasSerenas
      <3> QED
        BY <1>1, <3>1, <3>2, <3>3, <3>4 DEF TablasSerenas
    <2>6. RespuestaSerena'
      BY <1>1, <1>2, <1>3, <2>1, <2>20, <2>21, <2>22 DEF PedidosInv, Tipado, Oficios, Trabajos,
             Sereno, UnaSolaOperacion, EnOperacion, RespuestaSerena, Compacta, EnVuelo,
             Contestado, Espera, Hilos
    <2>7. SegmentosSerenos'
      BY <1>1, <1>2, <1>3, <2>1, <2>20, <2>21, <2>22 DEF PedidosInv, Tipado, Oficios, Trabajos,
             Programas, Sereno, UnaSolaOperacion, EnOperacion, SegmentosSerenos, Hecho, Compacta,
             EnVuelo, Contestado, Espera, Hilos
    <2> QED
      BY <2>2, <2>3, <2>4, <2>5, <2>6, <2>7 DEF Sereno
  <1> QED
    BY <1>11, <1>12, <1>13, <1>14, <1>15, <1>16 DEF PedidosInv

LEMMA PasoTomarMutex ==
    ASSUME PedidosInv, NEW h \in {"ready", "running"}, TomarMutex(h)
    PROVE  PedidosInv'
  <1>1. /\ ~caido /\ pc[h] = "esperar" /\ mutexMemoria = NADIE
        /\ mutexMemoria' = h
        /\ pc' = [pc EXCEPT ![h] = "leer"]
        /\ estado' = estado /\ tieneSegmento' = tieneSegmento
        /\ tablaSegmentos' = tablaSegmentos /\ global_PCB_list' = global_PCB_list
        /\ proceso' = proceso /\ operacion' = operacion /\ flag' = flag
        /\ solapados' = solapados /\ pedidos' = pedidos /\ respuestas' = respuestas
        /\ leida' = leida /\ diccionario_tablas' = diccionario_tablas
        /\ compactaciones' = compactaciones /\ consolas' = consolas /\ hechos' = hechos
        /\ caido' = caido
    BY DEF TomarMutex, En, Va, Pasa, Entra, Envia, kernel, hilos, socket, memoria, cuentas
  <1>2. /\ pc'[h] = "leer"
        /\ \A g \in Hilos \ {h} : pc'[g] = pc[g]
    BY <1>1 DEF PedidosInv, Tipado, Trabajos, Hilos
  <1>11. Tipado'
    BY <1>1, <1>2 DEF PedidosInv, Tipado, Trabajos, Oficios, Estados, Sitios, Operaciones, Hilos
  <1>12. Trabajos'
    BY <1>1, <1>2 DEF PedidosInv, Tipado, Trabajos, Operaciones, Oficios, Hilos
  <1>13. Turnos'
    BY <1>1, <1>2 DEF PedidosInv, Tipado, Turnos, NADIE, Hilos
  <1>14. Programas'
    BY <1>1, <1>2 DEF PedidosInv, Tipado, Trabajos, Programas, Hilos
  <1>15. UnaRespuestaPorPedido'
    <2>1. Cardinality(Esperan(pc)) = Cardinality(Preguntas(pedidos)) + Len(respuestas)
      BY DEF PedidosInv, UnaRespuestaPorPedido, EsperanRespuesta, Esperan, Preguntas
    <2>2. /\ h \in Hilos /\ (h \in Esperan(pc) <=> h \in Esperan(pc'))
          /\ \A g \in Hilos \ {h} : pc'[g] = pc[g]
      BY <1>1, <1>2 DEF Esperan, Hilos
    <2>3. Cardinality(Esperan(pc')) = Cardinality(Esperan(pc))
      BY <2>2, EsperaIgual
    <2>4. Cardinality(Preguntas(pedidos')) = Cardinality(Preguntas(pedidos))
      BY <1>1
    <2>5. Len(respuestas') = Len(respuestas)
      BY <1>1
    <2>6. /\ Len(respuestas) \in Nat /\ Len(respuestas') \in Nat
          /\ Cardinality(Preguntas(pedidos)) \in Nat /\ Cardinality(Preguntas(pedidos')) \in Nat
          /\ Cardinality(Esperan(pc)) \in Nat /\ Cardinality(Esperan(pc')) \in Nat
      BY <1>11, LenProperties, EsperanFinito, PreguntasFinito DEF PedidosInv, Tipado
    <2>7. Cardinality(Esperan(pc')) = Cardinality(Preguntas(pedidos')) + Len(respuestas')
      BY <2>1, <2>3, <2>4, <2>5, <2>6
    <2> QED
      BY <2>7, Zenon DEF UnaRespuestaPorPedido, EsperanRespuesta, Esperan, Preguntas
  <1>16. ASSUME ~solapados' PROVE Sereno'
    <2>1. ~solapados /\ Sereno
      BY <1>1, <1>2, <1>16 DEF PedidosInv
    <2>2. ~caido'
      BY <1>1, <1>2, <2>1 DEF Sereno
    <2>3. UnaSolaOperacion'
      BY <1>1, <1>2, <2>1 DEF Sereno, UnaSolaOperacion, EnOperacion, Hilos
    <2>4. SocketOrdenado'
      BY <1>1, <1>2, <2>1 DEF PedidosInv, Tipado, Oficios, Sereno, UnaSolaOperacion, EnOperacion,
             SocketOrdenado, Solicitud, Op, ID, EnVuelo, Contestado, Espera, Hilos
    <2>5. TablasSerenas'
      BY <1>1, <1>2, <2>1 DEF PedidosInv, Tipado, Oficios, Trabajos, Sereno, UnaSolaOperacion,
             EnOperacion, TablasSerenas, Vivo, Pendiente, HayExit, SinTabla, Compacta, Desfasado,
             EnVuelo, Contestado, Espera, Hilos
    <2>6. RespuestaSerena'
      BY <1>1, <1>2, <2>1 DEF PedidosInv, Tipado, Oficios, Trabajos, Sereno, UnaSolaOperacion,
             EnOperacion, RespuestaSerena, Compacta, EnVuelo, Contestado, Espera, Hilos
    <2>7. SegmentosSerenos'
      BY <1>1, <1>2, <2>1 DEF PedidosInv, Tipado, Oficios, Trabajos, Programas, Sereno,
             UnaSolaOperacion, EnOperacion, SegmentosSerenos, Hecho, Compacta, EnVuelo,
             Contestado, Espera, Hilos
    <2> QED
      BY <2>2, <2>3, <2>4, <2>5, <2>6, <2>7 DEF Sereno
  <1> QED
    BY <1>11, <1>12, <1>13, <1>14, <1>15, <1>16 DEF PedidosInv

LEMMA PasoLeerOperacion ==
    ASSUME PedidosInv, NEW h \in {"ready", "running"}, LeerOperacion(h)
    PROVE  PedidosInv'
  <1>1. /\ ~caido /\ pc[h] \in {"leer", "leerTablas"} /\ respuestas # <<>>
        /\ leida = NADIE
        /\ pc' = [pc EXCEPT ![h] = IF pc[h] = "leer" THEN "leerBuffer" ELSE "leerBufferTablas"]
        /\ leida' = h
        /\ flag' = IF h = "running" THEN Head(respuestas).flag ELSE flag
        /\ estado' = estado /\ tieneSegmento' = tieneSegmento
        /\ tablaSegmentos' = tablaSegmentos /\ global_PCB_list' = global_PCB_list
        /\ mutexMemoria' = mutexMemoria /\ proceso' = proceso /\ operacion' = operacion
        /\ solapados' = solapados /\ pedidos' = pedidos /\ respuestas' = respuestas
        /\ diccionario_tablas' = diccionario_tablas /\ compactaciones' = compactaciones
        /\ consolas' = consolas /\ hechos' = hechos /\ caido' = caido
    BY DEF LeerOperacion, En, Va, Pasa, Entra, Envia, kernel, hilos, socket, memoria, cuentas
  <1>2. /\ pc'[h] = IF pc[h] = "leer" THEN "leerBuffer" ELSE "leerBufferTablas"
        /\ \A g \in Hilos \ {h} : pc'[g] = pc[g]
    BY <1>1 DEF PedidosInv, Tipado, Trabajos, Hilos
  <1>3. Head(respuestas).flag \in Flags
    <2>1. Head(respuestas) \in Respuestas
      BY <1>1, HeadTailProperties DEF PedidosInv, Tipado
    <2> QED
      BY <2>1 DEF Respuestas
  <1>11. Tipado'
    BY <1>1, <1>2, <1>3 DEF PedidosInv, Tipado, Trabajos, Oficios, Estados, Sitios, Operaciones,
           Hilos
  <1>12. Trabajos'
    BY <1>1, <1>2, <1>3 DEF PedidosInv, Tipado, Trabajos, Operaciones, Oficios, Hilos
  <1>13. Turnos'
    BY <1>1, <1>2, <1>3 DEF PedidosInv, Tipado, Turnos, NADIE, Hilos
  <1>14. Programas'
    BY <1>1, <1>2, <1>3 DEF PedidosInv, Tipado, Trabajos, Programas, Hilos
  <1>15. UnaRespuestaPorPedido'
    <2>1. Cardinality(Esperan(pc)) = Cardinality(Preguntas(pedidos)) + Len(respuestas)
      BY DEF PedidosInv, UnaRespuestaPorPedido, EsperanRespuesta, Esperan, Preguntas
    <2>2. /\ h \in Hilos /\ (h \in Esperan(pc) <=> h \in Esperan(pc'))
          /\ \A g \in Hilos \ {h} : pc'[g] = pc[g]
      BY <1>1, <1>2 DEF Esperan, Hilos
    <2>3. Cardinality(Esperan(pc')) = Cardinality(Esperan(pc))
      BY <2>2, EsperaIgual
    <2>4. Cardinality(Preguntas(pedidos')) = Cardinality(Preguntas(pedidos))
      BY <1>1
    <2>5. Len(respuestas') = Len(respuestas)
      BY <1>1
    <2>6. /\ Len(respuestas) \in Nat /\ Len(respuestas') \in Nat
          /\ Cardinality(Preguntas(pedidos)) \in Nat /\ Cardinality(Preguntas(pedidos')) \in Nat
          /\ Cardinality(Esperan(pc)) \in Nat /\ Cardinality(Esperan(pc')) \in Nat
      BY <1>11, LenProperties, EsperanFinito, PreguntasFinito DEF PedidosInv, Tipado
    <2>7. Cardinality(Esperan(pc')) = Cardinality(Preguntas(pedidos')) + Len(respuestas')
      BY <2>1, <2>3, <2>4, <2>5, <2>6
    <2> QED
      BY <2>7, Zenon DEF UnaRespuestaPorPedido, EsperanRespuesta, Esperan, Preguntas
  <1>16. ASSUME ~solapados' PROVE Sereno'
    <2>1. ~solapados /\ Sereno
      BY <1>1, <1>2, <1>3, <1>16 DEF PedidosInv
    <2>2. ~caido'
      BY <1>1, <1>2, <1>3, <2>1 DEF Sereno
    <2>3. UnaSolaOperacion'
      BY <1>1, <1>2, <1>3, <2>1 DEF Sereno, UnaSolaOperacion, EnOperacion, Hilos
    <2>4. SocketOrdenado'
      BY <1>1, <1>2, <1>3, <2>1 DEF PedidosInv, Tipado, Oficios, Sereno, UnaSolaOperacion,
             EnOperacion, SocketOrdenado, Solicitud, Op, ID, EnVuelo, Contestado, Espera, Hilos
    <2>5. TablasSerenas'
      BY <1>1, <1>2, <1>3, <2>1 DEF PedidosInv, Tipado, Oficios, Trabajos, Sereno,
             UnaSolaOperacion, EnOperacion, TablasSerenas, Vivo, Pendiente, HayExit, SinTabla,
             Compacta, Desfasado, EnVuelo, Contestado, Espera, Hilos
    <2>6. RespuestaSerena'
      BY <1>1, <1>2, <1>3, <2>1 DEF PedidosInv, Tipado, Oficios, Trabajos, Sereno,
             UnaSolaOperacion, EnOperacion, RespuestaSerena, Compacta, EnVuelo, Contestado,
             Espera, Hilos
    <2>7. SegmentosSerenos'
      BY <1>1, <1>2, <1>3, <2>1 DEF PedidosInv, Tipado, Oficios, Trabajos, Programas, Sereno,
             UnaSolaOperacion, EnOperacion, SegmentosSerenos, Hecho, Compacta, EnVuelo,
             Contestado, Espera, Hilos
    <2> QED
      BY <2>2, <2>3, <2>4, <2>5, <2>6, <2>7 DEF Sereno
  <1> QED
    BY <1>11, <1>12, <1>13, <1>14, <1>15, <1>16 DEF PedidosInv

LEMMA PasoLeerMitad ==
    ASSUME PedidosInv, NEW h \in {"ready", "running"}, LeerMitad(h)
    PROVE  PedidosInv'
  <1>1. /\ ~caido /\ pc[h] \in {"leer", "leerTablas"} /\ leida \notin {h, NADIE}
        /\ caido' = TRUE
        /\ estado' = estado /\ tieneSegmento' = tieneSegmento
        /\ tablaSegmentos' = tablaSegmentos /\ global_PCB_list' = global_PCB_list
        /\ mutexMemoria' = mutexMemoria /\ pc' = pc /\ proceso' = proceso
        /\ operacion' = operacion /\ flag' = flag /\ solapados' = solapados
        /\ pedidos' = pedidos /\ respuestas' = respuestas /\ leida' = leida
        /\ diccionario_tablas' = diccionario_tablas /\ compactaciones' = compactaciones
        /\ consolas' = consolas /\ hechos' = hechos
    BY DEF LeerMitad, En, Va, Pasa, Entra, Envia, kernel, hilos, socket, memoria, cuentas
  <1>11. Tipado'
    BY <1>1 DEF PedidosInv, Tipado, Trabajos, Oficios, Estados, Sitios, Operaciones, Hilos
  <1>12. Trabajos'
    BY <1>1 DEF PedidosInv, Tipado, Trabajos, Operaciones, Oficios, Hilos
  <1>13. Turnos'
    BY <1>1 DEF PedidosInv, Tipado, Turnos, NADIE, Hilos
  <1>14. Programas'
    BY <1>1 DEF PedidosInv, Tipado, Trabajos, Programas, Hilos
  <1>15. UnaRespuestaPorPedido'
    BY <1>1 DEF PedidosInv, UnaRespuestaPorPedido, EsperanRespuesta
  <1>16. ASSUME ~solapados' PROVE Sereno'
    <2>1. ~solapados /\ Sereno
      BY <1>1, <1>16 DEF PedidosInv
    <2>2. PICK g \in Hilos : leida = g /\ g # h
      BY <1>1 DEF PedidosInv, Tipado, Hilos
    <2>3. EnOperacion(h) /\ EnOperacion(g) /\ h \in Hilos
      BY <1>1, <2>2 DEF PedidosInv, Turnos, EnOperacion, Hilos
    <2> QED
      BY <2>1, <2>2, <2>3 DEF Sereno, UnaSolaOperacion
  <1> QED
    BY <1>11, <1>12, <1>13, <1>14, <1>15, <1>16 DEF PedidosInv

LEMMA PasoLeerTabla ==
    ASSUME PedidosInv, NEW h \in {"ready", "running"}, LeerTabla(h)
    PROVE  PedidosInv'
  <1>1. /\ ~caido /\ pc[h] = "leerBuffer"
        /\ tablaSegmentos' = [tablaSegmentos EXCEPT ![proceso[h]] = Head(respuestas).tabla]
        /\ respuestas' = Tail(respuestas)
        /\ leida' = NADIE
        /\ mutexMemoria' = NADIE
        /\ pc' = [pc EXCEPT ![h] = (IF h = "ready" THEN "agregar" ELSE "decidir")]
        /\ estado' = estado /\ tieneSegmento' = tieneSegmento
        /\ global_PCB_list' = global_PCB_list /\ proceso' = proceso /\ operacion' = operacion
        /\ flag' = flag /\ solapados' = solapados /\ pedidos' = pedidos
        /\ diccionario_tablas' = diccionario_tablas /\ compactaciones' = compactaciones
        /\ consolas' = consolas /\ hechos' = hechos /\ caido' = caido
    BY DEF LeerTabla, En, Va, Pasa, Entra, Envia, kernel, hilos, socket, memoria, cuentas, Suelta
  <1>2. /\ tablaSegmentos'[proceso[h]] = Head(respuestas).tabla
        /\ \A q \in Procesos \ {proceso[h]} : tablaSegmentos'[q] = tablaSegmentos[q]
        /\ pc'[h] = (IF h = "ready" THEN "agregar" ELSE "decidir")
        /\ \A g \in Hilos \ {h} : pc'[g] = pc[g]
    BY <1>1 DEF PedidosInv, Tipado, Trabajos, Hilos
  <1>3. /\ respuestas \in Seq(Respuestas) /\ respuestas # <<>> /\ leida = h
        /\ Head(respuestas) \in Respuestas /\ respuestas' \in Seq(Respuestas)
    <2>1. respuestas \in Seq(Respuestas) /\ respuestas # <<>> /\ leida = h
      BY <1>1 DEF PedidosInv, Tipado, Turnos, Hilos, NADIE
    <2> QED
      BY <1>1, <2>1, HeadTailProperties
  <1>4. Head(respuestas).tabla \in Tablas
    BY <1>3 DEF Respuestas
  <1>11. Tipado'
    BY <1>1, <1>2, <1>3, <1>4 DEF PedidosInv, Tipado, Trabajos, Oficios, Estados, Sitios,
           Operaciones, Hilos
  <1>12. Trabajos'
    BY <1>1, <1>2, <1>3, <1>4 DEF PedidosInv, Tipado, Trabajos, Operaciones, Oficios, Hilos
  <1>13. Turnos'
    BY <1>1, <1>2, <1>3, <1>4 DEF PedidosInv, Tipado, Turnos, NADIE, Hilos
  <1>14. Programas'
    BY <1>1, <1>2, <1>3, <1>4 DEF PedidosInv, Tipado, Trabajos, Programas, Hilos
  <1>15. UnaRespuestaPorPedido'
    <2>1. Cardinality(Esperan(pc)) = Cardinality(Preguntas(pedidos)) + Len(respuestas)
      BY DEF PedidosInv, UnaRespuestaPorPedido, EsperanRespuesta, Esperan, Preguntas
    <2>2. /\ h \in Hilos /\ h \in Esperan(pc) /\ h \notin Esperan(pc')
          /\ \A g \in Hilos \ {h} : pc'[g] = pc[g]
      BY <1>1, <1>2 DEF Esperan, Hilos
    <2>3. Cardinality(Esperan(pc)) = Cardinality(Esperan(pc')) + 1
      BY <2>2, EsperaUnoMas
    <2>4. Cardinality(Preguntas(pedidos')) = Cardinality(Preguntas(pedidos))
      BY <1>1
    <2>5. Len(respuestas) = Len(respuestas') + 1
      BY <1>1, <1>3, HeadTailProperties, LenProperties, EmptySeq DEF PedidosInv, Tipado
    <2>6. /\ Len(respuestas) \in Nat /\ Len(respuestas') \in Nat
          /\ Cardinality(Preguntas(pedidos)) \in Nat /\ Cardinality(Preguntas(pedidos')) \in Nat
          /\ Cardinality(Esperan(pc)) \in Nat /\ Cardinality(Esperan(pc')) \in Nat
      BY <1>11, LenProperties, EsperanFinito, PreguntasFinito DEF PedidosInv, Tipado
    <2>7. Cardinality(Esperan(pc')) = Cardinality(Preguntas(pedidos')) + Len(respuestas')
      BY <2>1, <2>3, <2>4, <2>5, <2>6
    <2> QED
      BY <2>7, Zenon DEF UnaRespuestaPorPedido, EsperanRespuesta, Esperan, Preguntas
  <1>16. ASSUME ~solapados' PROVE Sereno'
    <2>1. ~solapados /\ Sereno
      BY <1>1, <1>2, <1>3, <1>4, <1>16 DEF PedidosInv
    <2>20. respuestas' = <<>> /\ Contestado(h) /\ EnOperacion(h)
      <3>1. Len(respuestas) <= 1
        BY <2>1 DEF Sereno, SocketOrdenado
      <3>2. /\ Len(respuestas) \in Nat \ {0} /\ Len(respuestas') = Len(respuestas) - 1
            /\ Len(respuestas') \in Nat
        BY <1>1, <1>3, HeadTailProperties, LenProperties, EmptySeq
      <3>3. respuestas' = <<>>
        BY <1>3, <3>1, <3>2, EmptySeq
      <3> QED
        BY <1>1, <1>3, <3>3 DEF Contestado, Espera, EnOperacion
    <2>21. \A g \in Hilos \ {h} : ~EnOperacion(g)
      BY <2>1, <2>20 DEF Sereno, UnaSolaOperacion, Hilos
    <2>22. pedidos = <<>> /\ pedidos' = <<>> /\ Len(pedidos') = 0
      BY <1>1, <2>1, <2>20, EmptySeq DEF Sereno, SocketOrdenado, Hilos
    <2>2. ~caido'
      BY <1>1, <1>2, <1>3, <1>4, <2>1, <2>20, <2>21, <2>22 DEF Sereno
    <2>3. UnaSolaOperacion'
      BY <1>1, <1>2, <1>3, <1>4, <2>1, <2>20, <2>21, <2>22 DEF Sereno, UnaSolaOperacion,
             EnOperacion, Hilos
    <2>4. SocketOrdenado'
      BY <1>1, <1>2, <1>3, <1>4, <2>1, <2>20, <2>21, <2>22 DEF PedidosInv, Tipado, Oficios,
             Sereno, UnaSolaOperacion, EnOperacion, SocketOrdenado, Solicitud, Op, ID, EnVuelo,
             Contestado, Espera, Hilos
    <2>5. TablasSerenas'
      <3>1. \A q \in Procesos : ~HayExit(pedidos, q) /\ ~HayExit(pedidos', q)
        BY <2>22, EmptySeq DEF HayExit
      <3>2. Head(respuestas).tabla = diccionario_tablas[proceso[h]]
        BY <1>1, <2>1, <2>20 DEF Sereno, RespuestaSerena, Compacta
      <3>3. tablaSegmentos'[proceso[h]] = diccionario_tablas[proceso[h]]
        BY <1>1, <1>2, <3>2
      <3>4. ASSUME NEW q \in Procesos
            PROVE  /\ Vivo(q)' <=> Vivo(q)
                   /\ SinTabla(q)' => SinTabla(q)
                   /\ ~Desfasado(q)'
        BY <1>1, <1>2, <1>3, <2>20, <2>21
           DEF Vivo, SinTabla, Desfasado, EnVuelo, Contestado, Espera, EnOperacion, Hilos
      <3>5. ASSUME NEW q \in Procesos, Vivo(q)
            PROVE  /\ q \in global_PCB_list' /\ Tiene(diccionario_tablas'[q], 0)
                   /\ tablaSegmentos'[q] = diccionario_tablas'[q]
        <4>1. /\ q \in global_PCB_list /\ Tiene(diccionario_tablas[q], 0)
              /\ Desfasado(q) \/ tablaSegmentos[q] = diccionario_tablas[q]
          BY <2>1, <3>5 DEF Sereno, TablasSerenas
        <4>2. Desfasado(q) => q = proceso[h]
          BY <1>1, <2>20, <2>21 DEF Desfasado, Contestado, Espera, EnOperacion, Compacta, Hilos
        <4> QED
          BY <1>1, <1>2, <3>3, <4>1, <4>2
      <3>6. pc'["ready"] = "agregar" =>
               /\ Tiene(diccionario_tablas'[proceso'["ready"]], 0)
               /\ tablaSegmentos'[proceso'["ready"]] = diccionario_tablas'[proceso'["ready"]]
        <4> SUFFICES ASSUME pc'["ready"] = "agregar"
                     PROVE  /\ Tiene(diccionario_tablas[proceso["ready"]], 0)
                            /\ tablaSegmentos'[proceso["ready"]] =
                                   diccionario_tablas[proceso["ready"]]
          BY <1>1
        <4>1. h = "ready"
          BY <1>2, <2>20, <2>21 DEF EnOperacion, Hilos
        <4> QED
          BY <2>1, <2>20, <3>3, <4>1 DEF Sereno, RespuestaSerena
      <3>7. pc'["exit"] # "avisar" \/ proceso'["exit"] \in Procesos
        BY <1>11, <1>12 DEF Trabajos, Hilos
      <3>8. pc'["ready"] # "agregar" \/ proceso'["ready"] \in Procesos
        BY <1>11, <1>12 DEF Trabajos, Hilos
      <3>9. \A q \in Procesos : SinTabla(q) => diccionario_tablas'[q] = <<>>
        BY <1>1, <2>1, <3>1 DEF Sereno, TablasSerenas, Pendiente
      <3> QED
        BY <3>1, <3>4, <3>5, <3>6, <3>7, <3>8, <3>9 DEF TablasSerenas, Pendiente
    <2>6. RespuestaSerena'
      BY <1>1, <1>2, <1>3, <1>4, <2>1, <2>20, <2>21, <2>22 DEF PedidosInv, Tipado, Oficios,
             Trabajos, Sereno, UnaSolaOperacion, EnOperacion, RespuestaSerena, Compacta, EnVuelo,
             Contestado, Espera, Hilos
    <2>7. SegmentosSerenos'
      <3>1. ~Contestado("running")'
        BY <2>20 DEF Contestado
      <3>2. Hecho => Hecho'
        BY <1>2, <2>20, <2>21 DEF Hecho, Contestado, Espera, EnOperacion, Hilos
      <3>3. \A q \in Procesos : estado'[q] \in {"ready", "exec"} /\ tieneSegmento'[q] =>
               \/ Tiene(diccionario_tablas'[q], 1)
               \/ pc'["running"] # "libre" /\ q = proceso'["running"] /\ Hecho'
        BY <1>1, <1>2, <2>1, <3>2 DEF Sereno, SegmentosSerenos
      <3>4. operacion = "CREATE_SEGMENT" /\ pc'["running"] = "decidir" /\ flag = 0 =>
               Tiene(diccionario_tablas[proceso["running"]], 1)
        <4> SUFFICES ASSUME operacion = "CREATE_SEGMENT", pc'["running"] = "decidir", flag = 0
                     PROVE  Tiene(diccionario_tablas[proceso["running"]], 1)
          OBVIOUS
        <4>1. h = "running"
          BY <1>2, <2>20, <2>21 DEF EnOperacion, Hilos
        <4>2. Head(respuestas).flag = 0 /\ Contestado("running") /\ ~Compacta
          BY <1>1, <1>3, <2>20, <4>1 DEF PedidosInv, Turnos, Compacta
        <4> QED
          BY <2>1, <4>2 DEF Sereno, SegmentosSerenos
      <3> QED
        BY <1>1, <3>1, <3>3, <3>4 DEF SegmentosSerenos
    <2> QED
      BY <2>2, <2>3, <2>4, <2>5, <2>6, <2>7 DEF Sereno
  <1> QED
    BY <1>11, <1>12, <1>13, <1>14, <1>15, <1>16 DEF PedidosInv

LEMMA PasoAgregar ==
    ASSUME PedidosInv, Agregar
    PROVE  PedidosInv'
  <1>1. /\ ~caido /\ pc["ready"] = "agregar"
        /\ estado' = [estado EXCEPT ![proceso["ready"]] = "ready"]
        /\ global_PCB_list' = global_PCB_list \cup {proceso["ready"]}
        /\ pc' = [pc EXCEPT !["ready"] = "libre"]
        /\ tieneSegmento' = tieneSegmento /\ tablaSegmentos' = tablaSegmentos
        /\ mutexMemoria' = mutexMemoria /\ proceso' = proceso /\ operacion' = operacion
        /\ flag' = flag /\ solapados' = solapados /\ pedidos' = pedidos
        /\ respuestas' = respuestas /\ leida' = leida
        /\ diccionario_tablas' = diccionario_tablas /\ compactaciones' = compactaciones
        /\ consolas' = consolas /\ hechos' = hechos /\ caido' = caido
    BY DEF Agregar, En, Va, Pasa, Entra, Envia, kernel, hilos, socket, memoria, cuentas
  <1>2. /\ estado'[proceso["ready"]] = "ready"
        /\ \A q \in Procesos \ {proceso["ready"]} : estado'[q] = estado[q]
        /\ pc'["ready"] = "libre"
        /\ \A g \in Hilos \ {"ready"} : pc'[g] = pc[g]
    BY <1>1 DEF PedidosInv, Tipado, Trabajos, Hilos
  <1>11. Tipado'
    BY <1>1, <1>2 DEF PedidosInv, Tipado, Trabajos, Oficios, Estados, Sitios, Operaciones, Hilos
  <1>12. Trabajos'
    BY <1>1, <1>2 DEF PedidosInv, Tipado, Trabajos, Operaciones, Oficios, Hilos
  <1>13. Turnos'
    BY <1>1, <1>2 DEF PedidosInv, Tipado, Turnos, NADIE, Hilos
  <1>14. Programas'
    BY <1>1, <1>2 DEF PedidosInv, Tipado, Trabajos, Programas, Hilos
  <1>15. UnaRespuestaPorPedido'
    <2>1. Cardinality(Esperan(pc)) = Cardinality(Preguntas(pedidos)) + Len(respuestas)
      BY DEF PedidosInv, UnaRespuestaPorPedido, EsperanRespuesta, Esperan, Preguntas
    <2>2. /\ "ready" \in Hilos /\ ("ready" \in Esperan(pc) <=> "ready" \in Esperan(pc'))
          /\ \A g \in Hilos \ {"ready"} : pc'[g] = pc[g]
      BY <1>1, <1>2 DEF Esperan, Hilos
    <2>3. Cardinality(Esperan(pc')) = Cardinality(Esperan(pc))
      BY <2>2, EsperaIgual
    <2>4. Cardinality(Preguntas(pedidos')) = Cardinality(Preguntas(pedidos))
      BY <1>1
    <2>5. Len(respuestas') = Len(respuestas)
      BY <1>1
    <2>6. /\ Len(respuestas) \in Nat /\ Len(respuestas') \in Nat
          /\ Cardinality(Preguntas(pedidos)) \in Nat /\ Cardinality(Preguntas(pedidos')) \in Nat
          /\ Cardinality(Esperan(pc)) \in Nat /\ Cardinality(Esperan(pc')) \in Nat
      BY <1>11, LenProperties, EsperanFinito, PreguntasFinito DEF PedidosInv, Tipado
    <2>7. Cardinality(Esperan(pc')) = Cardinality(Preguntas(pedidos')) + Len(respuestas')
      BY <2>1, <2>3, <2>4, <2>5, <2>6
    <2> QED
      BY <2>7, Zenon DEF UnaRespuestaPorPedido, EsperanRespuesta, Esperan, Preguntas
  <1>16. ASSUME ~solapados' PROVE Sereno'
    <2>1. ~solapados /\ Sereno
      BY <1>1, <1>2, <1>16 DEF PedidosInv
    <2>2. ~caido'
      BY <1>1, <1>2, <2>1 DEF Sereno
    <2>3. UnaSolaOperacion'
      BY <1>1, <1>2, <2>1 DEF Sereno, UnaSolaOperacion, EnOperacion, Hilos
    <2>4. SocketOrdenado'
      BY <1>1, <1>2, <2>1 DEF PedidosInv, Tipado, Oficios, Sereno, UnaSolaOperacion, EnOperacion,
             SocketOrdenado, Solicitud, Op, ID, EnVuelo, Contestado, Espera, Hilos
    <2>5. TablasSerenas'
      BY <1>1, <1>2, <2>1 DEF PedidosInv, Tipado, Oficios, Trabajos, Sereno, UnaSolaOperacion,
             EnOperacion, TablasSerenas, Vivo, Pendiente, HayExit, SinTabla, Compacta, Desfasado,
             EnVuelo, Contestado, Espera, Hilos
    <2>6. RespuestaSerena'
      BY <1>1, <1>2, <2>1 DEF PedidosInv, Tipado, Oficios, Trabajos, Sereno, UnaSolaOperacion,
             EnOperacion, RespuestaSerena, Compacta, EnVuelo, Contestado, Espera, Hilos
    <2>7. SegmentosSerenos'
      BY <1>1, <1>2, <2>1 DEF PedidosInv, Tipado, Oficios, Trabajos, Programas, Sereno,
             UnaSolaOperacion, EnOperacion, SegmentosSerenos, Hecho, Compacta, EnVuelo,
             Contestado, Espera, Hilos
    <2> QED
      BY <2>2, <2>3, <2>4, <2>5, <2>6, <2>7 DEF Sereno
  <1> QED
    BY <1>11, <1>12, <1>13, <1>14, <1>15, <1>16 DEF PedidosInv

LEMMA PasoDecidir ==
    ASSUME PedidosInv, Decidir
    PROVE  PedidosInv'
  <1>1. /\ ~caido /\ pc["running"] = "decidir"
        /\ \/ /\ operacion = "DELETE_SEGMENT" \/ flag = 0
              /\ estado' = [estado EXCEPT ![proceso["running"]] = "ready"]
              /\ tieneSegmento' = [tieneSegmento EXCEPT
                                     ![proceso["running"]] = (operacion = "CREATE_SEGMENT")]
              /\ pc' = [pc EXCEPT !["running"] = "libre"]
           \/ /\ operacion # "DELETE_SEGMENT" /\ flag = -1
              /\ estado' = [estado EXCEPT ![proceso["running"]] = "exit"]
              /\ pc' = [pc EXCEPT !["running"] = "libre"]
              /\ tieneSegmento' = tieneSegmento
           \/ /\ operacion # "DELETE_SEGMENT" /\ flag = 1
              /\ pc' = [pc EXCEPT !["running"] = "compactar"]
              /\ estado' = estado /\ tieneSegmento' = tieneSegmento
        /\ tablaSegmentos' = tablaSegmentos /\ global_PCB_list' = global_PCB_list
        /\ mutexMemoria' = mutexMemoria /\ proceso' = proceso /\ operacion' = operacion
        /\ flag' = flag /\ solapados' = solapados /\ pedidos' = pedidos
        /\ respuestas' = respuestas /\ leida' = leida
        /\ diccionario_tablas' = diccionario_tablas /\ compactaciones' = compactaciones
        /\ consolas' = consolas /\ hechos' = hechos /\ caido' = caido
    BY DEF Decidir, En, Va, Pasa, Entra, Envia, kernel, hilos, socket, memoria, cuentas, Sigue
  <1>2. /\ pc'["running"] \in {"libre", "compactar"}
        /\ pc' \in [Hilos -> Sitios] /\ estado' \in [Procesos -> Estados]
        /\ tieneSegmento' \in [Procesos -> BOOLEAN]
        /\ \A g \in Hilos \ {"running"} : pc'[g] = pc[g]
        /\ \A q \in Procesos : Vivo(q)' <=> Vivo(q)
        /\ \A q \in Procesos \ {proceso["running"]} :
              estado'[q] = estado[q] /\ tieneSegmento'[q] = tieneSegmento[q]
        /\ estado'[proceso["running"]] \in {"ready", "exec", "exit"}
        /\ pc'["running"] = "compactar" => /\ estado' = estado /\ tieneSegmento' = tieneSegmento
                                         /\ operacion = "CREATE_SEGMENT"
        /\ estado'[proceso["running"]] = "ready" /\ tieneSegmento'[proceso["running"]] =>
              operacion = "CREATE_SEGMENT" /\ flag = 0
        /\ estado'[proceso["running"]] = "exec" => pc'["running"] = "compactar"
    <2>1. proceso["running"] \in Procesos /\ estado[proceso["running"]] = "exec"
          /\ operacion \in Operaciones /\ estado \in [Procesos -> Estados]
          /\ tieneSegmento \in [Procesos -> BOOLEAN] /\ pc \in [Hilos -> Sitios]
          /\ "running" \in Hilos
      BY <1>1 DEF PedidosInv, Tipado, Trabajos, Hilos
    <2>2. CASE estado' = estado
      BY <1>1, <2>1, <2>2 DEF Estados, Sitios, Vivo, Operaciones
    <2>3. CASE estado' = [estado EXCEPT ![proceso["running"]] = "ready"]
      BY <1>1, <2>1, <2>3 DEF Estados, Sitios, Vivo, Operaciones
    <2>4. CASE estado' = [estado EXCEPT ![proceso["running"]] = "exit"]
      BY <1>1, <2>1, <2>4 DEF Estados, Sitios, Vivo, Operaciones
    <2> QED
      BY <1>1, <2>2, <2>3, <2>4
  <1>11. Tipado'
    BY <1>1, <1>2 DEF PedidosInv, Tipado, Trabajos, Oficios, Estados, Sitios, Operaciones, Hilos
  <1>12. Trabajos'
    BY <1>1, <1>2 DEF PedidosInv, Tipado, Trabajos, Operaciones, Oficios, Hilos
  <1>13. Turnos'
    BY <1>1, <1>2 DEF PedidosInv, Tipado, Turnos, NADIE, Hilos
  <1>14. Programas'
    BY <1>1, <1>2 DEF PedidosInv, Tipado, Trabajos, Programas, Hilos
  <1>15. UnaRespuestaPorPedido'
    <2>1. Cardinality(Esperan(pc)) = Cardinality(Preguntas(pedidos)) + Len(respuestas)
      BY DEF PedidosInv, UnaRespuestaPorPedido, EsperanRespuesta, Esperan, Preguntas
    <2>2. /\ "running" \in Hilos /\ ("running" \in Esperan(pc) <=> "running" \in Esperan(pc'))
          /\ \A g \in Hilos \ {"running"} : pc'[g] = pc[g]
      BY <1>1, <1>2 DEF Esperan, Hilos
    <2>3. Cardinality(Esperan(pc')) = Cardinality(Esperan(pc))
      BY <2>2, EsperaIgual
    <2>4. Cardinality(Preguntas(pedidos')) = Cardinality(Preguntas(pedidos))
      BY <1>1
    <2>5. Len(respuestas') = Len(respuestas)
      BY <1>1
    <2>6. /\ Len(respuestas) \in Nat /\ Len(respuestas') \in Nat
          /\ Cardinality(Preguntas(pedidos)) \in Nat /\ Cardinality(Preguntas(pedidos')) \in Nat
          /\ Cardinality(Esperan(pc)) \in Nat /\ Cardinality(Esperan(pc')) \in Nat
      BY <1>11, LenProperties, EsperanFinito, PreguntasFinito DEF PedidosInv, Tipado
    <2>7. Cardinality(Esperan(pc')) = Cardinality(Preguntas(pedidos')) + Len(respuestas')
      BY <2>1, <2>3, <2>4, <2>5, <2>6
    <2> QED
      BY <2>7, Zenon DEF UnaRespuestaPorPedido, EsperanRespuesta, Esperan, Preguntas
  <1>16. ASSUME ~solapados' PROVE Sereno'
    <2>1. ~solapados /\ Sereno
      BY <1>1, <1>2, <1>16 DEF PedidosInv
    <2>20. EnOperacion("running") /\ ~Espera("running") /\ "running" \in Hilos
      BY <1>1 DEF EnOperacion, Espera, Hilos
    <2>21. /\ respuestas = <<>> /\ \A g \in Hilos : ~EnVuelo(g) /\ ~Contestado(g)
           /\ \A i \in 1 .. Len(pedidos) : pedidos[i].op = "EXIT"
           /\ \A g \in Hilos \ {"running"} : ~EnOperacion(g)
      BY <2>1, <2>20, SocketLibre
    <2>2. ~caido'
      BY <1>1, <1>2, <2>1, <2>20, <2>21 DEF Sereno
    <2>3. UnaSolaOperacion'
      BY <1>1, <1>2, <2>1, <2>20, <2>21 DEF Sereno, UnaSolaOperacion, EnOperacion, Hilos
    <2>4. SocketOrdenado'
      BY <1>1, <1>2, <2>1, <2>20, <2>21 DEF PedidosInv, Tipado, Oficios, Sereno,
             UnaSolaOperacion, EnOperacion, SocketOrdenado, Solicitud, Op, ID, EnVuelo,
             Contestado, Espera, Hilos
    <2>5. TablasSerenas'
      <3>1. ASSUME NEW q \in Procesos
            PROVE  /\ SinTabla(q)' => SinTabla(q)
                   /\ Desfasado(q)' <=> Desfasado(q)
        BY <1>1, <1>2, <2>20, <2>21
           DEF SinTabla, Desfasado, Compacta, EnVuelo, Contestado, Espera, EnOperacion, Hilos
      <3>2. pc'["exit"] = pc["exit"] /\ pc'["ready"] = pc["ready"]
        BY <1>2 DEF Hilos
      <3> QED
        BY <1>1, <1>2, <2>1, <3>1, <3>2
           DEF PedidosInv, Tipado, Trabajos, Sereno, TablasSerenas, Pendiente
    <2>6. RespuestaSerena'
      BY <1>1, <1>2, <2>1, <2>20, <2>21 DEF PedidosInv, Tipado, Oficios, Trabajos, Sereno,
             UnaSolaOperacion, EnOperacion, RespuestaSerena, Compacta, EnVuelo, Contestado,
             Espera, Hilos
    <2>7. SegmentosSerenos'
      <3>1. ~Contestado("running")'
        BY <1>1, <2>21 DEF Contestado
      <3>2. ASSUME NEW q \in Procesos, estado'[q] \in {"ready", "exec"}, tieneSegmento'[q]
            PROVE  Tiene(diccionario_tablas[q], 1)
        <4>1. CASE q = proceso["running"]
          <5>1. CASE estado'[q] = "exec"
            <6>1. pc'["running"] = "compactar" /\ operacion = "CREATE_SEGMENT"
                  /\ tieneSegmento[q]
              BY <1>2, <3>2, <4>1, <5>1
            <6>2. tieneSegmento[q] <=> operacion = "DELETE_SEGMENT"
              BY <1>1, <4>1 DEF PedidosInv, Programas
            <6> QED
              BY <6>1, <6>2
          <5>2. CASE estado'[q] = "ready"
            <6>1. operacion = "CREATE_SEGMENT" /\ flag = 0
              BY <1>2, <3>2, <4>1, <5>2
            <6> QED
              BY <1>1, <2>1, <4>1, <6>1 DEF Sereno, SegmentosSerenos
          <5> QED
            BY <3>2, <5>1, <5>2
        <4>2. CASE q # proceso["running"]
          <5>1. estado[q] \in {"ready", "exec"} /\ tieneSegmento[q]
            BY <1>2, <3>2, <4>2
          <5> QED
            BY <2>1, <4>2, <5>1 DEF Sereno, SegmentosSerenos
        <4> QED
          BY <4>1, <4>2
      <3>3. pc'["running"] # "decidir"
        BY <1>2
      <3> QED
        BY <1>1, <3>1, <3>2, <3>3 DEF SegmentosSerenos
    <2> QED
      BY <2>2, <2>3, <2>4, <2>5, <2>6, <2>7 DEF Sereno
  <1> QED
    BY <1>11, <1>12, <1>13, <1>14, <1>15, <1>16 DEF PedidosInv

LEMMA PasoPedirCompactacion ==
    ASSUME PedidosInv, PedirCompactacion
    PROVE  PedidosInv'
  <1>1. /\ ~caido /\ pc["running"] = "compactar"
        /\ pedidos' = Append(pedidos, PideCompactar)
        /\ pc' = [pc EXCEPT !["running"] = "leerTablas"]
        /\ estado' = estado /\ tieneSegmento' = tieneSegmento
        /\ tablaSegmentos' = tablaSegmentos /\ global_PCB_list' = global_PCB_list
        /\ mutexMemoria' = mutexMemoria /\ proceso' = proceso /\ operacion' = operacion
        /\ flag' = flag /\ solapados' = solapados /\ respuestas' = respuestas /\ leida' = leida
        /\ diccionario_tablas' = diccionario_tablas /\ compactaciones' = compactaciones
        /\ consolas' = consolas /\ hechos' = hechos /\ caido' = caido
    BY DEF PedirCompactacion, En, Va, Pasa, Entra, Envia, kernel, hilos, socket, memoria,
           cuentas, PideCompactar
  <1>2. /\ pc'["running"] = "leerTablas"
        /\ \A g \in Hilos \ {"running"} : pc'[g] = pc[g]
    BY <1>1 DEF PedidosInv, Tipado, Trabajos, Hilos
  <1>3. PICK m \in Pedidos : /\ m = PideCompactar /\ pedidos' = Append(pedidos, m)
                              /\ m.op # "EXIT"
    <2>1. PideCompactar \in Pedidos /\ PideCompactar.op # "EXIT"
      BY DEF Pedidos, PideCompactar
    <2> QED
      BY <1>1, <2>1
  <1>11. Tipado'
    BY <1>1, <1>2, <1>3, AppendProperties DEF PedidosInv, Tipado, Trabajos, Oficios, Estados,
           Sitios, Operaciones, Hilos
  <1>12. Trabajos'
    BY <1>1, <1>2, <1>3 DEF PedidosInv, Tipado, Trabajos, Operaciones, Oficios, Hilos
  <1>13. Turnos'
    BY <1>1, <1>2, <1>3 DEF PedidosInv, Tipado, Turnos, NADIE, Hilos
  <1>14. Programas'
    BY <1>1, <1>2, <1>3 DEF PedidosInv, Tipado, Trabajos, Programas, Hilos
  <1>15. UnaRespuestaPorPedido'
    <2>1. Cardinality(Esperan(pc)) = Cardinality(Preguntas(pedidos)) + Len(respuestas)
      BY DEF PedidosInv, UnaRespuestaPorPedido, EsperanRespuesta, Esperan, Preguntas
    <2>2. /\ "running" \in Hilos /\ "running" \in Esperan(pc') /\ "running" \notin Esperan(pc)
          /\ \A g \in Hilos \ {"running"} : pc'[g] = pc[g]
      BY <1>1, <1>2 DEF Esperan, Hilos
    <2>3. Cardinality(Esperan(pc')) = Cardinality(Esperan(pc)) + 1
      BY <2>2, EsperaUnoMas
    <2>4. Cardinality(Preguntas(pedidos')) = Cardinality(Preguntas(pedidos)) + 1
      BY <1>1, <1>3, PreguntaUnaMas DEF PedidosInv, Tipado
    <2>5. Len(respuestas') = Len(respuestas)
      BY <1>1
    <2>6. /\ Len(respuestas) \in Nat /\ Len(respuestas') \in Nat
          /\ Cardinality(Preguntas(pedidos)) \in Nat /\ Cardinality(Preguntas(pedidos')) \in Nat
          /\ Cardinality(Esperan(pc)) \in Nat /\ Cardinality(Esperan(pc')) \in Nat
      BY <1>11, LenProperties, EsperanFinito, PreguntasFinito DEF PedidosInv, Tipado
    <2>7. Cardinality(Esperan(pc')) = Cardinality(Preguntas(pedidos')) + Len(respuestas')
      BY <2>1, <2>3, <2>4, <2>5, <2>6
    <2> QED
      BY <2>7, Zenon DEF UnaRespuestaPorPedido, EsperanRespuesta, Esperan, Preguntas
  <1>16. ASSUME ~solapados' PROVE Sereno'
    <2>1. ~solapados /\ Sereno
      BY <1>1, <1>2, <1>3, <1>16 DEF PedidosInv
    <2>20. EnOperacion("running") /\ ~Espera("running") /\ "running" \in Hilos
      BY <1>1 DEF EnOperacion, Espera, Hilos
    <2>21. /\ respuestas = <<>> /\ \A g \in Hilos : ~EnVuelo(g) /\ ~Contestado(g)
           /\ \A i \in 1 .. Len(pedidos) : pedidos[i].op = "EXIT"
           /\ \A g \in Hilos \ {"running"} : ~EnOperacion(g)
      BY <2>1, <2>20, SocketLibre
    <2>22. /\ Len(pedidos') = Len(pedidos) + 1 /\ Len(pedidos) \in Nat /\ pedidos' # <<>>
           /\ pedidos'[Len(pedidos')] = m
           /\ \A i \in 1 .. Len(pedidos) : pedidos'[i] = pedidos[i]
           /\ \A q \in Procesos : HayExit(pedidos', q) <=> HayExit(pedidos, q)
      <3>1. pedidos \in Seq(Pedidos)
        BY DEF PedidosInv, Tipado
      <3>2. PICK larga : larga = pedidos'
        OBVIOUS
      <3>4. larga = Append(pedidos, m) /\ m.op # "EXIT" /\ m \in Pedidos
        BY <1>3, <3>2
      <3>3. /\ Len(larga) = Len(pedidos) + 1 /\ Len(pedidos) \in Nat /\ larga # <<>>
            /\ larga[Len(larga)] = m
            /\ \A i \in 1 .. Len(pedidos) : larga[i] = pedidos[i]
        BY <3>1, <3>4, UnMensajeMas
      <3>5. ASSUME NEW q \in Procesos, HayExit(pedidos, q) PROVE HayExit(larga, q)
        BY <3>1, <3>4, <3>5, UnMensajeMas
      <3>6. ASSUME NEW q \in Procesos, HayExit(larga, q) PROVE HayExit(pedidos, q)
        BY <3>1, <3>4, <3>6, UnMensajeMas
      <3> QED
        BY <3>2, <3>3, <3>5, <3>6
    <2>2. ~caido'
      BY <1>1, <1>2, <1>3, <2>1, <2>20, <2>21, <2>22 DEF Sereno
    <2>3. UnaSolaOperacion'
      BY <1>1, <1>2, <1>3, <2>1, <2>20, <2>21, <2>22 DEF Sereno, UnaSolaOperacion, EnOperacion,
             Hilos
    <2>4. SocketOrdenado'
      BY <1>1, <1>2, <1>3, <2>1, <2>20, <2>21, <2>22 DEF PedidosInv, Tipado, Oficios, Sereno,
             UnaSolaOperacion, EnOperacion, SocketOrdenado, Solicitud, Op, ID, EnVuelo,
             Contestado, Espera, Hilos
    <2>5. TablasSerenas'
      BY <1>1, <1>2, <1>3, <2>1, <2>20, <2>21, <2>22 DEF PedidosInv, Tipado, Oficios, Trabajos,
             Sereno, UnaSolaOperacion, EnOperacion, TablasSerenas, Vivo, Pendiente, HayExit,
             SinTabla, Compacta, Desfasado, EnVuelo, Contestado, Espera, Hilos
    <2>6. RespuestaSerena'
      BY <1>1, <1>2, <1>3, <2>1, <2>20, <2>21, <2>22 DEF PedidosInv, Tipado, Oficios, Trabajos,
             Sereno, UnaSolaOperacion, EnOperacion, RespuestaSerena, Compacta, EnVuelo,
             Contestado, Espera, Hilos
    <2>7. SegmentosSerenos'
      BY <1>1, <1>2, <1>3, <2>1, <2>20, <2>21, <2>22 DEF PedidosInv, Tipado, Oficios, Trabajos,
             Programas, Sereno, UnaSolaOperacion, EnOperacion, SegmentosSerenos, Hecho, Compacta,
             EnVuelo, Contestado, Espera, Hilos
    <2> QED
      BY <2>2, <2>3, <2>4, <2>5, <2>6, <2>7 DEF Sereno
  <1> QED
    BY <1>11, <1>12, <1>13, <1>14, <1>15, <1>16 DEF PedidosInv

LEMMA PasoLeerTablas ==
    ASSUME PedidosInv, LeerTablas
    PROVE  PedidosInv'
  <1>1. /\ ~caido /\ pc["running"] = "leerBufferTablas" /\ flag = PAQUETE
        /\ tablaSegmentos' = Actualizadas(Head(respuestas).tablas)
        /\ respuestas' = Tail(respuestas)
        /\ leida' = NADIE
        /\ pc' = [pc EXCEPT !["running"] = "pedir"]
        /\ estado' = estado /\ tieneSegmento' = tieneSegmento
        /\ global_PCB_list' = global_PCB_list /\ mutexMemoria' = mutexMemoria
        /\ proceso' = proceso /\ operacion' = operacion /\ flag' = flag
        /\ solapados' = solapados /\ pedidos' = pedidos
        /\ diccionario_tablas' = diccionario_tablas /\ compactaciones' = compactaciones
        /\ consolas' = consolas /\ hechos' = hechos /\ caido' = caido
    BY DEF LeerTablas, En, Va, Pasa, Entra, Envia, kernel, hilos, socket, memoria, cuentas
  <1>2. /\ pc'["running"] = "pedir"
        /\ \A g \in Hilos \ {"running"} : pc'[g] = pc[g]
    BY <1>1 DEF PedidosInv, Tipado, Trabajos, Hilos
  <1>3. /\ respuestas \in Seq(Respuestas) /\ respuestas # <<>> /\ leida = "running"
        /\ Head(respuestas) \in Respuestas /\ respuestas' \in Seq(Respuestas)
    <2>1. respuestas \in Seq(Respuestas) /\ respuestas # <<>> /\ leida = "running"
      BY <1>1 DEF PedidosInv, Tipado, Turnos, Hilos, NADIE
    <2> QED
      BY <1>1, <2>1, HeadTailProperties
  <1>4. Head(respuestas).tablas \in [Procesos -> Tablas]
    <2>1. Head(respuestas).flag = PAQUETE
      BY <1>1, <1>3 DEF PedidosInv, Turnos
    <2> QED
      BY <1>3, <2>1 DEF Respuestas
  <1>5. tablaSegmentos' \in [Procesos -> Tablas]
    BY <1>1, <1>4 DEF Actualizadas, PedidosInv, Tipado
  <1>11. Tipado'
    BY <1>1, <1>2, <1>3, <1>4, <1>5 DEF PedidosInv, Tipado, Trabajos, Oficios, Estados, Sitios,
           Operaciones, Hilos
  <1>12. Trabajos'
    BY <1>1, <1>2, <1>3, <1>4, <1>5 DEF PedidosInv, Tipado, Trabajos, Operaciones, Oficios, Hilos
  <1>13. Turnos'
    BY <1>1, <1>2, <1>3, <1>4, <1>5 DEF PedidosInv, Tipado, Turnos, NADIE, Hilos
  <1>14. Programas'
    BY <1>1, <1>2, <1>3, <1>4, <1>5 DEF PedidosInv, Tipado, Trabajos, Programas, Hilos
  <1>15. UnaRespuestaPorPedido'
    <2>1. Cardinality(Esperan(pc)) = Cardinality(Preguntas(pedidos)) + Len(respuestas)
      BY DEF PedidosInv, UnaRespuestaPorPedido, EsperanRespuesta, Esperan, Preguntas
    <2>2. /\ "running" \in Hilos /\ "running" \in Esperan(pc) /\ "running" \notin Esperan(pc')
          /\ \A g \in Hilos \ {"running"} : pc'[g] = pc[g]
      BY <1>1, <1>2 DEF Esperan, Hilos
    <2>3. Cardinality(Esperan(pc)) = Cardinality(Esperan(pc')) + 1
      BY <2>2, EsperaUnoMas
    <2>4. Cardinality(Preguntas(pedidos')) = Cardinality(Preguntas(pedidos))
      BY <1>1
    <2>5. Len(respuestas) = Len(respuestas') + 1
      BY <1>1, <1>3, HeadTailProperties, LenProperties, EmptySeq DEF PedidosInv, Tipado
    <2>6. /\ Len(respuestas) \in Nat /\ Len(respuestas') \in Nat
          /\ Cardinality(Preguntas(pedidos)) \in Nat /\ Cardinality(Preguntas(pedidos')) \in Nat
          /\ Cardinality(Esperan(pc)) \in Nat /\ Cardinality(Esperan(pc')) \in Nat
      BY <1>11, LenProperties, EsperanFinito, PreguntasFinito DEF PedidosInv, Tipado
    <2>7. Cardinality(Esperan(pc')) = Cardinality(Preguntas(pedidos')) + Len(respuestas')
      BY <2>1, <2>3, <2>4, <2>5, <2>6
    <2> QED
      BY <2>7, Zenon DEF UnaRespuestaPorPedido, EsperanRespuesta, Esperan, Preguntas
  <1>16. ASSUME ~solapados' PROVE Sereno'
    <2>1. ~solapados /\ Sereno
      BY <1>1, <1>2, <1>3, <1>4, <1>5, <1>16 DEF PedidosInv
    <2>20. respuestas' = <<>> /\ Contestado("running") /\ EnOperacion("running")
      <3>1. Len(respuestas) <= 1
        BY <2>1 DEF Sereno, SocketOrdenado
      <3>2. /\ Len(respuestas) \in Nat \ {0} /\ Len(respuestas') = Len(respuestas) - 1
            /\ Len(respuestas') \in Nat
        BY <1>1, <1>3, HeadTailProperties, LenProperties, EmptySeq
      <3>3. respuestas' = <<>>
        BY <1>3, <3>1, <3>2, EmptySeq
      <3> QED
        BY <1>1, <1>3, <3>3 DEF Contestado, Espera, EnOperacion
    <2>21. \A g \in Hilos \ {"running"} : ~EnOperacion(g)
      BY <2>1, <2>20 DEF Sereno, UnaSolaOperacion, Hilos
    <2>22. pedidos = <<>> /\ pedidos' = <<>> /\ Len(pedidos') = 0
      BY <1>1, <2>1, <2>20, EmptySeq DEF Sereno, SocketOrdenado, Hilos
    <2>2. ~caido'
      BY <1>1, <1>2, <1>3, <1>4, <1>5, <2>1, <2>20, <2>21, <2>22
         DEF Sereno
    <2>3. UnaSolaOperacion'
      BY <1>1, <1>2, <1>3, <1>4, <1>5, <2>1, <2>20, <2>21, <2>22
         DEF Sereno, UnaSolaOperacion, EnOperacion, Hilos
    <2>4. SocketOrdenado'
      BY <1>1, <1>2, <1>3, <1>4, <1>5, <2>1, <2>20, <2>21, <2>22
         DEF PedidosInv, Tipado, Oficios, Sereno, UnaSolaOperacion, EnOperacion, SocketOrdenado,
             Solicitud, Op, ID, EnVuelo, Contestado, Espera, Hilos
    <2>5. TablasSerenas'
      <3>1. \A q \in Procesos : ~HayExit(pedidos, q) /\ ~HayExit(pedidos', q)
        BY <2>22, EmptySeq DEF HayExit
      <3>2. Head(respuestas).tablas = diccionario_tablas
        BY <1>1, <2>1, <2>20 DEF Sereno, RespuestaSerena, Compacta
      <3>3. ASSUME NEW q \in Procesos
            PROVE  /\ Vivo(q)' <=> Vivo(q)
                   /\ SinTabla(q)' => SinTabla(q)
                   /\ ~Desfasado(q)'
        BY <1>1, <1>2, <1>3, <2>20, <2>21
           DEF Vivo, SinTabla, Desfasado, EnVuelo, Contestado, Espera, EnOperacion, Hilos
      <3>4. ASSUME NEW q \in Procesos, Vivo(q)
            PROVE  /\ q \in global_PCB_list' /\ Tiene(diccionario_tablas'[q], 0)
                   /\ tablaSegmentos'[q] = diccionario_tablas'[q]
        <4>1. q \in global_PCB_list /\ Tiene(diccionario_tablas[q], 0)
          BY <2>1, <3>4 DEF Sereno, TablasSerenas
        <4>2. diccionario_tablas[q] # <<>>
          BY <4>1, EmptySeq DEF Tiene
        <4>3. tablaSegmentos'[q] = IF diccionario_tablas[q] = <<>> THEN tablaSegmentos[q]
                                   ELSE diccionario_tablas[q]
          BY <1>1, <3>2 DEF Actualizadas
        <4> QED
          BY <1>1, <4>1, <4>2, <4>3
      <3>5. pc'["ready"] # "agregar" /\ pc'["exit"] # "avisar"
        BY <1>2, <2>21 DEF EnOperacion, Hilos
      <3>6. \A q \in Procesos : SinTabla(q) => diccionario_tablas'[q] = <<>>
        BY <1>1, <2>1, <3>1 DEF Sereno, TablasSerenas, Pendiente
      <3> QED
        BY <3>1, <3>3, <3>4, <3>5, <3>6 DEF TablasSerenas, Pendiente
    <2>6. RespuestaSerena'
      BY <1>1, <1>2, <1>3, <1>4, <1>5, <2>1, <2>20, <2>21, <2>22
         DEF PedidosInv, Tipado, Oficios, Trabajos, Sereno, UnaSolaOperacion, EnOperacion,
             RespuestaSerena, Compacta, EnVuelo, Contestado, Espera, Hilos
    <2>7. SegmentosSerenos'
      <3>1. ~Contestado("running")' /\ pc'["running"] = "pedir"
        BY <1>2, <2>20 DEF Contestado
      <3>2. ASSUME NEW q \in Procesos, estado[q] \in {"ready", "exec"}, tieneSegmento[q]
            PROVE  Tiene(diccionario_tablas[q], 1)
        <4>1. q # proceso["running"]
          BY <1>1, <3>2 DEF PedidosInv, Programas
        <4> QED
          BY <2>1, <3>2, <4>1 DEF Sereno, SegmentosSerenos
      <3> QED
        BY <1>1, <3>1, <3>2 DEF SegmentosSerenos
    <2> QED
      BY <2>2, <2>3, <2>4, <2>5, <2>6, <2>7 DEF Sereno
  <1> QED
    BY <1>11, <1>12, <1>13, <1>14, <1>15, <1>16 DEF PedidosInv

LEMMA PasoLeerTablasSinPCB ==
    ASSUME PedidosInv, LeerTablasSinPCB
    PROVE  PedidosInv'
  <1>1. /\ ~caido /\ pc["running"] = "leerBufferTablas"
        /\ flag = PAQUETE => Huerfanas(Head(respuestas).tablas) # {}
        /\ caido' = TRUE
        /\ estado' = estado /\ tieneSegmento' = tieneSegmento
        /\ tablaSegmentos' = tablaSegmentos /\ global_PCB_list' = global_PCB_list
        /\ mutexMemoria' = mutexMemoria /\ pc' = pc /\ proceso' = proceso
        /\ operacion' = operacion /\ flag' = flag /\ solapados' = solapados
        /\ pedidos' = pedidos /\ respuestas' = respuestas /\ leida' = leida
        /\ diccionario_tablas' = diccionario_tablas /\ compactaciones' = compactaciones
        /\ consolas' = consolas /\ hechos' = hechos
    BY DEF LeerTablasSinPCB, En, Va, Pasa, Entra, Envia, kernel, hilos, socket, memoria, cuentas
  <1>11. Tipado'
    BY <1>1 DEF PedidosInv, Tipado, Trabajos, Oficios, Estados, Sitios, Operaciones, Hilos
  <1>12. Trabajos'
    BY <1>1 DEF PedidosInv, Tipado, Trabajos, Operaciones, Oficios, Hilos
  <1>13. Turnos'
    BY <1>1 DEF PedidosInv, Tipado, Turnos, NADIE, Hilos
  <1>14. Programas'
    BY <1>1 DEF PedidosInv, Tipado, Trabajos, Programas, Hilos
  <1>15. UnaRespuestaPorPedido'
    BY <1>1 DEF PedidosInv, UnaRespuestaPorPedido, EsperanRespuesta
  <1>16. ASSUME ~solapados' PROVE Sereno'
    <2>1. ~solapados /\ Sereno
      BY <1>1, <1>16 DEF PedidosInv
    <2>2. respuestas # <<>> /\ flag = Head(respuestas).flag
      BY <1>1 DEF PedidosInv, Turnos, Hilos, NADIE
    <2>3. EnOperacion("running") /\ Contestado("running") /\ Compacta /\ "running" \in Hilos
      BY <1>1, <2>2 DEF EnOperacion, Contestado, Espera, Compacta, Hilos
    <2>4. Head(respuestas).flag = PAQUETE /\ Head(respuestas).tablas = diccionario_tablas
      BY <2>1, <2>3 DEF Sereno, RespuestaSerena
    <2>5. PICK p \in Procesos : p \notin global_PCB_list /\ diccionario_tablas[p] # <<>>
      BY <1>1, <2>2, <2>4 DEF Huerfanas
    <2>6. ~Pendiente(p)
      BY <2>1, <2>3, EmptySeq DEF Sereno, SocketOrdenado, Pendiente, HayExit
    <2>7. ~Vivo(p) /\ ~SinTabla(p)
      BY <2>1, <2>5, <2>6 DEF Sereno, TablasSerenas
    <2>8. estado[p] \in {"admitiendo", "saliendo"}
      BY <2>7 DEF PedidosInv, Tipado, Estados, Vivo, SinTabla
    <2>9. ~EnOperacion("ready") /\ ~EnOperacion("exit")
      BY <2>1, <2>3 DEF Sereno, UnaSolaOperacion, Hilos
    <2>10. pc["ready"] = "libre" /\ pc["exit"] \in {"libre", "cerrar"}
      BY <2>9 DEF PedidosInv, Tipado, Oficios, EnOperacion
    <2> QED
      BY <2>7, <2>8, <2>10 DEF PedidosInv, Trabajos, SinTabla
  <1> QED
    BY <1>11, <1>12, <1>13, <1>14, <1>15, <1>16 DEF PedidosInv

LEMMA PasoAvisar ==
    ASSUME PedidosInv, Avisar
    PROVE  PedidosInv'
  <1>1. /\ ~caido /\ pc["exit"] = "avisar"
        /\ pedidos' = Append(pedidos, [op |-> "EXIT", PID |-> proceso["exit"], ID |-> 0])
        /\ pc' = [pc EXCEPT !["exit"] = "cerrar"]
        /\ estado' = estado /\ tieneSegmento' = tieneSegmento
        /\ tablaSegmentos' = tablaSegmentos /\ global_PCB_list' = global_PCB_list
        /\ mutexMemoria' = mutexMemoria /\ proceso' = proceso /\ operacion' = operacion
        /\ flag' = flag /\ solapados' = solapados /\ respuestas' = respuestas /\ leida' = leida
        /\ diccionario_tablas' = diccionario_tablas /\ compactaciones' = compactaciones
        /\ consolas' = consolas /\ hechos' = hechos /\ caido' = caido
    BY DEF Avisar, En, Va, Pasa, Entra, Envia, kernel, hilos, socket, memoria, cuentas
  <1>2. /\ pc'["exit"] = "cerrar"
        /\ \A g \in Hilos \ {"exit"} : pc'[g] = pc[g]
    BY <1>1 DEF PedidosInv, Tipado, Trabajos, Hilos
  <1>3. PICK m \in Pedidos : /\ m = [op |-> "EXIT", PID |-> proceso["exit"], ID |-> 0]
                              /\ pedidos' = Append(pedidos, m)
                              /\ m.op = "EXIT" /\ m.PID = proceso["exit"]
    BY <1>1 DEF PedidosInv, Trabajos, Hilos, Pedidos
  <1>11. Tipado'
    BY <1>1, <1>2, <1>3, AppendProperties DEF PedidosInv, Tipado, Trabajos, Oficios, Estados,
           Sitios, Operaciones, Hilos
  <1>12. Trabajos'
    BY <1>1, <1>2, <1>3 DEF PedidosInv, Tipado, Trabajos, Operaciones, Oficios, Hilos
  <1>13. Turnos'
    BY <1>1, <1>2, <1>3 DEF PedidosInv, Tipado, Turnos, NADIE, Hilos
  <1>14. Programas'
    BY <1>1, <1>2, <1>3 DEF PedidosInv, Tipado, Trabajos, Programas, Hilos
  <1>15. UnaRespuestaPorPedido'
    <2>1. Cardinality(Esperan(pc)) = Cardinality(Preguntas(pedidos)) + Len(respuestas)
      BY DEF PedidosInv, UnaRespuestaPorPedido, EsperanRespuesta, Esperan, Preguntas
    <2>2. /\ "exit" \in Hilos /\ ("exit" \in Esperan(pc) <=> "exit" \in Esperan(pc'))
          /\ \A g \in Hilos \ {"exit"} : pc'[g] = pc[g]
      BY <1>1, <1>2 DEF Esperan, Hilos
    <2>3. Cardinality(Esperan(pc')) = Cardinality(Esperan(pc))
      BY <2>2, EsperaIgual
    <2>4. Cardinality(Preguntas(pedidos')) = Cardinality(Preguntas(pedidos))
      BY <1>1, <1>3, PreguntaUnaMas, PreguntasFinito DEF PedidosInv, Tipado
    <2>5. Len(respuestas') = Len(respuestas)
      BY <1>1
    <2>6. /\ Len(respuestas) \in Nat /\ Len(respuestas') \in Nat
          /\ Cardinality(Preguntas(pedidos)) \in Nat /\ Cardinality(Preguntas(pedidos')) \in Nat
          /\ Cardinality(Esperan(pc)) \in Nat /\ Cardinality(Esperan(pc')) \in Nat
      BY <1>11, LenProperties, EsperanFinito, PreguntasFinito DEF PedidosInv, Tipado
    <2>7. Cardinality(Esperan(pc')) = Cardinality(Preguntas(pedidos')) + Len(respuestas')
      BY <2>1, <2>3, <2>4, <2>5, <2>6
    <2> QED
      BY <2>7, Zenon DEF UnaRespuestaPorPedido, EsperanRespuesta, Esperan, Preguntas
  <1>16. ASSUME ~solapados' PROVE Sereno'
    <2>1. ~solapados /\ Sereno
      BY <1>1, <1>2, <1>3, <1>16 DEF PedidosInv
    <2>20. EnOperacion("exit") /\ ~Espera("exit") /\ "exit" \in Hilos
      BY <1>1 DEF EnOperacion, Espera, Hilos
    <2>21. /\ respuestas = <<>> /\ \A g \in Hilos : ~EnVuelo(g) /\ ~Contestado(g)
           /\ \A i \in 1 .. Len(pedidos) : pedidos[i].op = "EXIT"
           /\ \A g \in Hilos \ {"exit"} : ~EnOperacion(g)
      BY <2>1, <2>20, SocketLibre
    <2>22. /\ Len(pedidos') = Len(pedidos) + 1 /\ Len(pedidos) \in Nat
           /\ pedidos'[Len(pedidos) + 1] = m
           /\ \A i \in 1 .. Len(pedidos) : pedidos'[i] = pedidos[i]
           /\ \A q \in Procesos : HayExit(pedidos, q) => HayExit(pedidos', q)
           /\ \A q \in Procesos \ {proceso["exit"]} : HayExit(pedidos', q) => HayExit(pedidos, q)
           /\ HayExit(pedidos', proceso["exit"])
      <3>1. pedidos \in Seq(Pedidos)
        BY DEF PedidosInv, Tipado
      <3>2. PICK larga : larga = pedidos'
        OBVIOUS
      <3>3. larga = Append(pedidos, m) /\ m \in Pedidos
        BY <1>3, <3>2
      <3>4. /\ Len(larga) = Len(pedidos) + 1 /\ Len(pedidos) \in Nat
            /\ larga[Len(larga)] = m
            /\ \A i \in 1 .. Len(pedidos) : larga[i] = pedidos[i]
        BY <3>1, <3>3, UnMensajeMas
      <3>5. ASSUME NEW q \in Procesos, HayExit(pedidos, q) PROVE HayExit(larga, q)
        BY <3>1, <3>3, <3>5, UnMensajeMas
      <3>6. ASSUME NEW q \in Procesos \ {proceso["exit"]}, HayExit(larga, q)
            PROVE  HayExit(pedidos, q)
        <4>1. q \in Procesos /\ m.PID # q
          BY <1>3, <3>6
        <4> QED
          BY <3>1, <3>3, <3>6, <4>1, UnMensajeMas
      <3>7. HayExit(larga, proceso["exit"])
        <4>1. proceso["exit"] \in Procesos /\ m.op = "EXIT" /\ m.PID = proceso["exit"]
          BY <1>1, <1>3 DEF PedidosInv, Trabajos, Hilos
        <4> QED
          BY <3>1, <3>3, <4>1, UnExitMas
      <3> QED
        BY <1>3, <3>2, <3>4, <3>5, <3>6, <3>7
    <2>23. \A i \in 1 .. Len(pedidos') : pedidos'[i].op = "EXIT"
      BY <1>3, <2>21, <2>22
    <2>24. \A g \in Hilos : ~EnVuelo(g)' /\ ~Contestado(g)'
      BY <1>1, <1>2, <2>21 DEF EnVuelo, Contestado, Espera, Hilos
    <2>2. ~caido'
      BY <1>1, <1>2, <1>3, <2>1, <2>20, <2>21, <2>22, <2>23, <2>24
         DEF Sereno
    <2>3. UnaSolaOperacion'
      BY <1>1, <1>2, <1>3, <2>1, <2>20, <2>21, <2>22, <2>23, <2>24
         DEF Sereno, UnaSolaOperacion, EnOperacion, Hilos
    <2>4. SocketOrdenado'
      BY <1>1, <1>2, <1>3, <2>1, <2>20, <2>21, <2>22, <2>23, <2>24
         DEF PedidosInv, Tipado, Oficios, Sereno, UnaSolaOperacion, EnOperacion, SocketOrdenado,
             Solicitud, Op, ID, EnVuelo, Contestado, Espera, Hilos
    <2>5. TablasSerenas'
      <3>1. estado[proceso["exit"]] = "saliendo" /\ proceso["exit"] \in Procesos
        BY <1>1 DEF PedidosInv, Trabajos, Hilos
      <3>2. ASSUME NEW q \in Procesos
            PROVE  /\ Vivo(q)' <=> Vivo(q)
                   /\ SinTabla(q)' => SinTabla(q) \/ q = proceso["exit"]
                   /\ ~Desfasado(q) /\ ~Desfasado(q)'
        BY <1>1, <1>2, <2>21, <2>24
           DEF PedidosInv, Trabajos, Vivo, SinTabla, Desfasado, EnOperacion, Hilos
      <3>3. ASSUME NEW q \in Procesos, Vivo(q)
            PROVE  /\ q \in global_PCB_list /\ Tiene(diccionario_tablas[q], 0)
                   /\ ~HayExit(pedidos', q) /\ tablaSegmentos[q] = diccionario_tablas[q]
        <4>1. q # proceso["exit"]
          BY <3>1, <3>3 DEF Vivo
        <4> QED
          BY <2>1, <2>22, <3>2, <3>3, <4>1 DEF Sereno, TablasSerenas, Pendiente
      <3>4. ASSUME NEW q \in Procesos, SinTabla(q)'
            PROVE  HayExit(pedidos', q) \/ diccionario_tablas[q] = <<>>
        BY <2>1, <2>22, <3>2, <3>4 DEF Sereno, TablasSerenas, Pendiente
      <3>5. pc'["exit"] = "cerrar" /\ pc'["ready"] # "agregar"
        BY <1>2, <2>21 DEF EnOperacion, Hilos
      <3> QED
        BY <1>1, <3>2, <3>3, <3>4, <3>5 DEF TablasSerenas, Pendiente
    <2>6. RespuestaSerena'
      BY <1>1, <1>2, <1>3, <2>1, <2>20, <2>21, <2>22, <2>23, <2>24
         DEF PedidosInv, Tipado, Oficios, Trabajos, Sereno, UnaSolaOperacion, EnOperacion,
             RespuestaSerena, Compacta, EnVuelo, Contestado, Espera, Hilos
    <2>7. SegmentosSerenos'
      BY <1>1, <1>2, <1>3, <2>1, <2>20, <2>21, <2>22, <2>23, <2>24
         DEF PedidosInv, Tipado, Oficios, Trabajos, Programas, Sereno, UnaSolaOperacion,
             EnOperacion, SegmentosSerenos, Hecho, Compacta, EnVuelo, Contestado, Espera, Hilos
    <2> QED
      BY <2>2, <2>3, <2>4, <2>5, <2>6, <2>7 DEF Sereno
  <1> QED
    BY <1>11, <1>12, <1>13, <1>14, <1>15, <1>16 DEF PedidosInv

LEMMA PasoCerrar ==
    ASSUME PedidosInv, Cerrar
    PROVE  PedidosInv'
  <1>1. /\ ~caido /\ pc["exit"] = "cerrar"
        /\ estado' = [estado EXCEPT ![proceso["exit"]] = "cerrado"]
        /\ tieneSegmento' = [tieneSegmento EXCEPT ![proceso["exit"]] = FALSE]
        /\ tablaSegmentos' = [tablaSegmentos EXCEPT ![proceso["exit"]] = <<>>]
        /\ pc' = [pc EXCEPT !["exit"] = "libre"]
        /\ global_PCB_list' = global_PCB_list /\ mutexMemoria' = mutexMemoria
        /\ proceso' = proceso /\ operacion' = operacion /\ flag' = flag
        /\ solapados' = solapados /\ pedidos' = pedidos /\ respuestas' = respuestas
        /\ leida' = leida /\ diccionario_tablas' = diccionario_tablas
        /\ compactaciones' = compactaciones /\ consolas' = consolas /\ hechos' = hechos
        /\ caido' = caido
    BY DEF Cerrar, En, Va, Pasa, Entra, Envia, kernel, hilos, socket, memoria, cuentas
  <1>2. /\ estado'[proceso["exit"]] = "cerrado"
        /\ \A q \in Procesos \ {proceso["exit"]} : estado'[q] = estado[q]
        /\ tieneSegmento'[proceso["exit"]] = FALSE
        /\ \A q \in Procesos \ {proceso["exit"]} : tieneSegmento'[q] = tieneSegmento[q]
        /\ tablaSegmentos'[proceso["exit"]] = <<>>
        /\ \A q \in Procesos \ {proceso["exit"]} : tablaSegmentos'[q] = tablaSegmentos[q]
        /\ pc'["exit"] = "libre"
        /\ \A g \in Hilos \ {"exit"} : pc'[g] = pc[g]
    BY <1>1 DEF PedidosInv, Tipado, Trabajos, Hilos
  <1>3. proceso["exit"] \in Procesos /\ estado[proceso["exit"]] = "saliendo"
    BY <1>1 DEF PedidosInv, Trabajos, Hilos
  <1>4. /\ pc["ready"] # "libre" => proceso["ready"] # proceso["exit"]
        /\ pc["running"] # "libre" => proceso["running"] # proceso["exit"]
    BY <1>1, <1>3 DEF PedidosInv, Trabajos
  <1>5. <<>> \in Tablas
    BY EmptySeq DEF Tablas
  <1>11. Tipado'
    BY <1>1, <1>2, <1>3, <1>4, <1>5 DEF PedidosInv, Tipado, Trabajos, Oficios, Estados, Sitios,
           Operaciones, Hilos
  <1>12. Trabajos'
    BY <1>1, <1>2, <1>3, <1>4, <1>5 DEF PedidosInv, Tipado, Trabajos, Operaciones, Oficios, Hilos
  <1>13. Turnos'
    BY <1>1, <1>2, <1>3, <1>4, <1>5 DEF PedidosInv, Tipado, Turnos, NADIE, Hilos
  <1>14. Programas'
    BY <1>1, <1>2, <1>3, <1>4, <1>5 DEF PedidosInv, Tipado, Trabajos, Programas, Hilos
  <1>15. UnaRespuestaPorPedido'
    <2>1. Cardinality(Esperan(pc)) = Cardinality(Preguntas(pedidos)) + Len(respuestas)
      BY DEF PedidosInv, UnaRespuestaPorPedido, EsperanRespuesta, Esperan, Preguntas
    <2>2. /\ "exit" \in Hilos /\ ("exit" \in Esperan(pc) <=> "exit" \in Esperan(pc'))
          /\ \A g \in Hilos \ {"exit"} : pc'[g] = pc[g]
      BY <1>1, <1>2 DEF Esperan, Hilos
    <2>3. Cardinality(Esperan(pc')) = Cardinality(Esperan(pc))
      BY <2>2, EsperaIgual
    <2>4. Cardinality(Preguntas(pedidos')) = Cardinality(Preguntas(pedidos))
      BY <1>1
    <2>5. Len(respuestas') = Len(respuestas)
      BY <1>1
    <2>6. /\ Len(respuestas) \in Nat /\ Len(respuestas') \in Nat
          /\ Cardinality(Preguntas(pedidos)) \in Nat /\ Cardinality(Preguntas(pedidos')) \in Nat
          /\ Cardinality(Esperan(pc)) \in Nat /\ Cardinality(Esperan(pc')) \in Nat
      BY <1>11, LenProperties, EsperanFinito, PreguntasFinito DEF PedidosInv, Tipado
    <2>7. Cardinality(Esperan(pc')) = Cardinality(Preguntas(pedidos')) + Len(respuestas')
      BY <2>1, <2>3, <2>4, <2>5, <2>6
    <2> QED
      BY <2>7, Zenon DEF UnaRespuestaPorPedido, EsperanRespuesta, Esperan, Preguntas
  <1>16. ASSUME ~solapados' PROVE Sereno'
    <2>1. ~solapados /\ Sereno
      BY <1>1, <1>2, <1>3, <1>4, <1>5, <1>16 DEF PedidosInv
    <2>2. ~caido'
      BY <1>1, <1>2, <1>3, <1>4, <1>5, <2>1 DEF Sereno
    <2>3. UnaSolaOperacion'
      BY <1>1, <1>2, <1>3, <1>4, <1>5, <2>1 DEF Sereno, UnaSolaOperacion, EnOperacion, Hilos
    <2>4. SocketOrdenado'
      BY <1>1, <1>2, <1>3, <1>4, <1>5, <2>1 DEF PedidosInv, Tipado, Oficios, Sereno,
             UnaSolaOperacion, EnOperacion, SocketOrdenado, Solicitud, Op, ID, EnVuelo,
             Contestado, Espera, Hilos
    <2>5. TablasSerenas'
      BY <1>1, <1>2, <1>3, <1>4, <1>5, <2>1 DEF PedidosInv, Tipado, Oficios, Trabajos, Sereno,
             UnaSolaOperacion, EnOperacion, TablasSerenas, Vivo, Pendiente, HayExit, SinTabla,
             Compacta, Desfasado, EnVuelo, Contestado, Espera, Hilos
    <2>6. RespuestaSerena'
      BY <1>1, <1>2, <1>3, <1>4, <1>5, <2>1 DEF PedidosInv, Tipado, Oficios, Trabajos, Sereno,
             UnaSolaOperacion, EnOperacion, RespuestaSerena, Compacta, EnVuelo, Contestado,
             Espera, Hilos
    <2>7. SegmentosSerenos'
      BY <1>1, <1>2, <1>3, <1>4, <1>5, <2>1 DEF PedidosInv, Tipado, Oficios, Trabajos, Programas,
             Sereno, UnaSolaOperacion, EnOperacion, SegmentosSerenos, Hecho, Compacta, EnVuelo,
             Contestado, Espera, Hilos
    <2> QED
      BY <2>2, <2>3, <2>4, <2>5, <2>6, <2>7 DEF Sereno
  <1> QED
    BY <1>11, <1>12, <1>13, <1>14, <1>15, <1>16 DEF PedidosInv

LEMMA PasoCrearTabla ==
    ASSUME PedidosInv, CrearTabla
    PROVE  PedidosInv'
  <1>1. /\ ~caido /\ pedidos # <<>> /\ Head(pedidos).op = "CREATE_SEGMENT"
        /\ diccionario_tablas[Head(pedidos).PID] = <<>>
        /\ respuestas' = Append(respuestas, [flag |-> 0, tabla |-> TablaInicial, tablas |-> <<>>])
        /\ diccionario_tablas' = [diccionario_tablas EXCEPT ![Head(pedidos).PID] = TablaInicial]
        /\ pedidos' = Tail(pedidos)
        /\ estado' = estado /\ tieneSegmento' = tieneSegmento
        /\ tablaSegmentos' = tablaSegmentos /\ global_PCB_list' = global_PCB_list
        /\ mutexMemoria' = mutexMemoria /\ pc' = pc /\ proceso' = proceso
        /\ operacion' = operacion /\ flag' = flag /\ solapados' = solapados /\ leida' = leida
        /\ compactaciones' = compactaciones /\ consolas' = consolas /\ hechos' = hechos
        /\ caido' = caido
    BY DEF CrearTabla, En, Va, Pasa, Entra, Envia, kernel, hilos, socket, memoria, cuentas,
           CrearTabla, Atiende, NuevaTabla, PID, ContestaInicial, Contesta
  <1>2. /\ diccionario_tablas'[Head(pedidos).PID] = TablaInicial
        /\ \A q \in Procesos \ {Head(pedidos).PID} : diccionario_tablas'[q] = diccionario_tablas[q]
    <2>1. pedidos \in Seq(Pedidos) /\ diccionario_tablas \in [Procesos -> Tablas]
      BY DEF PedidosInv, Tipado
    <2>2. Head(pedidos) \in Pedidos
      BY <1>1, <2>1, HeadTailProperties
    <2>3. Head(pedidos).PID \in Procesos
      BY <1>1, <2>2 DEF Pedidos
    <2> QED
      BY <1>1, <2>1, <2>3
  <1>0. TablaInicial \in Tablas /\ Tiene(TablaInicial, 0)
    <2>1. [ID |-> 0, de |-> NADIE, vez |-> 0] \in Segmentos
      BY PedidosMemoriaAssumption DEF Segmentos, NADIE
    <2>2. TablaInicial = Append(<<>>, [ID |-> 0, de |-> NADIE, vez |-> 0])
      BY DEF TablaInicial
    <2>3. <<>> \in Tablas
      BY EmptySeq DEF Tablas
    <2> QED
      BY <2>1, <2>2, <2>3, TablaConUnoMas
  <1>3. PICK r \in Respuestas : /\ r = [flag |-> 0, tabla |-> TablaInicial, tablas |-> <<>>]
                                /\ respuestas' = Append(respuestas, r)
    BY <1>0, <1>1 DEF Respuestas, Flags, PAQUETE
  <1>4. /\ pedidos \in Seq(Pedidos) /\ respuestas \in Seq(Respuestas)
        /\ Head(pedidos) \in Pedidos /\ pedidos' \in Seq(Pedidos)
        /\ diccionario_tablas \in [Procesos -> Tablas]
    <2>1. pedidos \in Seq(Pedidos) /\ respuestas \in Seq(Respuestas)
          /\ diccionario_tablas \in [Procesos -> Tablas]
      BY DEF PedidosInv, Tipado
    <2> QED
      BY <1>1, <2>1, HeadTailProperties
  <1>5. Head(pedidos).PID \in Procesos
    BY <1>1, <1>4 DEF Pedidos
  <1>6. diccionario_tablas[Head(pedidos).PID] \in Tablas
    BY <1>4, <1>5
  <1>7. /\ respuestas' # <<>> /\ respuestas' \in Seq(Respuestas)
        /\ respuestas # <<>> => Head(respuestas') = Head(respuestas)
    <2>1. PICK larga : larga = respuestas'
      OBVIOUS
    <2>2. larga = Append(respuestas, r)
      BY <1>3, <2>1
    <2>3. /\ larga # <<>> /\ larga \in Seq(Respuestas)
          /\ respuestas # <<>> => Head(larga) = Head(respuestas)
      BY <1>3, <1>4, <2>2, CabezaQueda
    <2> QED
      BY <2>1, <2>3
  <1>8. diccionario_tablas' \in [Procesos -> Tablas]
    BY <1>0, <1>1, <1>4, <1>5
  <1>11. Tipado'
    BY <1>1, <1>2, <1>3, <1>4, <1>5, <1>7, <1>8 DEF PedidosInv, Tipado, Trabajos, Oficios,
           Estados, Sitios, Operaciones, Hilos
  <1>12. Trabajos'
    BY <1>1, <1>2, <1>3, <1>4, <1>5, <1>7, <1>8 DEF PedidosInv, Tipado, Trabajos, Operaciones,
           Oficios, Hilos
  <1>13. Turnos'
    BY <1>1, <1>2, <1>3, <1>4, <1>5, <1>7, <1>8 DEF PedidosInv, Tipado, Turnos, NADIE, Hilos
  <1>14. Programas'
    BY <1>1, <1>2, <1>3, <1>4, <1>5, <1>7, <1>8 DEF PedidosInv, Tipado, Trabajos, Programas,
           Hilos
  <1>15. UnaRespuestaPorPedido'
    <2>1. Cardinality(Esperan(pc)) = Cardinality(Preguntas(pedidos)) + Len(respuestas)
      BY DEF PedidosInv, UnaRespuestaPorPedido, EsperanRespuesta, Esperan, Preguntas
    <2>3. Cardinality(Esperan(pc')) = Cardinality(Esperan(pc))
      BY <1>1
    <2>4. Cardinality(Preguntas(pedidos)) = Cardinality(Preguntas(pedidos')) + 1
      BY <1>1, PreguntaUnaMenos DEF PedidosInv, Tipado
    <2>5. Len(respuestas') = Len(respuestas) + 1
      BY <1>1, <1>3, AppendProperties DEF PedidosInv, Tipado
    <2>6. /\ Len(respuestas) \in Nat /\ Len(respuestas') \in Nat
          /\ Cardinality(Preguntas(pedidos)) \in Nat /\ Cardinality(Preguntas(pedidos')) \in Nat
          /\ Cardinality(Esperan(pc)) \in Nat /\ Cardinality(Esperan(pc')) \in Nat
      BY <1>11, LenProperties, EsperanFinito, PreguntasFinito DEF PedidosInv, Tipado
    <2>7. Cardinality(Esperan(pc')) = Cardinality(Preguntas(pedidos')) + Len(respuestas')
      BY <2>1, <2>3, <2>4, <2>5, <2>6
    <2> QED
      BY <2>7, Zenon DEF UnaRespuestaPorPedido, EsperanRespuesta, Esperan, Preguntas
  <1>16. ASSUME ~solapados' PROVE Sereno'
    <2>1. ~solapados /\ Sereno
      BY <1>1, <1>16 DEF PedidosInv
    <2>2. PICK h \in {"ready", "running"} :
             /\ EnVuelo(h) /\ EnOperacion(h) /\ Head(pedidos) = Solicitud(h)
             /\ respuestas = <<>> /\ pc[h] \in {"esperar", "leer", "leerTablas"}
      BY <1>1, <2>1, PedidoAtendido
    <2>3. h = "ready"
      <3> SUFFICES ASSUME h = "running" PROVE FALSE
        BY <2>2
      <3>1. Head(pedidos).PID = proceso["running"]
        BY <1>1, <2>2 DEF Solicitud, PideCompactar
      <3>2. Vivo(proceso["running"])
        BY <2>2 DEF PedidosInv, Trabajos, EnOperacion, Vivo
      <3>3. Tiene(diccionario_tablas[Head(pedidos).PID], 0)
        BY <1>5, <2>1, <3>1, <3>2 DEF Sereno, TablasSerenas
      <3> QED
        BY <1>1, <3>3, EmptySeq DEF Tiene
    <2>4. Head(pedidos).PID = proceso["ready"]
      BY <1>1, <2>2, <2>3 DEF Solicitud, PideCompactar
    <2>5. ~Vivo(proceso["ready"])
      BY <2>2, <2>3 DEF PedidosInv, Trabajos, EnOperacion, Vivo
    <2>6. ~Tiene(<<>>, 0) /\ ~Tiene(<<>>, 1)
      BY EmptySeq DEF Tiene
    <2>7. /\ diccionario_tablas'[proceso["ready"]] = TablaInicial
          /\ diccionario_tablas[proceso["ready"]] = <<>>
          /\ \A q \in Procesos \ {proceso["ready"]} :
                diccionario_tablas'[q] = diccionario_tablas[q]
      BY <1>1, <1>2, <2>4
    <2>20. Responde(h, r)
      BY <1>1, <1>3, <1>8, <2>3, <2>5, <2>6, <2>7 DEF Responde, kernel, hilos, cuentas
    <2> QED
      BY <1>0, <1>1, <1>3, <2>1, <2>2, <2>3, <2>7, <2>20, MemoriaContesta
  <1> QED
    BY <1>11, <1>12, <1>13, <1>14, <1>15, <1>16 DEF PedidosInv

LEMMA PasoCrearSegmento ==
    ASSUME PedidosInv, CrearSegmento
    PROVE  PedidosInv'
  <1>1. /\ ~caido /\ pedidos # <<>> /\ Head(pedidos).op = "CREATE_SEGMENT"
        /\ diccionario_tablas[Head(pedidos).PID] # <<>>
        /\ \/ /\ diccionario_tablas' = [diccionario_tablas EXCEPT ![Head(pedidos).PID] =
                      Append(diccionario_tablas[Head(pedidos).PID],
                             [ID |-> Head(pedidos).ID, de |-> Head(pedidos).PID,
                              vez |-> compactaciones])]
              /\ respuestas' = Append(respuestas, [flag |-> 0,
                     tabla |-> Append(diccionario_tablas[Head(pedidos).PID],
                                      [ID |-> Head(pedidos).ID, de |-> Head(pedidos).PID,
                                       vez |-> compactaciones]),
                     tablas |-> <<>>])
           \/ /\ diccionario_tablas' = diccionario_tablas
              /\ \E w \in {-1, 1} : respuestas' = Append(respuestas,
                     [flag |-> w, tabla |-> diccionario_tablas[Head(pedidos).PID],
                      tablas |-> <<>>])
        /\ pedidos' = Tail(pedidos)
        /\ estado' = estado /\ tieneSegmento' = tieneSegmento
        /\ tablaSegmentos' = tablaSegmentos /\ global_PCB_list' = global_PCB_list
        /\ mutexMemoria' = mutexMemoria /\ pc' = pc /\ proceso' = proceso
        /\ operacion' = operacion /\ flag' = flag /\ solapados' = solapados /\ leida' = leida
        /\ compactaciones' = compactaciones /\ consolas' = consolas /\ hechos' = hechos
        /\ caido' = caido
    BY DEF CrearSegmento, En, Va, Pasa, Entra, Envia, kernel, hilos, socket, memoria, cuentas,
           Atiende, NuevaTabla, PID, Contesta
  <1>4. /\ pedidos \in Seq(Pedidos) /\ respuestas \in Seq(Respuestas)
        /\ Head(pedidos) \in Pedidos /\ pedidos' \in Seq(Pedidos)
        /\ diccionario_tablas \in [Procesos -> Tablas]
    <2>1. pedidos \in Seq(Pedidos) /\ respuestas \in Seq(Respuestas)
          /\ diccionario_tablas \in [Procesos -> Tablas]
      BY DEF PedidosInv, Tipado
    <2> QED
      BY <1>1, <2>1, HeadTailProperties
  <1>5. PICK p \in Procesos : p = Head(pedidos).PID
    BY <1>1, <1>4 DEF Pedidos
  <1>6. diccionario_tablas[p] \in Tablas
    BY <1>4, <1>5
  <1>9. PICK v \in {-1, 0, 1}, t \in Tablas :
           /\ diccionario_tablas' = [diccionario_tablas EXCEPT ![p] = t]
           /\ respuestas' = Append(respuestas, [flag |-> v, tabla |-> t, tablas |-> <<>>])
           /\ Tiene(diccionario_tablas[p], 0) => Tiene(t, 0)
           /\ v = 0 => Tiene(t, Head(pedidos).ID)
    <2>1. CASE /\ diccionario_tablas' = diccionario_tablas
               /\ \E w \in {-1, 1} : respuestas' = Append(respuestas,
                     [flag |-> w, tabla |-> diccionario_tablas[Head(pedidos).PID],
                      tablas |-> <<>>])
      <3>1. PICK w \in {-1, 1} : respuestas' = Append(respuestas,
                  [flag |-> w, tabla |-> diccionario_tablas[p], tablas |-> <<>>])
        BY <1>5, <2>1
      <3>2. diccionario_tablas' = [diccionario_tablas EXCEPT ![p] = diccionario_tablas[p]]
        BY <1>4, <2>1
      <3>3. PICK t \in Tablas : t = diccionario_tablas[p]
        BY <1>6
      <3>4. /\ diccionario_tablas' = [diccionario_tablas EXCEPT ![p] = t]
            /\ respuestas' = Append(respuestas, [flag |-> w, tabla |-> t, tablas |-> <<>>])
            /\ w \in {-1, 0, 1} /\ w # 0
        BY <3>1, <3>2, <3>3
      <3>5. Tiene(diccionario_tablas[p], 0) => Tiene(t, 0)
        BY <3>3
      <3> QED
        BY <3>4, <3>5
    <2>2. CASE \E s \in Segmentos :
                  /\ s.ID = Head(pedidos).ID
                  /\ diccionario_tablas' = [diccionario_tablas EXCEPT ![p] =
                                               Append(diccionario_tablas[p], s)]
                  /\ respuestas' = Append(respuestas,
                        [flag |-> 0, tabla |-> Append(diccionario_tablas[p], s),
                         tablas |-> <<>>])
      <3>1. PICK s \in Segmentos :
                  /\ s.ID = Head(pedidos).ID
                  /\ diccionario_tablas' = [diccionario_tablas EXCEPT ![p] =
                                               Append(diccionario_tablas[p], s)]
                  /\ respuestas' = Append(respuestas,
                        [flag |-> 0, tabla |-> Append(diccionario_tablas[p], s),
                         tablas |-> <<>>])
        BY <2>2
      <3>2. PICK t \in Tablas : t = Append(diccionario_tablas[p], s)
        BY <1>6, TablaConUnoMas
      <3>3. (Tiene(diccionario_tablas[p], 0) => Tiene(t, 0)) /\ Tiene(t, s.ID)
        BY <1>6, <3>2, TablaConUnoMas
      <3> QED
        BY <3>1, <3>2, <3>3
    <2>3. /\ [ID |-> Head(pedidos).ID, de |-> p, vez |-> compactaciones] \in Segmentos
          /\ [ID |-> Head(pedidos).ID, de |-> p, vez |-> compactaciones].ID = Head(pedidos).ID
      BY <1>4, <1>5 DEF Pedidos, Segmentos, PedidosInv, Tipado
    <2>4. CASE /\ diccionario_tablas' = [diccionario_tablas EXCEPT ![Head(pedidos).PID] =
                      Append(diccionario_tablas[Head(pedidos).PID],
                             [ID |-> Head(pedidos).ID, de |-> Head(pedidos).PID,
                              vez |-> compactaciones])]
               /\ respuestas' = Append(respuestas, [flag |-> 0,
                     tabla |-> Append(diccionario_tablas[Head(pedidos).PID],
                                      [ID |-> Head(pedidos).ID, de |-> Head(pedidos).PID,
                                       vez |-> compactaciones]),
                     tablas |-> <<>>])
      BY <1>5, <2>2, <2>3, <2>4
    <2> QED
      BY <1>1, <2>1, <2>4
  <1>3. PICK r \in Respuestas : /\ r.flag = v /\ r.tabla = t
                                /\ respuestas' = Append(respuestas, r)
    <2>1. [flag |-> v, tabla |-> t, tablas |-> <<>>] \in Respuestas
      BY <1>9 DEF Respuestas, Flags, PAQUETE
    <2> QED
      BY <1>9, <2>1
  <1>7. /\ respuestas' # <<>> /\ respuestas' \in Seq(Respuestas)
        /\ respuestas # <<>> => Head(respuestas') = Head(respuestas)
    <2>1. PICK larga : larga = respuestas'
      OBVIOUS
    <2>2. larga = Append(respuestas, r)
      BY <1>3, <2>1
    <2>3. /\ larga # <<>> /\ larga \in Seq(Respuestas)
          /\ respuestas # <<>> => Head(larga) = Head(respuestas)
      BY <1>3, <1>4, <2>2, CabezaQueda
    <2> QED
      BY <2>1, <2>3
  <1>8. /\ diccionario_tablas' \in [Procesos -> Tablas]
        /\ diccionario_tablas'[p] = t
        /\ \A q \in Procesos \ {p} : diccionario_tablas'[q] = diccionario_tablas[q]
    BY <1>1, <1>4, <1>9
  <1>11. Tipado'
    BY <1>1, <1>3, <1>4, <1>5, <1>7, <1>8 DEF PedidosInv, Tipado, Trabajos, Oficios, Estados,
           Sitios, Operaciones, Hilos
  <1>12. Trabajos'
    BY <1>1, <1>3, <1>4, <1>5, <1>7, <1>8 DEF PedidosInv, Tipado, Trabajos, Operaciones, Oficios,
           Hilos
  <1>13. Turnos'
    BY <1>1, <1>3, <1>4, <1>5, <1>7, <1>8 DEF PedidosInv, Tipado, Turnos, NADIE, Hilos
  <1>14. Programas'
    BY <1>1, <1>3, <1>4, <1>5, <1>7, <1>8 DEF PedidosInv, Tipado, Trabajos, Programas, Hilos
  <1>15. UnaRespuestaPorPedido'
    <2>1. Cardinality(Esperan(pc)) = Cardinality(Preguntas(pedidos)) + Len(respuestas)
      BY DEF PedidosInv, UnaRespuestaPorPedido, EsperanRespuesta, Esperan, Preguntas
    <2>3. Cardinality(Esperan(pc')) = Cardinality(Esperan(pc))
      BY <1>1
    <2>4. Cardinality(Preguntas(pedidos)) = Cardinality(Preguntas(pedidos')) + 1
      BY <1>1, PreguntaUnaMenos DEF PedidosInv, Tipado
    <2>5. Len(respuestas') = Len(respuestas) + 1
      BY <1>1, <1>3, AppendProperties DEF PedidosInv, Tipado
    <2>6. /\ Len(respuestas) \in Nat /\ Len(respuestas') \in Nat
          /\ Cardinality(Preguntas(pedidos)) \in Nat /\ Cardinality(Preguntas(pedidos')) \in Nat
          /\ Cardinality(Esperan(pc)) \in Nat /\ Cardinality(Esperan(pc')) \in Nat
      BY <1>11, LenProperties, EsperanFinito, PreguntasFinito DEF PedidosInv, Tipado
    <2>7. Cardinality(Esperan(pc')) = Cardinality(Preguntas(pedidos')) + Len(respuestas')
      BY <2>1, <2>3, <2>4, <2>5, <2>6
    <2> QED
      BY <2>7, Zenon DEF UnaRespuestaPorPedido, EsperanRespuesta, Esperan, Preguntas
  <1>16. ASSUME ~solapados' PROVE Sereno'
    <2>1. ~solapados /\ Sereno
      BY <1>1, <1>16 DEF PedidosInv
    <2>2. PICK h \in {"ready", "running"} :
             /\ EnVuelo(h) /\ EnOperacion(h) /\ Head(pedidos) = Solicitud(h)
             /\ respuestas = <<>> /\ pc[h] \in {"esperar", "leer", "leerTablas"}
      BY <1>1, <2>1, PedidoAtendido
    <2>3. h = "running" /\ ~Compacta
      <3>1. CASE h = "ready"
        <4>1. p = proceso["ready"]
          BY <1>5, <2>2, <3>1, <1>1 DEF Solicitud, PideCompactar
        <4>2. pc["ready"] # "libre"
          BY <2>2, <3>1
        <4>3. SinTabla(p)
          BY <2>2, <3>1, <4>1, <4>2 DEF PedidosInv, Trabajos, SinTabla
        <4>4. ~Pendiente(p)
          <5>1. Len(pedidos) = 1 /\ pedidos[1] = Head(pedidos)
            <6>1. Len(pedidos) = 1
              BY <1>1, <2>1, PedidoAtendido
            <6> QED
              BY <1>4, <6>1, HeadTailProperties
          <5> QED
            BY <1>1, <5>1 DEF Pendiente, HayExit
        <4>5. diccionario_tablas[p] = <<>>
          BY <2>1, <4>3, <4>4 DEF Sereno, TablasSerenas
        <4> QED
          BY <1>1, <1>5, <4>5
      <3>2. pc[h] # "leerTablas"
        BY <1>1, <2>2 DEF Solicitud, PideCompactar
      <3> QED
        BY <2>2, <3>1, <3>2 DEF Compacta
    <2>4. p = proceso["running"] /\ Head(pedidos).ID = 1
      BY <1>5, <2>2, <2>3 DEF Solicitud, Compacta, ID
    <2>21. diccionario_tablas[p] # <<>>
      BY <1>1, <1>5
    <2>20. Responde(h, r)
      <3>1. \A q \in Procesos :
               /\ Tiene(diccionario_tablas[q], 0) => Tiene(diccionario_tablas'[q], 0)
               /\ q # p => diccionario_tablas'[q] = diccionario_tablas[q]
        BY <1>8, <1>9
      <3> QED
        BY <1>1, <1>3, <1>8, <2>3, <2>4, <3>1, <2>21 DEF Responde, kernel, hilos, cuentas
    <2> QED
      BY <1>1, <1>3, <1>8, <1>9, <2>1, <2>2, <2>3, <2>4, <2>20, MemoriaContesta
  <1> QED
    BY <1>11, <1>12, <1>13, <1>14, <1>15, <1>16 DEF PedidosInv

LEMMA PasoBorrarSegmento ==
    ASSUME PedidosInv, BorrarSegmento
    PROVE  PedidosInv'
  <1>1. /\ ~caido /\ pedidos # <<>> /\ Head(pedidos).op = "DELETE_SEGMENT"
        /\ \E i \in 1 .. Len(diccionario_tablas[Head(pedidos).PID]) :
              /\ diccionario_tablas[Head(pedidos).PID][i].ID = Head(pedidos).ID
              /\ diccionario_tablas' = [diccionario_tablas EXCEPT ![Head(pedidos).PID] =
                                           RemoveAt(diccionario_tablas[Head(pedidos).PID], i)]
              /\ respuestas' = Append(respuestas, [flag |-> 0,
                     tabla |-> RemoveAt(diccionario_tablas[Head(pedidos).PID], i),
                     tablas |-> <<>>])
        /\ pedidos' = Tail(pedidos)
        /\ estado' = estado /\ tieneSegmento' = tieneSegmento
        /\ tablaSegmentos' = tablaSegmentos /\ global_PCB_list' = global_PCB_list
        /\ mutexMemoria' = mutexMemoria /\ pc' = pc /\ proceso' = proceso
        /\ operacion' = operacion /\ flag' = flag /\ solapados' = solapados /\ leida' = leida
        /\ compactaciones' = compactaciones /\ consolas' = consolas /\ hechos' = hechos
        /\ caido' = caido
    <2> DEFINE t == diccionario_tablas[Head(pedidos).PID]
               I == {j \in 1 .. Len(t) : t[j].ID = Head(pedidos).ID}
               i == SelectInSeq(t, LAMBDA s : s.ID = Head(pedidos).ID)
    <2>1. /\ ~caido /\ pedidos # <<>> /\ Head(pedidos).op = "DELETE_SEGMENT"
          /\ i # 0
          /\ diccionario_tablas' = [diccionario_tablas EXCEPT ![Head(pedidos).PID] =
                                       RemoveAt(t, i)]
          /\ respuestas' = Append(respuestas, [flag |-> 0, tabla |-> RemoveAt(t, i),
                                              tablas |-> <<>>])
      BY DEF BorrarSegmento, Atiende, NuevaTabla, PID, Contesta
    <2>2. i = IF I # {} THEN Min(I) ELSE 0
      BY DEF SelectInSeq
    <2>3. Len(t) \in Nat
      <3>1. pedidos \in Seq(Pedidos) /\ diccionario_tablas \in [Procesos -> Tablas]
        BY DEF PedidosInv, Tipado
      <3>2. Head(pedidos) \in Pedidos
        BY <2>1, <3>1, HeadTailProperties
      <3>3. t \in Seq(Segmentos)
        BY <2>1, <3>1, <3>2 DEF Pedidos, Tablas
      <3> QED
        BY <3>3, LenProperties
    <2>4. I \in SUBSET Nat /\ I # {}
      BY <2>1, <2>2, <2>3
    <2>5. Min(I) \in I
      BY <2>4, HayMinimo
    <2>6. i \in 1 .. Len(t) /\ t[i].ID = Head(pedidos).ID
      BY <2>2, <2>4, <2>5
    <2>7. /\ pedidos' = Tail(pedidos)
          /\ UNCHANGED <<kernel, hilos, leida, compactaciones, cuentas, caido>>
      BY DEF BorrarSegmento
    <2> HIDE DEF i, I, t
    <2>8. \E j \in 1 .. Len(t) :
             /\ t[j].ID = Head(pedidos).ID
             /\ diccionario_tablas' = [diccionario_tablas EXCEPT ![Head(pedidos).PID] =
                                          RemoveAt(t, j)]
             /\ respuestas' = Append(respuestas, [flag |-> 0, tabla |-> RemoveAt(t, j),
                                                 tablas |-> <<>>])
      BY <2>1, <2>6
    <2> QED
      BY <2>1, <2>7, <2>8 DEF kernel, hilos, cuentas, t
  <1>4. /\ pedidos \in Seq(Pedidos) /\ respuestas \in Seq(Respuestas)
        /\ Head(pedidos) \in Pedidos /\ pedidos' \in Seq(Pedidos)
        /\ diccionario_tablas \in [Procesos -> Tablas]
    <2>1. pedidos \in Seq(Pedidos) /\ respuestas \in Seq(Respuestas)
          /\ diccionario_tablas \in [Procesos -> Tablas]
      BY DEF PedidosInv, Tipado
    <2> QED
      BY <1>1, <2>1, HeadTailProperties
  <1>5. PICK p \in Procesos : p = Head(pedidos).PID
    BY <1>1, <1>4 DEF Pedidos
  <1>6. diccionario_tablas[p] \in Tablas
    BY <1>4, <1>5
  <1>10. PICK i \in 1 .. Len(diccionario_tablas[p]) :
            /\ diccionario_tablas[p][i].ID = Head(pedidos).ID
            /\ diccionario_tablas' = [diccionario_tablas EXCEPT ![p] =
                                         RemoveAt(diccionario_tablas[p], i)]
            /\ respuestas' = Append(respuestas, [flag |-> 0,
                  tabla |-> RemoveAt(diccionario_tablas[p], i), tablas |-> <<>>])
    BY <1>1, <1>5
  <1>9. PICK t \in Tablas, v \in {0} :
           /\ diccionario_tablas' = [diccionario_tablas EXCEPT ![p] = t]
           /\ respuestas' = Append(respuestas, [flag |-> v, tabla |-> t, tablas |-> <<>>])
           /\ Head(pedidos).ID # 0 /\ Tiene(diccionario_tablas[p], 0) => Tiene(t, 0)
    <2>1. PICK t : t = RemoveAt(diccionario_tablas[p], i)
      OBVIOUS
    <2>2. t \in Tablas
      BY <1>6, <1>10, <2>1, TablaConUnoMenos
    <2>3. Head(pedidos).ID # 0 /\ Tiene(diccionario_tablas[p], 0) => Tiene(t, 0)
      BY <1>6, <1>10, <2>1, TablaConUnoMenos
    <2>4. diccionario_tablas' = [diccionario_tablas EXCEPT ![p] = t]
      BY <1>5, <1>10, <2>1
    <2>5. respuestas' = Append(respuestas, [flag |-> 0, tabla |-> t, tablas |-> <<>>])
      BY <1>5, <1>10, <2>1
    <2> QED
      BY <2>2, <2>3, <2>4, <2>5
  <1>3. PICK r \in Respuestas : /\ r.flag = v /\ r.tabla = t
                                /\ respuestas' = Append(respuestas, r)
    <2>1. [flag |-> v, tabla |-> t, tablas |-> <<>>] \in Respuestas
      BY <1>9 DEF Respuestas, Flags, PAQUETE
    <2> QED
      BY <1>9, <2>1
  <1>7. /\ respuestas' # <<>> /\ respuestas' \in Seq(Respuestas)
        /\ respuestas # <<>> => Head(respuestas') = Head(respuestas)
    <2>1. PICK larga : larga = respuestas'
      OBVIOUS
    <2>2. larga = Append(respuestas, r)
      BY <1>3, <2>1
    <2>3. /\ larga # <<>> /\ larga \in Seq(Respuestas)
          /\ respuestas # <<>> => Head(larga) = Head(respuestas)
      BY <1>3, <1>4, <2>2, CabezaQueda
    <2> QED
      BY <2>1, <2>3
  <1>8. /\ diccionario_tablas' \in [Procesos -> Tablas]
        /\ diccionario_tablas'[p] = t
        /\ \A q \in Procesos \ {p} : diccionario_tablas'[q] = diccionario_tablas[q]
    BY <1>1, <1>4, <1>9
  <1>11. Tipado'
    BY <1>1, <1>3, <1>4, <1>5, <1>7, <1>8 DEF PedidosInv, Tipado, Trabajos, Oficios, Estados,
           Sitios, Operaciones, Hilos
  <1>12. Trabajos'
    BY <1>1, <1>3, <1>4, <1>5, <1>7, <1>8 DEF PedidosInv, Tipado, Trabajos, Operaciones, Oficios,
           Hilos
  <1>13. Turnos'
    BY <1>1, <1>3, <1>4, <1>5, <1>7, <1>8 DEF PedidosInv, Tipado, Turnos, NADIE, Hilos
  <1>14. Programas'
    BY <1>1, <1>3, <1>4, <1>5, <1>7, <1>8 DEF PedidosInv, Tipado, Trabajos, Programas, Hilos
  <1>15. UnaRespuestaPorPedido'
    <2>1. Cardinality(Esperan(pc)) = Cardinality(Preguntas(pedidos)) + Len(respuestas)
      BY DEF PedidosInv, UnaRespuestaPorPedido, EsperanRespuesta, Esperan, Preguntas
    <2>3. Cardinality(Esperan(pc')) = Cardinality(Esperan(pc))
      BY <1>1
    <2>4. Cardinality(Preguntas(pedidos)) = Cardinality(Preguntas(pedidos')) + 1
      BY <1>1, PreguntaUnaMenos DEF PedidosInv, Tipado
    <2>5. Len(respuestas') = Len(respuestas) + 1
      BY <1>1, <1>3, AppendProperties DEF PedidosInv, Tipado
    <2>6. /\ Len(respuestas) \in Nat /\ Len(respuestas') \in Nat
          /\ Cardinality(Preguntas(pedidos)) \in Nat /\ Cardinality(Preguntas(pedidos')) \in Nat
          /\ Cardinality(Esperan(pc)) \in Nat /\ Cardinality(Esperan(pc')) \in Nat
      BY <1>11, LenProperties, EsperanFinito, PreguntasFinito DEF PedidosInv, Tipado
    <2>7. Cardinality(Esperan(pc')) = Cardinality(Preguntas(pedidos')) + Len(respuestas')
      BY <2>1, <2>3, <2>4, <2>5, <2>6
    <2> QED
      BY <2>7, Zenon DEF UnaRespuestaPorPedido, EsperanRespuesta, Esperan, Preguntas
  <1>16. ASSUME ~solapados' PROVE Sereno'
    <2>1. ~solapados /\ Sereno
      BY <1>1, <1>16 DEF PedidosInv
    <2>2. PICK h \in {"ready", "running"} :
             /\ EnVuelo(h) /\ EnOperacion(h) /\ Head(pedidos) = Solicitud(h)
             /\ respuestas = <<>> /\ pc[h] \in {"esperar", "leer", "leerTablas"}
      BY <1>1, <2>1, PedidoAtendido
    <2>3. h = "running" /\ ~Compacta /\ operacion = "DELETE_SEGMENT"
      <3>1. Op(h) = "DELETE_SEGMENT" /\ pc[h] # "leerTablas"
        BY <1>1, <2>2 DEF Solicitud, PideCompactar
      <3> QED
        BY <2>2, <3>1 DEF Compacta, Op
    <2>4. p = proceso["running"] /\ Head(pedidos).ID = 1
      BY <1>5, <2>2, <2>3 DEF Solicitud, Compacta, ID
    <2>5. Vivo(p)
      BY <2>2, <2>3, <2>4 DEF PedidosInv, Trabajos, EnOperacion, Vivo
    <2>6. diccionario_tablas[p] # <<>>
      <3>1. Tiene(diccionario_tablas[p], 0)
        BY <2>1, <2>5 DEF Sereno, TablasSerenas
      <3> QED
        BY <3>1, EmptySeq DEF Tiene
    <2>20. Responde(h, r)
      <3>1. \A q \in Procesos :
               /\ Tiene(diccionario_tablas[q], 0) => Tiene(diccionario_tablas'[q], 0)
               /\ q # p => diccionario_tablas'[q] = diccionario_tablas[q]
        BY <1>8, <1>9, <2>4
      <3> QED
        BY <1>1, <1>3, <1>8, <2>3, <2>4, <2>6, <3>1 DEF Responde, kernel, hilos, cuentas
    <2> QED
      BY <1>1, <1>3, <1>8, <1>9, <2>1, <2>2, <2>3, <2>4, <2>20, MemoriaContesta
  <1> QED
    BY <1>11, <1>12, <1>13, <1>14, <1>15, <1>16 DEF PedidosInv

LEMMA PasoBorrarAusente ==
    ASSUME PedidosInv, BorrarAusente
    PROVE  PedidosInv'
  <1>1. /\ ~caido /\ pedidos # <<>> /\ Head(pedidos).op = "DELETE_SEGMENT"
        /\ \A i \in DOMAIN diccionario_tablas[Head(pedidos).PID] :
              diccionario_tablas[Head(pedidos).PID][i].ID # Head(pedidos).ID
        /\ caido' = TRUE
        /\ estado' = estado /\ tieneSegmento' = tieneSegmento
        /\ tablaSegmentos' = tablaSegmentos /\ global_PCB_list' = global_PCB_list
        /\ mutexMemoria' = mutexMemoria /\ pc' = pc /\ proceso' = proceso
        /\ operacion' = operacion /\ flag' = flag /\ solapados' = solapados
        /\ pedidos' = pedidos /\ respuestas' = respuestas /\ leida' = leida
        /\ diccionario_tablas' = diccionario_tablas /\ compactaciones' = compactaciones
        /\ consolas' = consolas /\ hechos' = hechos
    BY DEF BorrarAusente, En, Va, Pasa, Entra, Envia, kernel, hilos, socket, memoria, cuentas,
           Atiende, PID
  <1>11. Tipado'
    BY <1>1 DEF PedidosInv, Tipado, Trabajos, Oficios, Estados, Sitios, Operaciones, Hilos
  <1>12. Trabajos'
    BY <1>1 DEF PedidosInv, Tipado, Trabajos, Operaciones, Oficios, Hilos
  <1>13. Turnos'
    BY <1>1 DEF PedidosInv, Tipado, Turnos, NADIE, Hilos
  <1>14. Programas'
    BY <1>1 DEF PedidosInv, Tipado, Trabajos, Programas, Hilos
  <1>15. UnaRespuestaPorPedido'
    BY <1>1 DEF PedidosInv, UnaRespuestaPorPedido, EsperanRespuesta
  <1>16. ASSUME ~solapados' PROVE Sereno'
    <2>1. ~solapados /\ Sereno
      BY <1>1, <1>16 DEF PedidosInv
    <2>2. PICK h \in {"ready", "running"} :
             /\ EnVuelo(h) /\ EnOperacion(h) /\ Head(pedidos) = Solicitud(h)
             /\ respuestas = <<>> /\ pc[h] \in {"esperar", "leer", "leerTablas"}
      BY <1>1, <2>1, PedidoAtendido
    <2>3. h = "running" /\ ~Compacta /\ operacion = "DELETE_SEGMENT"
      <3>1. Op(h) = "DELETE_SEGMENT" /\ pc[h] # "leerTablas"
        BY <1>1, <2>2 DEF Solicitud, PideCompactar
      <3> QED
        BY <2>2, <3>1 DEF Compacta, Op
    <2>4. Head(pedidos).PID = proceso["running"] /\ Head(pedidos).ID = 1
      BY <2>2, <2>3 DEF Solicitud, Compacta, ID
    <2>5. /\ proceso["running"] \in Procesos /\ estado[proceso["running"]] = "exec"
          /\ tieneSegmento[proceso["running"]]
      BY <2>2, <2>3 DEF PedidosInv, Trabajos, Programas, Hilos, EnOperacion
    <2>6. ~Hecho
      BY <2>2, <2>3 DEF Hecho, Contestado
    <2>7. Tiene(diccionario_tablas[proceso["running"]], 1)
      BY <2>1, <2>5, <2>6 DEF Sereno, SegmentosSerenos
    <2>8. /\ diccionario_tablas[proceso["running"]] \in Seq(Segmentos)
      BY <2>5 DEF PedidosInv, Tipado, Tablas
    <2>9. DOMAIN diccionario_tablas[proceso["running"]] =
              1 .. Len(diccionario_tablas[proceso["running"]])
      BY <2>8, LenProperties
    <2> QED
      BY <1>1, <2>4, <2>7, <2>9 DEF Tiene
  <1> QED
    BY <1>11, <1>12, <1>13, <1>14, <1>15, <1>16 DEF PedidosInv

LEMMA PasoBorrarTabla ==
    ASSUME PedidosInv, BorrarTabla
    PROVE  PedidosInv'
  <1>1. /\ ~caido /\ pedidos # <<>> /\ Head(pedidos).op = "EXIT"
        /\ diccionario_tablas' = [diccionario_tablas EXCEPT ![Head(pedidos).PID] = <<>>]
        /\ pedidos' = Tail(pedidos)
        /\ estado' = estado /\ tieneSegmento' = tieneSegmento
        /\ tablaSegmentos' = tablaSegmentos /\ global_PCB_list' = global_PCB_list
        /\ mutexMemoria' = mutexMemoria /\ pc' = pc /\ proceso' = proceso
        /\ operacion' = operacion /\ flag' = flag /\ solapados' = solapados
        /\ respuestas' = respuestas /\ leida' = leida /\ compactaciones' = compactaciones
        /\ consolas' = consolas /\ hechos' = hechos /\ caido' = caido
    BY DEF BorrarTabla, En, Va, Pasa, Entra, Envia, kernel, hilos, socket, memoria, cuentas,
           Atiende, NuevaTabla, PID
  <1>2. /\ diccionario_tablas'[Head(pedidos).PID] = <<>>
        /\ \A q \in Procesos \ {Head(pedidos).PID} : diccionario_tablas'[q] = diccionario_tablas[q]
    <2>1. pedidos \in Seq(Pedidos) /\ diccionario_tablas \in [Procesos -> Tablas]
      BY DEF PedidosInv, Tipado
    <2>2. Head(pedidos) \in Pedidos
      BY <1>1, <2>1, HeadTailProperties
    <2>3. Head(pedidos).PID \in Procesos
      BY <1>1, <2>2 DEF Pedidos
    <2> QED
      BY <1>1, <2>1, <2>3
  <1>4. /\ pedidos \in Seq(Pedidos) /\ Head(pedidos) \in Pedidos /\ pedidos' \in Seq(Pedidos)
        /\ diccionario_tablas \in [Procesos -> Tablas]
    <2>1. pedidos \in Seq(Pedidos) /\ diccionario_tablas \in [Procesos -> Tablas]
      BY DEF PedidosInv, Tipado
    <2> QED
      BY <1>1, <2>1, HeadTailProperties
  <1>5. PICK p \in Procesos : p = Head(pedidos).PID
    BY <1>1, <1>4 DEF Pedidos
  <1>6. <<>> \in Tablas
    BY EmptySeq DEF Tablas
  <1>7. /\ diccionario_tablas' \in [Procesos -> Tablas]
        /\ diccionario_tablas'[p] = <<>>
        /\ \A q \in Procesos \ {p} : diccionario_tablas'[q] = diccionario_tablas[q]
    BY <1>1, <1>4, <1>5, <1>6
  <1>11. Tipado'
    BY <1>1, <1>2, <1>4, <1>5, <1>7 DEF PedidosInv, Tipado, Trabajos, Oficios, Estados, Sitios,
           Operaciones, Hilos
  <1>12. Trabajos'
    BY <1>1, <1>2, <1>4, <1>5, <1>7 DEF PedidosInv, Tipado, Trabajos, Operaciones, Oficios, Hilos
  <1>13. Turnos'
    BY <1>1, <1>2, <1>4, <1>5, <1>7 DEF PedidosInv, Tipado, Turnos, NADIE, Hilos
  <1>14. Programas'
    BY <1>1, <1>2, <1>4, <1>5, <1>7 DEF PedidosInv, Tipado, Trabajos, Programas, Hilos
  <1>15. UnaRespuestaPorPedido'
    <2>1. Cardinality(Esperan(pc)) = Cardinality(Preguntas(pedidos)) + Len(respuestas)
      BY DEF PedidosInv, UnaRespuestaPorPedido, EsperanRespuesta, Esperan, Preguntas
    <2>3. Cardinality(Esperan(pc')) = Cardinality(Esperan(pc))
      BY <1>1
    <2>4. Cardinality(Preguntas(pedidos)) = Cardinality(Preguntas(pedidos'))
      <3>1. Cardinality(Preguntas(pedidos)) = Cardinality(Preguntas(Tail(pedidos))) + 0
        BY <1>1, PreguntaUnaMenos DEF PedidosInv, Tipado
      <3>2. Cardinality(Preguntas(pedidos')) \in Nat
        BY <1>4, PreguntasFinito
      <3> QED
        BY <1>1, <3>1, <3>2
    <2>5. Len(respuestas') = Len(respuestas)
      BY <1>1
    <2>6. /\ Len(respuestas) \in Nat /\ Len(respuestas') \in Nat
          /\ Cardinality(Preguntas(pedidos)) \in Nat /\ Cardinality(Preguntas(pedidos')) \in Nat
          /\ Cardinality(Esperan(pc)) \in Nat /\ Cardinality(Esperan(pc')) \in Nat
      BY <1>11, LenProperties, EsperanFinito, PreguntasFinito DEF PedidosInv, Tipado
    <2>7. Cardinality(Esperan(pc')) = Cardinality(Preguntas(pedidos')) + Len(respuestas')
      BY <2>1, <2>3, <2>4, <2>5, <2>6
    <2> QED
      BY <2>7, Zenon DEF UnaRespuestaPorPedido, EsperanRespuesta, Esperan, Preguntas
  <1>16. ASSUME ~solapados' PROVE Sereno'
    <2>1. ~solapados /\ Sereno
      BY <1>1, <1>2, <1>4, <1>5, <1>7, <1>16 DEF PedidosInv
    <2>20. /\ Len(pedidos') = Len(pedidos) - 1 /\ Len(pedidos) \in Nat \ {0}
           /\ pedidos[1] = Head(pedidos)
           /\ \A i \in 1 .. Len(pedidos') : pedidos'[i] = pedidos[i + 1]
           /\ pedidos'# <<>> => Len(pedidos') \in Nat \ {0}
           /\ \A q \in Procesos : HayExit(pedidos', q) => HayExit(pedidos, q)
           /\ \A q \in Procesos \ {p} : HayExit(pedidos, q) => HayExit(pedidos', q)
           /\ HayExit(pedidos, p)
      <3>1. PICK corta : corta = pedidos'
        OBVIOUS
      <3>2. corta = Tail(pedidos) /\ pedidos # <<>>
        BY <1>1, <3>1
      <3>3. /\ Len(corta) = Len(pedidos) - 1 /\ Len(pedidos) \in Nat \ {0}
            /\ pedidos[1] = Head(pedidos) /\ corta \in Seq(Pedidos)
            /\ \A i \in 1 .. Len(corta) : corta[i] = pedidos[i + 1]
        BY <1>4, <3>2, UnMensajeMenos
      <3>4. ASSUME NEW q \in Procesos, HayExit(corta, q) PROVE HayExit(pedidos, q)
        BY <1>4, <3>2, <3>4, UnMensajeMenos
      <3>5. ASSUME NEW q \in Procesos \ {p}, HayExit(pedidos, q) PROVE HayExit(corta, q)
        <4>1. q \in Procesos /\ Head(pedidos).PID # q
          BY <1>5, <3>5
        <4> QED
          BY <1>4, <3>2, <3>5, <4>1, UnMensajeMenos
      <3>6. HayExit(pedidos, p)
        BY <1>1, <1>4, <1>5, <3>2, UnMensajeMenos
      <3>7. corta # <<>> => Len(corta) \in Nat \ {0}
        BY <3>3, EmptySeq
      <3> QED
        BY <3>1, <3>3, <3>4, <3>5, <3>6, <3>7
    <2>21. respuestas = <<>> /\ \A g \in Hilos : ~Contestado(g) /\ ~Contestado(g)'
      <3>1. \A g \in Hilos : ~Contestado(g)
        BY <1>1, <2>1 DEF Sereno, SocketOrdenado
      <3> QED
        BY <1>1, <2>1, <3>1 DEF Sereno, SocketOrdenado, Contestado, Espera
    <2>2. ~caido'
      BY <1>1, <1>2, <1>4, <1>5, <1>7, <2>1, <2>20, <2>21 DEF Sereno
    <2>3. UnaSolaOperacion'
      BY <1>1, <1>2, <1>4, <1>5, <1>7, <2>1, <2>20, <2>21 DEF Sereno, UnaSolaOperacion,
             EnOperacion, Hilos
    <2>4. SocketOrdenado'
      <3>1. ASSUME NEW g \in Hilos, EnVuelo(g)'
            PROVE  pedidos' # <<>> /\ pedidos'[Len(pedidos')] = Solicitud(g)'
        <4>1. EnVuelo(g)
          BY <1>1, <3>1 DEF EnVuelo, Espera
        <4>2. pedidos[Len(pedidos)] = Solicitud(g) /\ Solicitud(g).op # "EXIT"
          BY <2>1, <4>1
             DEF Sereno, SocketOrdenado, Solicitud, PideCompactar, Op, EnVuelo, Espera,
                 PedidosInv, Trabajos, Operaciones, Hilos
        <4>3. Len(pedidos) # 1
          BY <1>1, <2>20, <4>2
        <4>4. pedidos' # <<>> /\ pedidos'[Len(pedidos')] = pedidos[Len(pedidos)]
          BY <2>20, <4>3, EmptySeq
        <4> QED
          BY <1>1, <4>2, <4>4 DEF Solicitud, Op, ID
      <3>2. ASSUME NEW i \in 1 .. Len(pedidos'), pedidos'[i].op # "EXIT"
            PROVE  i = Len(pedidos') /\ \E g \in Hilos : EnVuelo(g)'
        <4>1. i + 1 \in 1 .. Len(pedidos) /\ pedidos[i + 1].op # "EXIT"
          BY <2>20, <3>2
        <4>2. i + 1 = Len(pedidos) /\ \E g \in Hilos : EnVuelo(g)
          BY <2>1, <4>1 DEF Sereno, SocketOrdenado
        <4>3. \E g \in Hilos : EnVuelo(g)'
          BY <1>1, <4>2 DEF EnVuelo, Espera
        <4>4. i = Len(pedidos')
          BY <2>20, <4>2
        <4> QED
          BY <4>3, <4>4
      <3> QED
        BY <1>1, <2>21, <3>1, <3>2 DEF SocketOrdenado, Contestado
    <2>5. TablasSerenas'
      <3>1. ASSUME NEW q \in Procesos
            PROVE  /\ Vivo(q)' <=> Vivo(q)
                   /\ SinTabla(q)' => SinTabla(q)
                   /\ ~Desfasado(q) /\ ~Desfasado(q)'
        BY <1>1, <2>21
           DEF Vivo, SinTabla, Desfasado, EnVuelo, Contestado, Espera, Hilos
      <3>2. ASSUME NEW q \in Procesos, Vivo(q)
            PROVE  /\ q \in global_PCB_list /\ Tiene(diccionario_tablas'[q], 0)
                   /\ ~HayExit(pedidos', q) /\ tablaSegmentos[q] = diccionario_tablas'[q]
        <4>1. /\ q \in global_PCB_list /\ Tiene(diccionario_tablas[q], 0) /\ ~HayExit(pedidos, q)
              /\ tablaSegmentos[q] = diccionario_tablas[q]
          BY <2>1, <3>1, <3>2 DEF Sereno, TablasSerenas, Pendiente
        <4>2. q # p
          BY <2>20, <4>1
        <4> QED
          BY <1>7, <2>20, <4>1, <4>2
      <3>3. ASSUME NEW q \in Procesos, SinTabla(q)
            PROVE  HayExit(pedidos', q) \/ diccionario_tablas'[q] = <<>>
        <4>1. CASE q = p
          BY <1>7, <4>1
        <4>2. CASE q # p
          BY <1>7, <2>1, <2>20, <3>3, <4>2 DEF Sereno, TablasSerenas, Pendiente
        <4> QED
          BY <4>1, <4>2
      <3>4. pc["exit"] = "avisar" => ~HayExit(pedidos', proceso["exit"])
        <4> SUFFICES ASSUME pc["exit"] = "avisar" PROVE ~HayExit(pedidos', proceso["exit"])
          OBVIOUS
        <4>1. proceso["exit"] \in Procesos /\ ~HayExit(pedidos, proceso["exit"])
          BY <2>1 DEF PedidosInv, Trabajos, Hilos, Sereno, TablasSerenas, Pendiente
        <4> QED
          BY <2>20, <4>1
      <3>5. pc["ready"] = "agregar" =>
               /\ ~HayExit(pedidos', proceso["ready"])
               /\ Tiene(diccionario_tablas'[proceso["ready"]], 0)
               /\ tablaSegmentos[proceso["ready"]] = diccionario_tablas'[proceso["ready"]]
        <4> SUFFICES ASSUME pc["ready"] = "agregar"
                     PROVE  /\ ~HayExit(pedidos', proceso["ready"])
                            /\ diccionario_tablas'[proceso["ready"]] =
                                   diccionario_tablas[proceso["ready"]]
          BY <2>1 DEF Sereno, TablasSerenas
        <4>1. proceso["ready"] \in Procesos /\ ~HayExit(pedidos, proceso["ready"])
          BY <2>1 DEF PedidosInv, Trabajos, Hilos, Sereno, TablasSerenas, Pendiente
        <4>2. proceso["ready"] # p
          BY <2>20, <4>1
        <4> QED
          BY <1>7, <2>20, <4>1, <4>2
      <3> QED
        BY <1>1, <3>1, <3>2, <3>3, <3>4, <3>5 DEF TablasSerenas, Pendiente
    <2>6. RespuestaSerena'
      BY <1>1, <1>2, <1>4, <1>5, <1>7, <2>1, <2>20, <2>21 DEF PedidosInv, Tipado, Oficios,
             Trabajos, Sereno, UnaSolaOperacion, EnOperacion, RespuestaSerena, Compacta, EnVuelo,
             Contestado, Espera, Hilos
    <2>7. SegmentosSerenos'
      <3>1. ASSUME NEW q \in Procesos, Vivo(q) PROVE diccionario_tablas'[q] = diccionario_tablas[q]
        <4>1. q # p
          BY <2>1, <2>20, <3>1 DEF Sereno, TablasSerenas, Pendiente
        <4> QED
          BY <1>7, <4>1
      <3>2. Hecho' <=> Hecho
        BY <1>1 DEF Hecho, Contestado, Espera
      <3>3. pc["running"] # "libre" => /\ proceso["running"] \in Procesos
                                       /\ diccionario_tablas'[proceso["running"]] =
                                              diccionario_tablas[proceso["running"]]
        BY <3>1 DEF PedidosInv, Trabajos, Vivo, Hilos
      <3>4. \A q \in Procesos : estado[q] \in {"ready", "exec"} /\ tieneSegmento[q] =>
               \/ Tiene(diccionario_tablas'[q], 1)
               \/ pc["running"] # "libre" /\ q = proceso["running"] /\ Hecho
        BY <2>1, <3>1 DEF Sereno, SegmentosSerenos, Vivo
      <3>5. ~Contestado("running") /\ ~Contestado("running")'
        BY <1>1, <2>21 DEF Contestado, Espera, Hilos
      <3> QED
        BY <1>1, <2>1, <3>2, <3>3, <3>4, <3>5 DEF Sereno, SegmentosSerenos
    <2> QED
      BY <2>2, <2>3, <2>4, <2>5, <2>6, <2>7 DEF Sereno
  <1> QED
    BY <1>11, <1>12, <1>13, <1>14, <1>15, <1>16 DEF PedidosInv

LEMMA PasoCompactar ==
    ASSUME PedidosInv, Compactar
    PROVE  PedidosInv'
  <1>1. /\ ~caido /\ pedidos # <<>> /\ Head(pedidos).op = "COMPACTION"
        /\ compactaciones < MAX_COMPACTACIONES
        /\ respuestas' = Append(respuestas, [flag |-> PAQUETE, tabla |-> Basura,
                                          tablas |-> diccionario_tablas'])
        /\ diccionario_tablas' = [p \in Procesos |-> Movida(diccionario_tablas[p])]
        /\ pedidos' = Tail(pedidos)
        /\ compactaciones' = compactaciones + 1
        /\ estado' = estado /\ tieneSegmento' = tieneSegmento
        /\ tablaSegmentos' = tablaSegmentos /\ global_PCB_list' = global_PCB_list
        /\ mutexMemoria' = mutexMemoria /\ pc' = pc /\ proceso' = proceso
        /\ operacion' = operacion /\ flag' = flag /\ solapados' = solapados /\ leida' = leida
        /\ consolas' = consolas /\ hechos' = hechos /\ caido' = caido
    BY DEF Compactar, En, Va, Pasa, Entra, Envia, kernel, hilos, socket, memoria, cuentas,
           Atiende, Contesta
  <1>4. /\ pedidos \in Seq(Pedidos) /\ respuestas \in Seq(Respuestas)
        /\ Head(pedidos) \in Pedidos /\ pedidos' \in Seq(Pedidos)
        /\ diccionario_tablas \in [Procesos -> Tablas]
        /\ compactaciones \in 0 .. MAX_COMPACTACIONES
    <2>1. pedidos \in Seq(Pedidos) /\ respuestas \in Seq(Respuestas)
          /\ diccionario_tablas \in [Procesos -> Tablas]
          /\ compactaciones \in 0 .. MAX_COMPACTACIONES
      BY DEF PedidosInv, Tipado
    <2> QED
      BY <1>1, <2>1, HeadTailProperties
  <1>5. \A q \in Procesos :
           /\ diccionario_tablas'[q] = Movida(diccionario_tablas[q])
           /\ Movida(diccionario_tablas[q]) \in Tablas
           /\ Tiene(diccionario_tablas[q], 0) => Tiene(diccionario_tablas'[q], 0)
           /\ Tiene(diccionario_tablas[q], 1) => Tiene(diccionario_tablas'[q], 1)
           /\ diccionario_tablas[q] = <<>> => diccionario_tablas'[q] = <<>>
    BY <1>1, <1>4, TablaMovida
  <1>6. diccionario_tablas' \in [Procesos -> Tablas]
    BY <1>1, <1>5
  <1>3. PICK r \in Respuestas : /\ r.flag = PAQUETE /\ r.tablas = diccionario_tablas'
                                /\ respuestas' = Append(respuestas, r)
    <2>1. Basura \in Tablas
      <3>1. [ID |-> -1, de |-> NADIE, vez |-> 0] \in Segmentos
        BY PedidosMemoriaAssumption DEF Segmentos, NADIE
      <3>2. Basura = Append(<<>>, [ID |-> -1, de |-> NADIE, vez |-> 0])
        BY DEF Basura
      <3>3. <<>> \in Tablas
        BY EmptySeq DEF Tablas
      <3> QED
        BY <3>1, <3>2, <3>3, TablaConUnoMas
    <2>2. [flag |-> PAQUETE, tabla |-> Basura, tablas |-> diccionario_tablas'] \in Respuestas
      BY <1>6, <2>1 DEF Respuestas, Flags
    <2> QED
      BY <1>1, <2>2
  <1>7. /\ respuestas' # <<>> /\ respuestas' \in Seq(Respuestas)
        /\ respuestas # <<>> => Head(respuestas') = Head(respuestas)
    <2>1. PICK larga : larga = respuestas'
      OBVIOUS
    <2>2. larga = Append(respuestas, r)
      BY <1>3, <2>1
    <2>3. /\ larga # <<>> /\ larga \in Seq(Respuestas)
          /\ respuestas # <<>> => Head(larga) = Head(respuestas)
      BY <1>3, <1>4, <2>2, CabezaQueda
    <2> QED
      BY <2>1, <2>3
  <1>8. compactaciones' \in 0 .. MAX_COMPACTACIONES
    BY <1>1, <1>4, PedidosMemoriaAssumption
  <1>11. Tipado'
    BY <1>1, <1>3, <1>4, <1>6, <1>7, <1>8 DEF PedidosInv, Tipado, Trabajos, Oficios, Estados,
           Sitios, Operaciones, Hilos
  <1>12. Trabajos'
    BY <1>1, <1>3, <1>4, <1>6, <1>7, <1>8 DEF PedidosInv, Tipado, Trabajos, Operaciones, Oficios,
           Hilos
  <1>13. Turnos'
    BY <1>1, <1>3, <1>4, <1>6, <1>7, <1>8 DEF PedidosInv, Tipado, Turnos, NADIE, Hilos
  <1>14. Programas'
    BY <1>1, <1>3, <1>4, <1>6, <1>7, <1>8 DEF PedidosInv, Tipado, Trabajos, Programas, Hilos
  <1>15. UnaRespuestaPorPedido'
    <2>1. Cardinality(Esperan(pc)) = Cardinality(Preguntas(pedidos)) + Len(respuestas)
      BY DEF PedidosInv, UnaRespuestaPorPedido, EsperanRespuesta, Esperan, Preguntas
    <2>3. Cardinality(Esperan(pc')) = Cardinality(Esperan(pc))
      BY <1>1
    <2>4. Cardinality(Preguntas(pedidos)) = Cardinality(Preguntas(pedidos')) + 1
      BY <1>1, PreguntaUnaMenos DEF PedidosInv, Tipado
    <2>5. Len(respuestas') = Len(respuestas) + 1
      BY <1>1, <1>3, AppendProperties DEF PedidosInv, Tipado
    <2>6. /\ Len(respuestas) \in Nat /\ Len(respuestas') \in Nat
          /\ Cardinality(Preguntas(pedidos)) \in Nat /\ Cardinality(Preguntas(pedidos')) \in Nat
          /\ Cardinality(Esperan(pc)) \in Nat /\ Cardinality(Esperan(pc')) \in Nat
      BY <1>11, LenProperties, EsperanFinito, PreguntasFinito DEF PedidosInv, Tipado
    <2>7. Cardinality(Esperan(pc')) = Cardinality(Preguntas(pedidos')) + Len(respuestas')
      BY <2>1, <2>3, <2>4, <2>5, <2>6
    <2> QED
      BY <2>7, Zenon DEF UnaRespuestaPorPedido, EsperanRespuesta, Esperan, Preguntas
  <1>16. ASSUME ~solapados' PROVE Sereno'
    <2>1. ~solapados /\ Sereno
      BY <1>1, <1>16 DEF PedidosInv
    <2>2. PICK h \in {"ready", "running"} :
             /\ EnVuelo(h) /\ EnOperacion(h) /\ Head(pedidos) = Solicitud(h)
             /\ respuestas = <<>> /\ pc[h] \in {"esperar", "leer", "leerTablas"}
      BY <1>1, <2>1, PedidoAtendido
    <2>3. h = "running" /\ Compacta
      <3>1. Op(h) \in Operaciones
        BY <2>2, TrabajaParaAlguien
      <3>2. pc[h] = "leerTablas"
        BY <1>1, <2>2, <3>1 DEF Solicitud, Operaciones
      <3> QED
        BY <2>2, <3>2 DEF Compacta, PedidosInv, Tipado, Oficios
    <2>20. Responde(h, r)
      BY <1>1, <1>3, <1>5, <1>6, <2>3 DEF Responde, kernel, hilos, cuentas
    <2> QED
      BY <1>1, <1>3, <2>1, <2>2, <2>3, <2>20, MemoriaContesta
  <1> QED
    BY <1>11, <1>12, <1>13, <1>14, <1>15, <1>16 DEF PedidosInv

-----------------------------------------------------------------------------
(* The theorems *)

LEMMA InvAlInicio == Init => PedidosInv
  <1> SUFFICES ASSUME Init PROVE PedidosInv
    OBVIOUS
  <1>1. <<>> \in Tablas /\ <<>> \in Seq(Pedidos) /\ <<>> \in Seq(Respuestas)
    BY EmptySeq DEF Tablas
  <1>2. Tipado
    <2>1. estado \in [Procesos -> Estados] /\ tieneSegmento \in [Procesos -> BOOLEAN]
      BY DEF Init, Estados
    <2>2. /\ tablaSegmentos \in [Procesos -> Tablas] /\ global_PCB_list \subseteq Procesos
          /\ diccionario_tablas \in [Procesos -> Tablas]
      BY <1>1 DEF Init
    <2>3. pc \in [Hilos -> Sitios] /\ Oficios
      BY DEF Init, Sitios, Oficios, Hilos
    <2>4. proceso \in [Hilos -> Procesos \cup {NADIE}]
      BY DEF Init
    <2>5. /\ mutexMemoria \in Hilos \cup {NADIE} /\ leida \in Hilos \cup {NADIE}
          /\ operacion \in Operaciones \cup {"nada"} /\ flag \in Flags
          /\ caido \in BOOLEAN /\ solapados \in BOOLEAN
      BY DEF Init, Flags
    <2>6. pedidos \in Seq(Pedidos) /\ respuestas \in Seq(Respuestas)
      BY <1>1 DEF Init
    <2>7. /\ compactaciones \in 0 .. MAX_COMPACTACIONES
          /\ consolas \in 0 .. MAX_CONSOLAS /\ hechos \in 0 .. MAX_PEDIDOS
      BY PedidosMemoriaAssumption DEF Init
    <2> QED
      BY <2>1, <2>2, <2>3, <2>4, <2>5, <2>6, <2>7 DEF Tipado
  <1>3. Trabajos /\ Turnos /\ Programas
    BY DEF Init, Trabajos, Turnos, Programas, Hilos, NADIE
  <1>4. UnaRespuestaPorPedido
    <2>1. EsperanRespuesta = {} /\ {i \in DOMAIN pedidos : pedidos[i].op # "EXIT"} = {}
      <3>1. DOMAIN pedidos = {}
        BY <1>1, LenProperties, EmptySeq DEF Init
      <3> QED
        BY <3>1 DEF Init, EsperanRespuesta
    <2>2. Cardinality({}) = 0 /\ Len(respuestas) = 0
      BY FS_EmptySet, EmptySeq DEF Init
    <2>3. Cardinality(EsperanRespuesta) = 0
      BY <2>1, <2>2, Zenon
    <2>4. Cardinality({i \in DOMAIN pedidos : pedidos[i].op # "EXIT"}) = 0
      BY <2>1, <2>2, Zenon
    <2> QED
      BY <2>2, <2>3, <2>4 DEF UnaRespuestaPorPedido
  <1>5. Sereno
    <2>1. /\ \A h \in Hilos : pc[h] = "libre" /\ ~EnVuelo(h) /\ ~Contestado(h) /\ ~EnOperacion(h)
          /\ Len(pedidos) = 0 /\ Len(respuestas) = 0
          /\ \A p \in Procesos : estado[p] = "cerrado" /\ diccionario_tablas[p] = <<>>
      BY EmptySeq DEF Init, EnVuelo, Contestado, Espera, EnOperacion
    <2> QED
      BY <2>1 DEF Init, Sereno, UnaSolaOperacion, SocketOrdenado, TablasSerenas, RespuestaSerena,
             SegmentosSerenos, Vivo, Hilos
  <1> QED
    BY <1>2, <1>3, <1>4, <1>5 DEF PedidosInv

LEMMA InvEnUnPaso == PedidosInv /\ [Next]_vars => PedidosInv'
  <1> SUFFICES ASSUME PedidosInv, [Next]_vars PROVE PedidosInv'
    OBVIOUS
  <1>1. CASE \E p \in Procesos : \/ Conectar(p) \/ Despachar(p) \/ Devolver(p)
                                 \/ PedirSegmento(p) \/ Admitir(p) \/ Quitar(p)
    BY <1>1, PasoConectar, PasoDespachar, PasoDevolver, PasoPedirSegmento, PasoAdmitir, PasoQuitar
  <1>2. CASE \E h \in {"ready", "running"} :
                Pedir(h) \/ TomarMutex(h) \/ LeerOperacion(h) \/ LeerMitad(h) \/ LeerTabla(h)
    BY <1>2, PasoPedir, PasoTomarMutex, PasoLeerOperacion, PasoLeerMitad, PasoLeerTabla
  <1>3. CASE Agregar \/ Decidir \/ PedirCompactacion \/ LeerTablas \/ LeerTablasSinPCB
    BY <1>3, PasoAgregar, PasoDecidir, PasoPedirCompactacion, PasoLeerTablas,
       PasoLeerTablasSinPCB
  <1>4. CASE Avisar \/ Cerrar
    BY <1>4, PasoAvisar, PasoCerrar
  <1>5. CASE CrearTabla \/ CrearSegmento \/ BorrarSegmento
    BY <1>5, PasoCrearTabla, PasoCrearSegmento, PasoBorrarSegmento
  <1>6. CASE BorrarAusente \/ BorrarTabla \/ Compactar
    BY <1>6, PasoBorrarAusente, PasoBorrarTabla, PasoCompactar
  <1>7. CASE UNCHANGED vars
    <2>1. /\ estado' = estado /\ tieneSegmento' = tieneSegmento /\ pc' = pc
          /\ tablaSegmentos' = tablaSegmentos /\ global_PCB_list' = global_PCB_list
          /\ mutexMemoria' = mutexMemoria /\ proceso' = proceso /\ operacion' = operacion
          /\ flag' = flag /\ solapados' = solapados /\ pedidos' = pedidos /\ caido' = caido
          /\ respuestas' = respuestas /\ leida' = leida /\ hechos' = hechos
          /\ diccionario_tablas' = diccionario_tablas /\ consolas' = consolas
          /\ compactaciones' = compactaciones
      BY <1>7 DEF vars, kernel, hilos, socket, memoria, cuentas
    <2> QED
      BY <2>1
         DEF PedidosInv, Tipado, Oficios, Trabajos, Turnos, Programas, UnaRespuestaPorPedido,
             EsperanRespuesta, Sereno, UnaSolaOperacion, EnOperacion, SocketOrdenado,
             TablasSerenas, RespuestaSerena, SegmentosSerenos, Espera, EnVuelo, Contestado,
             Solicitud, Op, ID, Vivo, Pendiente, SinTabla, Compacta, Desfasado, Hecho
  <1> QED
    BY <1>1, <1>2, <1>3, <1>4, <1>5, <1>6, <1>7 DEF Next

THEOREM InvSiempre == Spec => []PedidosInv
  BY InvAlInicio, InvEnUnPaso, PTL DEF Spec

\* Every variable of the dialogue keeps its type, and mutexMemoria is held exactly by the
\* thread that reads a table (sem_wait and sem_post around recv_tabla_segmentos).
THEOREM Tipos == Spec => []TypeOK
  <1>1. PedidosInv => TypeOK
    <2> SUFFICES ASSUME PedidosInv PROVE TypeOK
      OBVIOUS
    <2>1. {h \in Hilos : pc[h] \in {"leer", "leerBuffer"}} =
              (IF mutexMemoria = NADIE THEN {} ELSE {mutexMemoria})
      BY DEF PedidosInv, Tipado, Turnos, Hilos, NADIE
    <2>2. \A i \in DOMAIN respuestas : respuestas[i].flag \in Flags
      <3>1. \A i \in DOMAIN respuestas : respuestas[i] \in Respuestas
        BY LenProperties, ElementOfSeq DEF PedidosInv, Tipado
      <3> QED
        BY <3>1 DEF Respuestas
    <2> QED
      BY <2>1, <2>2 DEF PedidosInv, Tipado, TypeOK, Estados, Tablas
  <1> QED
    BY <1>1, InvSiempre, PTL

\* Whatever the threads of the kernel interleave, there is one reply on its way for each
\* thread that waits: pedirTablaSegmentosInicial, create_segment, delete_segment and
\* compaction_manager may take the reply of one another, but none is left without any.
THEOREM SiempreUnaRespuesta == Spec => []UnaRespuestaPorPedido
  <1>1. PedidosInv => UnaRespuestaPorPedido
    BY DEF PedidosInv
  <1> QED
    BY <1>1, InvSiempre, PTL

\* As long as no two threads of the kernel have been inside their operations at once, the
\* table in a PCB is the one that the memory has (recibir_tablas_compactadas and
\* recv_tabla_segmentos), and neither program falls.
THEOREM TablasSiempreAlDia == Spec => []TablasAlDia
  <1>1. PedidosInv => TablasAlDia
    <2> SUFFICES ASSUME PedidosInv, ~solapados PROVE TablasIguales /\ ~caido
      BY DEF TablasAlDia
    <2>1. Sereno
      BY DEF PedidosInv
    <2>2. pc["running"] = "libre" => ~Contestado("running")
      BY DEF Contestado, Espera
    <2>3. TablasIguales
      BY <2>1, <2>2 DEF TablasIguales, Sereno, TablasSerenas, Vivo, Desfasado
    <2> QED
      BY <2>1, <2>3 DEF Sereno
  <1> QED
    BY <1>1, InvSiempre, PTL
=============================================================================
