------------------------------ MODULE Archivos ------------------------------
(***************************************************************************)
(* The open files of Kernel/src/kernel.h: the global table (GDT), one     *)
(* queue of PCBs per open file (diccionario_colas_archivos) and the table *)
(* of each PCB.  Two threads change them with no lock: operarFS ("fs"),   *)
(* which serves the file calls, and gestionadorExit ("exit"), which closes*)
(* the files of a process that ends.  A step is one call on a list or     *)
(* dictionary that both reach; what only one of them reaches is changed   *)
(* with it.                                                               *)
(*                                                                        *)
(* Objects that the code frees are the domains of `descriptores` and      *)
(* `colas`: a pointer is an identity, and the use of one that is NULL or  *)
(* was freed ends the kernel, `caido`.  Which process of READY runs is    *)
(* the subject of Planificador: here, any.  The file system answers 1 to  *)
(* every F_OPEN, as it does.                                              *)
(***************************************************************************)
EXTENDS Integers, Sequences, FiniteSets, SequencesExt

CONSTANTS Procesos,
          Escenarios   \* the kinds of programs considered

NINGUNO == "ninguno"
NULL == 0

\* Whether programs close what they open (see Permitida), the names of the files, in the order
\* such programs open them, and the bound on the file calls of each process.
ASSUME ArchivosAssumption ==
    /\ IsFiniteSet(Procesos) /\ NINGUNO \notin Procesos
    /\ \A e \in Escenarios :
          /\ e.cierran \in BOOLEAN
          /\ e.nombres \subseteq Nat
          /\ e.llamadas \in [Procesos -> Nat]

VARIABLES
    escenario, restantes,          \* calls that each process may still make
    consolasReady,                 \* the processes in READY
    consolasBlocked, consolasExit,
    terminados,
    descriptores,                  \* identity -> Descriptor
    GDT,                           \* the descriptors of the open files
    colas,                         \* identity -> queue of PCBs
    diccionario_colas_archivos,    \* name -> the identity of its queue
    tablaArchivos,                 \* process -> its descriptors, the last opened first
    posicionados,                  \* history: <<p, n>>, p did F_SEEK on n since it opened it
    pc, descr, cola,               \* per thread: where it is, its descriptor and queue
    un_nodo, exitPCB,              \* the call operarFS serves, the process that ends
    caido

programa == <<escenario, restantes>>
listas == <<consolasBlocked, consolasExit, terminados>>
archivos == <<descriptores, GDT, colas, diccionario_colas_archivos, tablaArchivos, posicionados>>
locales == <<un_nodo, exitPCB, descr, cola>>
vars == <<programa, consolasReady, listas, archivos, pc, locales, caido>>

Hilos == {"fs", "exit"}
\* F_READ stands for F_WRITE too: process_fread and process_fwrite do the same here.
Operaciones == {"F_OPEN", "F_CLOSE", "F_SEEK", "F_READ", "F_TRUNCATE"}

\* A BlockedNode.
Nodo == [un_pcb : Procesos, cod_op : Operaciones, archivo : escenario.nombres]
SinNodo == [un_pcb |-> NINGUNO, cod_op |-> NINGUNO, archivo |-> NULL]

Init ==
    /\ escenario \in Escenarios /\ restantes = escenario.llamadas
    /\ consolasReady = Procesos /\ consolasBlocked = <<>> /\ consolasExit = <<>>
    /\ terminados = {}
    /\ descriptores = <<>> /\ GDT = <<>> /\ colas = <<>> /\ diccionario_colas_archivos = <<>>
    /\ tablaArchivos = [p \in Procesos |-> <<>>]
    /\ posicionados = {}
    /\ pc = [t \in Hilos |-> "tomar"]
    /\ un_nodo = SinNodo /\ exitPCB = NINGUNO
    /\ descr = [t \in Hilos |-> NULL] /\ cola = [t \in Hilos |-> NULL]
    /\ caido = FALSE

Va(t, desde, hasta) == ~caido /\ pc[t] = desde /\ pc' = [pc EXCEPT ![t] = hasta]

Cae ==
    /\ ~caido
    /\ caido' = TRUE
    /\ UNCHANGED <<programa, consolasReady, listas, archivos, pc, locales>>

\* list_find by name.
Hallados(l, n) == {d \in Range(l) \cap DOMAIN descriptores : descriptores[d].file_name = n}
Busca(l, n) == IF Hallados(l, n) = {} THEN NULL ELSE CHOOSE d \in Hallados(l, n) : TRUE

\* malloc: an identity that nothing refers to any more.
Fresco(usados) == CHOOSE n \in 1 .. Cardinality(usados) + 1 : n \notin usados
DescriptorNuevo ==
    Fresco(DOMAIN descriptores \cup {descr[t] : t \in Hilos}
             \cup UNION {Range(tablaArchivos[p]) : p \in Procesos})
ColaNueva == Fresco(DOMAIN colas \cup {cola[t] : t \in Hilos})

\* The function f with the value v for the key k, which it may have or not.
Con(f, k, v) == [x \in DOMAIN f \cup {k} |-> IF x = k THEN v ELSE f[x]]

Nombre(t) == descriptores[descr[t]].file_name

\* operarFS has a call of operation op to take from consolasBlocked ...
Llega(op) == pc["fs"] = "tomar" /\ consolasBlocked # <<>> /\ Head(consolasBlocked).cod_op = op
Llamada == Head(consolasBlocked)

\* ... and takes it.
Atiende(hasta) ==
    /\ Va("fs", "tomar", hasta)
    /\ consolasBlocked' = Tail(consolasBlocked)
-----------------------------------------------------------------------------
(* Faulty variants: slips in the code that the properties below must catch *)

\* The name stays in the dictionary.
LibClave_SinQuitar(t) ==
    /\ Va(t, "lib_clave", "lib_destruir")
    /\ UNCHANGED <<programa, consolasReady, listas, archivos, locales, caido>>

\* A process that finds the file open goes on instead of waiting.
AbrirEncolar_Sigue ==
    /\ Va("fs", "abrir_encolar", "tomar")
    /\ consolasReady' = consolasReady \cup {un_nodo.un_pcb}
    /\ un_nodo' = SinNodo
    /\ cola' = [cola EXCEPT !["fs"] = NULL]
    /\ UNCHANGED <<programa, listas, archivos, exitPCB, descr, caido>>

\* F_SEEK takes the descriptor from the GDT, as F_READ does.
Posicionar_DeGDT ==
    /\ Llega("F_SEEK") /\ Busca(GDT, Llamada.archivo) # NULL
    /\ Atiende("tomar")
    /\ LET p == Llamada.un_pcb
           d == Busca(GDT, Llamada.archivo)
       IN  /\ descriptores' = [descriptores EXCEPT ![d].pointer = p]
           /\ posicionados' = posicionados \cup {<<p, Llamada.archivo>>}
           /\ consolasReady' = consolasReady \cup {p}
    /\ UNCHANGED <<programa, consolasExit, terminados, GDT, colas, diccionario_colas_archivos,
                   tablaArchivos, locales, caido>>

\* `<= 1` for list_is_empty: the last that waits is forgotten.
LibVacia_HastaUno(t) ==
    /\ cola[t] \in DOMAIN colas
    /\ Va(t, "lib_vacia", IF Len(colas[cola[t]]) <= 1 THEN "lib_gdt" ELSE "lib_quitar")
    /\ UNCHANGED <<programa, consolasReady, listas, archivos, locales, caido>>

\* Who waits is taken out of the queue, and not added to READY.
LibQuitar_SinReady(t) ==
    /\ Va(t, "lib_quitar", IF t = "fs" THEN "tomar" ELSE "siguiente")
    /\ colas' = [colas EXCEPT ![cola[t]] = Tail(@)]
    /\ descr' = [descr EXCEPT ![t] = NULL] /\ cola' = [cola EXCEPT ![t] = NULL]
    /\ UNCHANGED <<programa, consolasReady, listas, descriptores, GDT, diccionario_colas_archivos,
                   tablaArchivos, posicionados, un_nodo, exitPCB, caido>>
-----------------------------------------------------------------------------
(* The programs, as far as files go *)

Abiertos(p) == {descriptores[d].file_name :
                    d \in Range(tablaArchivos[p]) \cap DOMAIN descriptores}

\* Any call on any file; or a program that opens the files in their order, uses those it has
\* open, closes them before it ends and truncates none (a truncation may end it).
Permitida(p, op, n) ==
    escenario.cierran =>
        LET reserva == Len(tablaArchivos[p])
        IN  CASE op = "F_OPEN" -> /\ \A m \in Abiertos(p) : m < n
                                  /\ restantes[p] > reserva + 1
              [] op = "F_CLOSE" -> n \in Abiertos(p)
              [] op = "F_TRUNCATE" -> FALSE
              [] OTHER -> n \in Abiertos(p) /\ restantes[p] > reserva

\* recieves_filesystem_petition, when the CPU returns p with a file call.
Pedir(p, op, n) ==
    /\ ~caido /\ p \in consolasReady /\ restantes[p] > 0 /\ Permitida(p, op, n)
    /\ restantes' = [restantes EXCEPT ![p] = @ - 1]
    /\ consolasReady' = consolasReady \ {p}
    /\ consolasBlocked' = Append(consolasBlocked, [un_pcb |-> p, cod_op |-> op, archivo |-> n])
    /\ UNCHANGED <<escenario, consolasExit, terminados, archivos, pc, locales, caido>>

\* EXIT or ERROR.
Terminar(p) ==
    /\ ~caido /\ p \in consolasReady
    /\ escenario.cierran => tablaArchivos[p] = <<>>
    /\ consolasReady' = consolasReady \ {p}
    /\ consolasExit' = Append(consolasExit, p)
    /\ UNCHANGED <<programa, consolasBlocked, terminados, archivos, pc, locales, caido>>

Proceso(p) == Terminar(p) \/ \E op \in Operaciones, n \in escenario.nombres : Pedir(p, op, n)
-----------------------------------------------------------------------------
(* process_f_open *)

\* arch_found = list_find(GDT, name)
AbrirBuscar ==
    /\ Llega("F_OPEN")
    /\ Atiende(IF Busca(GDT, Llamada.archivo) = NULL THEN "abrir_nueva" ELSE "abrir_tabla")
    /\ un_nodo' = Llamada
    /\ descr' = [descr EXCEPT !["fs"] = Busca(GDT, Llamada.archivo)]
    /\ UNCHANGED <<programa, consolasReady, consolasExit, terminados, archivos, exitPCB, cola,
                   caido>>

\* dictionary_put of an empty queue, in place of the one the name may have, and the descriptor.
AbrirNueva ==
    /\ Va("fs", "abrir_nueva", "abrir_gdt")
    /\ LET n == un_nodo.archivo
       IN  /\ diccionario_colas_archivos' = Con(diccionario_colas_archivos, n, ColaNueva)
           /\ colas' = Con(colas, ColaNueva, <<>>)
           /\ descriptores' = Con(descriptores, DescriptorNuevo,
                                  [file_name |-> n, pointer |-> NINGUNO])
           /\ descr' = [descr EXCEPT !["fs"] = DescriptorNuevo]
    /\ UNCHANGED <<programa, consolasReady, listas, GDT, tablaArchivos, posicionados, un_nodo,
                   exitPCB, cola, caido>>

\* The file system has answered: list_add(GDT), the table of the process, and READY.
AbrirGdt ==
    /\ Va("fs", "abrir_gdt", "tomar")
    /\ un_nodo' = SinNodo
    /\ LET p == un_nodo.un_pcb
       IN  /\ GDT' = Append(GDT, descr["fs"])
           /\ tablaArchivos' = [tablaArchivos EXCEPT ![p] = <<descr["fs"]>> \o @]
           /\ consolasReady' = consolasReady \cup {p}
    /\ descr' = [descr EXCEPT !["fs"] = NULL]
    /\ UNCHANGED <<programa, listas, descriptores, colas, diccionario_colas_archivos,
                   posicionados, exitPCB, cola, caido>>

\* The table of the process, and dictionary_get, NULL when the name is gone by now.
AbrirTabla ==
    /\ Va("fs", "abrir_tabla", "abrir_encolar")
    /\ LET p == un_nodo.un_pcb
           n == un_nodo.archivo
       IN  /\ tablaArchivos' = [tablaArchivos EXCEPT ![p] = <<descr["fs"]>> \o @]
           /\ cola' = [cola EXCEPT !["fs"] = IF n \in DOMAIN diccionario_colas_archivos
                                             THEN diccionario_colas_archivos[n] ELSE NULL]
    /\ descr' = [descr EXCEPT !["fs"] = NULL]
    /\ UNCHANGED <<programa, consolasReady, listas, descriptores, GDT, colas,
                   diccionario_colas_archivos, posicionados, un_nodo, exitPCB, caido>>

\* list_add(cola_del_archivo, runningPCB)
AbrirEncolar ==
    \/ /\ cola["fs"] \in DOMAIN colas
       /\ Va("fs", "abrir_encolar", "tomar")
       /\ un_nodo' = SinNodo
       /\ colas' = [colas EXCEPT ![cola["fs"]] = Append(@, un_nodo.un_pcb)]
       /\ cola' = [cola EXCEPT !["fs"] = NULL]
       /\ UNCHANGED <<programa, consolasReady, listas, descriptores, GDT,
                      diccionario_colas_archivos, tablaArchivos, posicionados, exitPCB, descr,
                      caido>>
    \/ /\ pc["fs"] = "abrir_encolar" /\ cola["fs"] \notin DOMAIN colas
       /\ Cae
-----------------------------------------------------------------------------
(* The other calls.  A process that fails goes to consolasExit with the files it has. *)

Falla(p) ==
    /\ consolasExit' = Append(consolasExit, p)
    /\ UNCHANGED <<consolasReady, archivos>>

Sigue(p) ==
    /\ consolasReady' = consolasReady \cup {p}
    /\ UNCHANGED consolasExit

\* process_f_close: the process is in READY before liberar_archivo looks for who waits.
Cerrar ==
    /\ Llega("F_CLOSE")
    /\ LET p == Llamada.un_pcb
           n == Llamada.archivo
           d == Busca(tablaArchivos[p], n)
       IN  \/ /\ d # NULL
              /\ Atiende("lib_cola")
              /\ tablaArchivos' = [tablaArchivos EXCEPT ![p] = RemoveFirst(@, d)]
              /\ posicionados' = posicionados \ {<<p, n>>}
              /\ descr' = [descr EXCEPT !["fs"] = d]
              /\ Sigue(p)
              /\ UNCHANGED <<descriptores, GDT, colas, diccionario_colas_archivos>>
           \/ /\ d = NULL
              /\ Atiende("tomar")
              /\ Falla(p)
              /\ UNCHANGED descr
    /\ UNCHANGED <<programa, terminados, un_nodo, exitPCB, cola, caido>>

\* process_fseek: the descriptor is taken from the table of the process.
Posicionar ==
    /\ Llega("F_SEEK")
    /\ LET p == Llamada.un_pcb
           n == Llamada.archivo
           d == Busca(tablaArchivos[p], n)
       IN  \/ /\ d # NULL
              /\ Atiende("tomar")
              /\ descriptores' = [descriptores EXCEPT ![d].pointer = p]
              /\ posicionados' = posicionados \cup {<<p, n>>}
              /\ Sigue(p)
              /\ UNCHANGED <<programa, terminados, GDT, colas, diccionario_colas_archivos,
                             tablaArchivos, locales, caido>>
           \/ d = NULL /\ Cae

\* process_fread and process_fwrite: the descriptor is taken from the GDT, whoever has it open.
Transferir ==
    /\ Llega("F_READ")
    /\ LET d == Busca(GDT, Llamada.archivo)
       IN  \/ /\ d # NULL
              /\ Atiende("recibir")
              /\ un_nodo' = Llamada
              /\ descr' = [descr EXCEPT !["fs"] = d]
              /\ UNCHANGED <<programa, consolasReady, consolasExit, terminados, archivos, exitPCB,
                             cola, caido>>
           \/ d = NULL /\ Cae

\* The answer of the file system; the log reads descr_del_archivo->pointer again.
Recibir ==
    \/ /\ descr["fs"] \in DOMAIN descriptores
       /\ Va("fs", "recibir", "tomar")
       /\ un_nodo' = SinNodo
       /\ consolasReady' = consolasReady \cup {un_nodo.un_pcb}
       /\ descr' = [descr EXCEPT !["fs"] = NULL]
       /\ UNCHANGED <<programa, listas, archivos, exitPCB, cola, caido>>
    \/ /\ pc["fs"] = "recibir" /\ descr["fs"] \notin DOMAIN descriptores
       /\ Cae

\* f_truncate_process needs no descriptor; the file system may refuse.
Truncar ==
    /\ Llega("F_TRUNCATE") /\ Atiende("tomar")
    /\ \/ Sigue(Llamada.un_pcb) /\ UNCHANGED archivos
       \/ Falla(Llamada.un_pcb)
    /\ UNCHANGED <<programa, terminados, locales, caido>>
-----------------------------------------------------------------------------
(* liberar_archivo, by either thread *)

\* cola_del_archivo = dictionary_get(descr_del_proceso->file_name)
LibCola(t) ==
    /\ descr[t] \in DOMAIN descriptores
    /\ Va(t, "lib_cola", "lib_vacia")
    /\ cola' = [cola EXCEPT ![t] = IF Nombre(t) \in DOMAIN diccionario_colas_archivos
                                   THEN diccionario_colas_archivos[Nombre(t)] ELSE NULL]
    /\ UNCHANGED <<programa, consolasReady, listas, archivos, un_nodo, exitPCB, descr, caido>>

\* if(list_is_empty(cola_del_archivo))
LibVacia(t) ==
    \/ /\ cola[t] \in DOMAIN colas
       /\ Va(t, "lib_vacia", IF colas[cola[t]] = <<>> THEN "lib_gdt" ELSE "lib_quitar")
       /\ UNCHANGED <<programa, consolasReady, listas, archivos, locales, caido>>
    \/ /\ pc[t] = "lib_vacia" /\ cola[t] \notin DOMAIN colas
       /\ Cae

\* list_remove_element(GDT, descr_del_proceso)
LibGdt(t) ==
    /\ Va(t, "lib_gdt", "lib_clave")
    /\ GDT' = RemoveFirst(GDT, descr[t])
    /\ UNCHANGED <<programa, consolasReady, listas, descriptores, colas,
                   diccionario_colas_archivos, tablaArchivos, posicionados, locales, caido>>

\* dictionary_remove by name, whichever queue is there by now.
LibClave(t) ==
    /\ Va(t, "lib_clave", "lib_destruir")
    /\ diccionario_colas_archivos' =
         [n \in DOMAIN diccionario_colas_archivos \ {Nombre(t)} |-> diccionario_colas_archivos[n]]
    /\ UNCHANGED <<programa, consolasReady, listas, descriptores, GDT, colas, tablaArchivos,
                   posicionados, locales, caido>>

TrasLiberar(t) == IF t = "fs" THEN "tomar" ELSE "siguiente"

Olvida(t) == /\ descr' = [descr EXCEPT ![t] = NULL]
             /\ cola' = [cola EXCEPT ![t] = NULL]

\* list_destroy and the two calls of free.
LibDestruir(t) ==
    /\ Va(t, "lib_destruir", TrasLiberar(t))
    /\ colas' = [q \in DOMAIN colas \ {cola[t]} |-> colas[q]]
    /\ descriptores' = [d \in DOMAIN descriptores \ {descr[t]} |-> descriptores[d]]
    /\ Olvida(t)
    /\ UNCHANGED <<programa, consolasReady, listas, GDT, diccionario_colas_archivos,
                   tablaArchivos, posicionados, un_nodo, exitPCB, caido>>

\* The first of the queue takes the file over: it has the descriptor in its table already.
LibQuitar(t) ==
    /\ Va(t, "lib_quitar", TrasLiberar(t))
    /\ consolasReady' = consolasReady \cup {Head(colas[cola[t]])}
    /\ colas' = [colas EXCEPT ![cola[t]] = Tail(@)]
    /\ Olvida(t)
    /\ UNCHANGED <<programa, listas, descriptores, GDT, diccionario_colas_archivos, tablaArchivos,
                   posicionados, un_nodo, exitPCB, caido>>

Liberar(t) == LibCola(t) \/ LibVacia(t) \/ LibGdt(t) \/ LibClave(t) \/ LibDestruir(t)
              \/ LibQuitar(t)
-----------------------------------------------------------------------------
(* gestionadorExit: cerrarArchivosDelProceso *)

ExitTomar ==
    /\ consolasExit # <<>>
    /\ Va("exit", "tomar", "siguiente")
    /\ exitPCB' = Head(consolasExit)
    /\ consolasExit' = Tail(consolasExit)
    /\ UNCHANGED <<programa, consolasReady, consolasBlocked, terminados, archivos, un_nodo, descr,
                   cola, caido>>

\* un_descr = list_remove(exitPCB->tablaArchivos, 0)
ExitCerrarUno ==
    /\ Va("exit", "siguiente", "lib_cola")
    /\ tablaArchivos[exitPCB] # <<>>
    /\ descr' = [descr EXCEPT !["exit"] = Head(tablaArchivos[exitPCB])]
    /\ tablaArchivos' = [tablaArchivos EXCEPT ![exitPCB] = Tail(@)]
    /\ posicionados' = {s \in posicionados : s[1] # exitPCB}
    /\ UNCHANGED <<programa, consolasReady, listas, descriptores, GDT, colas,
                   diccionario_colas_archivos, un_nodo, exitPCB, cola, caido>>

ExitTerminar ==
    /\ Va("exit", "siguiente", "tomar")
    /\ tablaArchivos[exitPCB] = <<>>
    /\ terminados' = terminados \cup {exitPCB}
    /\ exitPCB' = NINGUNO
    /\ UNCHANGED <<programa, consolasReady, consolasBlocked, consolasExit, archivos, un_nodo,
                   descr, cola, caido>>

OperarFS == AbrirBuscar \/ AbrirNueva \/ AbrirGdt \/ AbrirTabla \/ AbrirEncolar \/ Cerrar
            \/ Posicionar \/ Transferir \/ Recibir \/ Truncar \/ Liberar("fs")
GestionadorExit == ExitTomar \/ ExitCerrarUno \/ ExitTerminar \/ Liberar("exit")

Next == (\E p \in Procesos : Proceso(p)) \/ OperarFS \/ GestionadorExit

Spec == Init /\ [][Next]_vars

\* Both threads keep running, and so does a program that is in READY.
FairSpec ==
    /\ Spec
    /\ WF_vars(OperarFS) /\ WF_vars(GestionadorExit)
    /\ \A p \in Procesos : WF_vars(Proceso(p))
-----------------------------------------------------------------------------
(* Properties *)

\* p is at work: not waiting in the queue of a file, nor finished.
Activo(p) ==
    \/ p \in consolasReady \/ p \in Range(consolasExit)
    \/ \E i \in DOMAIN consolasBlocked : consolasBlocked[i].un_pcb = p
    \/ pc["fs"] # "abrir_encolar" /\ un_nodo.un_pcb = p
    \/ exitPCB = p

\* p waits for the file it opened last, or is about to.
Espera(p) ==
    \/ \E q \in DOMAIN colas : p \in Range(colas[q])
    \/ pc["fs"] = "abrir_encolar" /\ un_nodo.un_pcb = p

\* Who has the descriptor d: a process that does not wait for it, a thread that releases it.
Usuarios(d) ==
    {p \in Procesos :
        d \in Range(tablaArchivos[p]) /\ ~(Espera(p) /\ d = Head(tablaArchivos[p]))}
Liberando(d) == {t \in Hilos : descr[t] = d /\ pc[t] \in {"lib_cola", "lib_vacia", "lib_gdt",
                                                        "lib_clave", "lib_destruir", "lib_quitar"}}

\* p opened a file that it has open: it waits for what only p could close.
EsperaDeSiMismo(p, d) == Cardinality({i \in DOMAIN tablaArchivos[p] : tablaArchivos[p][i] = d}) > 1

\* Every variable keeps its type; the GDT and the dictionary name nothing that was freed.
TypeOK ==
    /\ escenario \in Escenarios /\ restantes \in [Procesos -> Nat]
    /\ consolasReady \subseteq Procesos /\ terminados \subseteq Procesos
    /\ consolasBlocked \in Seq(Nodo)
    /\ un_nodo \in Nodo \cup {SinNodo} /\ exitPCB \in Procesos \cup {NINGUNO}
    /\ consolasExit \in Seq(Procesos)
    /\ \A d \in DOMAIN descriptores :
          descriptores[d] \in [file_name : escenario.nombres, pointer : Procesos \cup {NINGUNO}]
    /\ GDT \in Seq(DOMAIN descriptores)
    /\ \A q \in DOMAIN colas : colas[q] \in Seq(Procesos)
    /\ DOMAIN diccionario_colas_archivos \subseteq escenario.nombres
    /\ Range(diccionario_colas_archivos) \subseteq DOMAIN colas
    /\ \A p \in Procesos : tablaArchivos[p] \in Seq(Nat \ {NULL})
    /\ descr \in [Hilos -> Nat] /\ cola \in [Hilos -> Nat]
    /\ caido \in BOOLEAN

\* A file has one descriptor at a time, and it is in the hands of exactly one active process
\* or one thread that is releasing it, whatever the programs do and however the two threads
\* interleave: a process is let in only by finding the file closed or by taking it over.
UnUsuarioPorArchivo ==
    /\ \A n \in escenario.nombres : Cardinality(Hallados(GDT, n)) <= 1
    /\ \A p \in Procesos : Activo(p) => Range(tablaArchivos[p]) \subseteq DOMAIN descriptores
    /\ \A d \in Range(GDT) :
          LET manos == Cardinality(Usuarios(d)) + Cardinality(Liberando(d))
          IN  manos = IF \E p \in Procesos : EsperaDeSiMismo(p, d) THEN 0 ELSE 1

\* Where an active process did F_SEEK, the pointer is where it left it: nobody else moves it
\* until the process closes the file.
PunteroDelUsuario ==
    \A p \in Procesos : \A d \in Range(tablaArchivos[p]) :
        Activo(p) /\ <<p, descriptores[d].file_name>> \in posicionados
            => descriptores[d].pointer = p

\* When programs close what they open, the kernel does not fall and nobody is lost: who is
\* not active has ended or waits in the queue of a file that somebody has.
NadieQuedaAfuera ==
    escenario.cierran =>
        /\ ~caido
        /\ \A p \in Procesos :
              \/ Activo(p) \/ p \in terminados
              \/ Espera(p) /\ Head(tablaArchivos[p]) \in Range(GDT)

\* A process that asks for a file has it at some time, when programs close what they open and
\* open in order.
AbreAlgunaVez ==
    \A p \in Procesos :
        (escenario.cierran /\ \E i \in DOMAIN consolasBlocked :
            consolasBlocked[i].un_pcb = p /\ consolasBlocked[i].cod_op = "F_OPEN")
        ~> (p \in consolasReady /\ tablaArchivos[p] # <<>>)

\* kernel.h 579: "si la cola del archivo está vacía, entonces nadie mas necesita el archivo".
NadieMasLoNecesita ==
    \A t \in Hilos :
        pc[t] \in {"lib_gdt", "lib_clave", "lib_destruir"} =>
            \A p \in Procesos : descr[t] \notin Range(tablaArchivos[p])
=============================================================================
