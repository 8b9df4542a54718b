------------------------------ MODULE Recursos ------------------------------
(***************************************************************************)
(* WAIT and SIGNAL of Kernel/src/kernel.h on the resources of RECURSOS    *)
(* and INSTANCIAS_RECURSOS.  Two threads run this code with no lock: the  *)
(* short-term scheduler ("run": wait_recurso_lista, signal_recurso_lista) *)
(* and gestionadorExit ("exit": liberarRecursosDelProceso).  A step is    *)
(* one access to what they share: a call on a list or a dictionary, a     *)
(* read or a write of *instancias (`++` and `--` are a read and a write). *)
(*                                                                        *)
(* What C leaves undefined here (a NULL list or PCB, a destroyed list)    *)
(* ends the kernel: `caido`.  Ready is FIFO, without its semaphore        *)
(* (Planificador), and only resources block.  The PIDs are never reused.  *)
(***************************************************************************)
EXTENDS Integers, Sequences, FiniteSets, SequencesExt

CONSTANTS Procesos,
          Recursos,    \* the positions in RECURSOS, in the order programs should ask
          Escenarios   \* the programs and INSTANCIAS_RECURSOS considered

\* A name that is not in RECURSOS.
INEXISTENTE == 0

\* An instruction is an operation and, for WAIT and SIGNAL, its resource.
Instrucciones == [op : {"WAIT", "SIGNAL"}, recurso : Recursos \cup {INEXISTENTE}]
                 \cup [op : {"YIELD", "EXIT"}]

\* The last instruction of every program ends it: after it there is nothing to fetch.
Final(i) == i.op = "EXIT" \/ (i.op \in {"WAIT", "SIGNAL"} /\ i.recurso = INEXISTENTE)

ASSUME RecursosAssumption ==
    /\ IsFiniteSet(Procesos) /\ Recursos \subseteq Nat \ {INEXISTENTE}
    /\ \A e \in Escenarios :
          /\ e.programas \in [Procesos -> Seq(Instrucciones)]
          /\ \A p \in Procesos : e.programas[p] # <<>> /\ Final(Last(e.programas[p]))
          /\ e.instancias \in [Recursos -> Nat]

VARIABLES
    escenario,
    fuera,                 \* processes that have not reached READY yet
    program_counter,
    consolasReady, consolasExit,
    terminados,
    recursosDisponibles,   \* dictionary: instances of each resource
    recursosEnUso,         \* dictionary: resource -> list of blocked PCBs
    recursos_por_proceso,  \* dictionary: PID -> list of resources asked for
    pc, pcb,               \* per thread: where it is, and the PCB it attends
    recurso, leido,        \* per thread: the resource, the value of *instancias it read
    lista,                 \* per thread: what its listAux points to
    caido                  \* the kernel dereferenced NULL or a destroyed list

colas == <<consolasReady, consolasExit>>
dicts == <<recursosDisponibles, recursosEnUso, recursos_por_proceso>>
locales == <<pcb, recurso, leido, lista>>
vars == <<escenario, fuera, program_counter, colas, terminados, dicts, pc, locales, caido>>

Hilos == {"run", "exit"}
NINGUNO == "ninguno"

Init ==
    /\ escenario \in Escenarios
    /\ fuera = Procesos
    /\ program_counter = [p \in Procesos |-> 1]
    /\ consolasReady = <<>> /\ consolasExit = <<>> /\ terminados = {}
    /\ recursosDisponibles = escenario.instancias
    /\ recursosEnUso = <<>> /\ recursos_por_proceso = <<>>
    /\ pc = [t \in Hilos |-> "tomar"]
    /\ pcb = [t \in Hilos |-> NINGUNO] /\ recurso = [t \in Hilos |-> INEXISTENTE]
    /\ leido = [t \in Hilos |-> 0]
    /\ lista = [t \in Hilos |-> "ninguna"]
    /\ caido = FALSE

Va(t, desde, hasta) == ~caido /\ pc[t] = desde /\ pc' = [pc EXCEPT ![t] = hasta]

\* Undefined behaviour: modelled as the end of the kernel.
Cae ==
    /\ ~caido
    /\ caido' = TRUE
    /\ UNCHANGED <<escenario, fuera, program_counter, colas, terminados, dicts, pc, locales>>

Instruccion(p) == escenario.programas[p][program_counter[p]]
ElRecurso(t) == recurso[t]
HayClave(r) == r \in DOMAIN recursosEnUso
dictionary_put(d, k, v) == [x \in DOMAIN d \cup {k} |-> IF x = k THEN v ELSE d[x]]
-----------------------------------------------------------------------------
(* Faulty variants: slips in the code that the properties below must catch *)

\* `>= 0` for `>= 1`.
WaitLeer_DesdeCero ==
    /\ Va("run", "wait_leer",
          IF recursosDisponibles[ElRecurso("run")] >= 0 THEN "wait_cargar" ELSE "wait_clave")
    /\ UNCHANGED <<escenario, fuera, program_counter, colas, terminados, dicts, locales, caido>>

\* The process goes on, but nobody is told that the resource is free.
RunSignal_SinLiberar ==
    /\ Va("run", "cpu", "tomar")
    /\ LET p == pcb["run"]
           r == Instruccion(p).recurso
       IN  /\ Instruccion(p).op = "SIGNAL" /\ p \in DOMAIN recursos_por_proceso
           /\ program_counter' = [program_counter EXCEPT ![p] = @ + 1]
           /\ recursos_por_proceso' = [recursos_por_proceso EXCEPT ![p] = RemoveFirst(@, r)]
           /\ consolasReady' = <<p>> \o consolasReady
    /\ UNCHANGED <<escenario, fuera, consolasExit, terminados, recursosDisponibles, recursosEnUso,
                   locales, caido>>

\* The instance is handed to the unblocked process and also given back.
LibQuitar_Suma(t) ==
    /\ lista[t] = "viva" /\ recursosEnUso[ElRecurso(t)] # <<>>
    /\ Va(t, "lib_quitar", "lib_tamano")
    /\ recursosEnUso' = [recursosEnUso EXCEPT ![ElRecurso(t)] = Tail(@)]
    /\ recursosDisponibles' = [recursosDisponibles EXCEPT ![ElRecurso(t)] = @ + 1]
    /\ consolasReady' = Append(consolasReady, Head(recursosEnUso[ElRecurso(t)]))
    /\ UNCHANGED <<escenario, fuera, program_counter, consolasExit, terminados,
                   recursos_por_proceso, locales, caido>>

\* `<= 1` for `== 0`: a list with one process left is destroyed.
LibTamano_HastaUno(t) ==
    /\ lista[t] = "viva"
    /\ LET vacia == Len(recursosEnUso[ElRecurso(t)]) <= 1
       IN  /\ Va(t, "lib_tamano", IF vacia THEN "lib_destruir"
                                  ELSE IF t = "run" THEN "tomar" ELSE "siguiente")
           /\ lista' = [lista EXCEPT ![t] = IF vacia THEN @ ELSE "ninguna"]
    /\ UNCHANGED <<escenario, fuera, program_counter, colas, terminados, dicts, pcb, recurso,
                   leido, caido>>

\* The entry of recursosEnUso is left behind.
LibDestruir_SinQuitarClave(t) ==
    /\ lista[t] = "viva"
    /\ Va(t, "lib_destruir", IF t = "run" THEN "tomar" ELSE "siguiente")
    /\ lista' = [lista EXCEPT ![t] = "ninguna"]
    /\ UNCHANGED <<escenario, fuera, program_counter, colas, terminados, dicts, pcb, recurso,
                   leido, caido>>
-----------------------------------------------------------------------------
(* Around the resources: admission, dispatch, YIELD and EXIT *)

Admitir(p) ==
    /\ ~caido /\ p \in fuera
    /\ fuera' = fuera \ {p}
    /\ consolasReady' = Append(consolasReady, p)
    /\ UNCHANGED <<escenario, program_counter, consolasExit, terminados, dicts, pc, locales,
                   caido>>

Despachar ==
    /\ Va("run", "tomar", "cpu") /\ consolasReady # <<>>
    /\ pcb' = [pcb EXCEPT !["run"] = Head(consolasReady)]
    /\ consolasReady' = Tail(consolasReady)
    /\ UNCHANGED <<escenario, fuera, program_counter, consolasExit, terminados, dicts, recurso,
                   leido, lista, caido>>

\* The CPU returns the PCB with the next operation of its program, a WAIT or SIGNAL of r.
Retorna(op, hasta) ==
    /\ Va("run", "cpu", hasta)
    /\ Instruccion(pcb["run"]).op = op
    /\ program_counter' = [program_counter EXCEPT ![pcb["run"]] = @ + 1]

RunYield ==
    /\ Retorna("YIELD", "tomar")
    /\ consolasReady' = Append(consolasReady, pcb["run"])
    /\ UNCHANGED <<escenario, fuera, consolasExit, terminados, dicts, locales, caido>>

\* EXIT, or a WAIT or SIGNAL whose key is not in recursosDisponibles.
RunExit ==
    /\ Retorna(Instruccion(pcb["run"]).op, "tomar")
    /\ Final(Instruccion(pcb["run"]))
    /\ consolasExit' = Append(consolasExit, pcb["run"])
    /\ UNCHANGED <<escenario, fuera, consolasReady, terminados, dicts, locales, caido>>
-----------------------------------------------------------------------------
(* wait_recurso_lista *)

\* registrarRecursosDelProceso, before knowing whether there is an instance.
RunWait ==
    /\ Retorna("WAIT", "wait_leer") /\ Instruccion(pcb["run"]).recurso \in Recursos
    /\ LET p == pcb["run"]
           r == Instruccion(p).recurso
           previos == IF p \in DOMAIN recursos_por_proceso THEN recursos_por_proceso[p] ELSE <<>>
       IN  /\ recursos_por_proceso' = dictionary_put(recursos_por_proceso, p, Append(previos, r))
           /\ recurso' = [recurso EXCEPT !["run"] = r]
    /\ UNCHANGED <<escenario, fuera, colas, terminados, recursosDisponibles, recursosEnUso, pcb,
                   leido, lista, caido>>

\* if(*instancias >= 1)
WaitLeer ==
    /\ Va("run", "wait_leer",
          IF recursosDisponibles[ElRecurso("run")] >= 1 THEN "wait_cargar" ELSE "wait_clave")
    /\ UNCHANGED <<escenario, fuera, program_counter, colas, terminados, dicts, locales, caido>>

\* (*instancias)--, its read ...
WaitCargar ==
    /\ Va("run", "wait_cargar", "wait_guardar")
    /\ leido' = [leido EXCEPT !["run"] = recursosDisponibles[ElRecurso("run")]]
    /\ UNCHANGED <<escenario, fuera, program_counter, colas, terminados, dicts, pcb, recurso,
                   lista, caido>>

\* ... and its write; the process goes to the front of READY.
WaitGuardar ==
    /\ Va("run", "wait_guardar", "tomar")
    /\ recursosDisponibles' = [recursosDisponibles EXCEPT ![ElRecurso("run")] = leido["run"] - 1]
    /\ consolasReady' = <<pcb["run"]>> \o consolasReady
    /\ UNCHANGED <<escenario, fuera, program_counter, consolasExit, terminados, recursosEnUso,
                   recursos_por_proceso, locales, caido>>

\* dictionary_has_key(recursosEnUso, recurso)
WaitClave ==
    /\ Va("run", "wait_clave", IF HayClave(ElRecurso("run")) THEN "wait_lista" ELSE "wait_nueva")
    /\ UNCHANGED <<escenario, fuera, program_counter, colas, terminados, dicts, locales, caido>>

\* listAux = dictionary_get(recursosEnUso, recurso), NULL when the key is gone by now.
WaitLista ==
    \/ /\ HayClave(ElRecurso("run"))
       /\ Va("run", "wait_lista", "wait_agregar")
       /\ lista' = [lista EXCEPT !["run"] = "viva"]
       /\ UNCHANGED <<escenario, fuera, program_counter, colas, terminados, dicts, pcb, recurso,
                      leido, caido>>
    \/ /\ pc["run"] = "wait_lista" /\ ~HayClave(ElRecurso("run"))
       /\ Cae

\* list_add(listAux, PCBrunning)
WaitAgregar ==
    \/ /\ lista["run"] = "viva"
       /\ Va("run", "wait_agregar", "tomar")
       /\ recursosEnUso' = [recursosEnUso EXCEPT ![ElRecurso("run")] = Append(@, pcb["run"])]
       /\ lista' = [lista EXCEPT !["run"] = "ninguna"]
       /\ UNCHANGED <<escenario, fuera, program_counter, colas, terminados, recursosDisponibles,
                      recursos_por_proceso, pcb, recurso, leido, caido>>
    \/ /\ pc["run"] = "wait_agregar" /\ lista["run"] = "destruida"
       /\ Cae

\* A new list with the PCB, then dictionary_put.
WaitNueva ==
    /\ Va("run", "wait_nueva", "tomar")
    /\ recursosEnUso' = dictionary_put(recursosEnUso, ElRecurso("run"), <<pcb["run"]>>)
    /\ UNCHANGED <<escenario, fuera, program_counter, colas, terminados, recursosDisponibles,
                   recursos_por_proceso, locales, caido>>

Wait == RunWait \/ WaitLeer \/ WaitCargar \/ WaitGuardar \/ WaitClave \/ WaitLista
        \/ WaitAgregar \/ WaitNueva
-----------------------------------------------------------------------------
(* signal_recurso_lista: quitarRecursoDelProceso, the process to the front of READY, and
   then liberar_recurso_y_actualizar_ready *)

RunSignal ==
    /\ Retorna("SIGNAL", "lib_clave") /\ Instruccion(pcb["run"]).recurso \in Recursos
    /\ LET p == pcb["run"]
           r == Instruccion(p).recurso
       IN  /\ p \in DOMAIN recursos_por_proceso
           /\ recursos_por_proceso' = [recursos_por_proceso EXCEPT ![p] = RemoveFirst(@, r)]
           /\ recurso' = [recurso EXCEPT !["run"] = r]
           /\ consolasReady' = <<p>> \o consolasReady
    /\ UNCHANGED <<escenario, fuera, consolasExit, terminados, recursosDisponibles, recursosEnUso,
                   pcb, leido, lista, caido>>

\* A process that never asked for a resource has no list: list_find(NULL, ...).
RunSignalSinWait ==
    /\ pc["run"] = "cpu" /\ Instruccion(pcb["run"]).op = "SIGNAL"
    /\ Instruccion(pcb["run"]).recurso \in Recursos
    /\ pcb["run"] \notin DOMAIN recursos_por_proceso
    /\ Cae
-----------------------------------------------------------------------------
(* liberar_recurso_y_actualizar_ready, by either thread *)

\* Where each thread goes on when it has released the resource.
TrasLiberar(t) == IF t = "run" THEN "tomar" ELSE "siguiente"

\* dictionary_has_key(recursosEnUso, recurso)
LibClave(t) ==
    /\ Va(t, "lib_clave", IF HayClave(ElRecurso(t)) THEN "lib_lista" ELSE "lib_cargar")
    /\ UNCHANGED <<escenario, fuera, program_counter, colas, terminados, dicts, locales, caido>>

LibLista(t) ==
    /\ HayClave(ElRecurso(t))
    /\ Va(t, "lib_lista", "lib_quitar")
    /\ lista' = [lista EXCEPT ![t] = "viva"]
    /\ UNCHANGED <<escenario, fuera, program_counter, colas, terminados, dicts, pcb, recurso,
                   leido, caido>>

\* PCBunlocked = list_remove(listAux, 0), then to the end of READY.
LibQuitar(t) ==
    /\ lista[t] = "viva" /\ recursosEnUso[ElRecurso(t)] # <<>>
    /\ Va(t, "lib_quitar", "lib_tamano")
    /\ recursosEnUso' = [recursosEnUso EXCEPT ![ElRecurso(t)] = Tail(@)]
    /\ consolasReady' = Append(consolasReady, Head(recursosEnUso[ElRecurso(t)]))
    /\ UNCHANGED <<escenario, fuera, program_counter, consolasExit, terminados,
                   recursosDisponibles, recursos_por_proceso, locales, caido>>

\* if(list_size(listAux) == 0)
LibTamano(t) ==
    /\ lista[t] = "viva"
    /\ LET vacia == recursosEnUso[ElRecurso(t)] = <<>>
       IN  /\ Va(t, "lib_tamano", IF vacia THEN "lib_destruir" ELSE TrasLiberar(t))
           /\ lista' = [lista EXCEPT ![t] = IF vacia THEN @ ELSE "ninguna"]
    /\ UNCHANGED <<escenario, fuera, program_counter, colas, terminados, dicts, pcb, recurso,
                   leido, caido>>

\* dictionary_remove and list_destroy: whatever the list holds by now is dropped, and a
\* pointer of the other thread to it dangles.
LibDestruir(t) ==
    /\ lista[t] = "viva"
    /\ Va(t, "lib_destruir", TrasLiberar(t))
    /\ recursosEnUso' = [r \in DOMAIN recursosEnUso \ {ElRecurso(t)} |-> recursosEnUso[r]]
    /\ lista' = [u \in Hilos |->
                    IF u = t THEN "ninguna"
                    ELSE IF lista[u] = "viva" /\ recurso[u] = recurso[t] THEN "destruida"
                    ELSE lista[u]]
    /\ UNCHANGED <<escenario, fuera, program_counter, colas, terminados, recursosDisponibles,
                   recursos_por_proceso, pcb, recurso, leido, caido>>

\* The list is NULL (the key went after has_key), destroyed, or empty (list_remove is NULL).
LibCae(t) ==
    /\ \/ pc[t] = "lib_lista" /\ ~HayClave(ElRecurso(t))
       \/ pc[t] \in {"lib_quitar", "lib_tamano", "lib_destruir"} /\ lista[t] = "destruida"
       \/ pc[t] = "lib_quitar" /\ lista[t] = "viva" /\ recursosEnUso[ElRecurso(t)] = <<>>
    /\ Cae

\* (*instanciaRec)++, its read and its write.
LibCargar(t) ==
    /\ Va(t, "lib_cargar", "lib_guardar")
    /\ leido' = [leido EXCEPT ![t] = recursosDisponibles[ElRecurso(t)]]
    /\ UNCHANGED <<escenario, fuera, program_counter, colas, terminados, dicts, pcb, recurso,
                   lista, caido>>

LibGuardar(t) ==
    /\ Va(t, "lib_guardar", TrasLiberar(t))
    /\ recursosDisponibles' = [recursosDisponibles EXCEPT ![ElRecurso(t)] = leido[t] + 1]
    /\ UNCHANGED <<escenario, fuera, program_counter, colas, terminados, recursosEnUso,
                   recursos_por_proceso, locales, caido>>

Liberar(t) == LibClave(t) \/ LibLista(t) \/ LibQuitar(t) \/ LibTamano(t) \/ LibDestruir(t)
              \/ LibCae(t) \/ LibCargar(t) \/ LibGuardar(t)
-----------------------------------------------------------------------------
(* gestionadorExit: liberarRecursosDelProceso *)

ExitTomar ==
    /\ Va("exit", "tomar", "siguiente") /\ consolasExit # <<>>
    /\ pcb' = [pcb EXCEPT !["exit"] = Head(consolasExit)]
    /\ consolasExit' = Tail(consolasExit)
    /\ UNCHANGED <<escenario, fuera, program_counter, consolasReady, terminados, dicts, recurso,
                   leido, lista, caido>>

Registrados(p) == IF p \in DOMAIN recursos_por_proceso THEN recursos_por_proceso[p] ELSE <<>>

\* un_recurso = list_remove(recursos_asignados, 0)
ExitLiberarUno ==
    /\ Va("exit", "siguiente", "lib_clave") /\ Registrados(pcb["exit"]) # <<>>
    /\ recurso' = [recurso EXCEPT !["exit"] = Head(Registrados(pcb["exit"]))]
    /\ recursos_por_proceso' = [recursos_por_proceso EXCEPT ![pcb["exit"]] = Tail(@)]
    /\ UNCHANGED <<escenario, fuera, program_counter, colas, terminados, recursosDisponibles,
                   recursosEnUso, pcb, leido, lista, caido>>

ExitTerminar ==
    /\ Va("exit", "siguiente", "tomar") /\ Registrados(pcb["exit"]) = <<>>
    /\ terminados' = terminados \cup {pcb["exit"]}
    /\ UNCHANGED <<escenario, fuera, program_counter, colas, dicts, locales, caido>>

HiloRun ==
    Despachar \/ RunYield \/ RunExit \/ Wait \/ RunSignal \/ RunSignalSinWait \/ Liberar("run")
HiloExit == ExitTomar \/ ExitLiberarUno \/ ExitTerminar \/ Liberar("exit")

Next == (\E p \in Procesos : Admitir(p)) \/ HiloRun \/ HiloExit

Spec == Init /\ [][Next]_vars

\* Both threads keep running and every process is admitted at some time.
FairSpec ==
    /\ Spec
    /\ WF_vars(HiloRun) /\ WF_vars(HiloExit)
    /\ \A p \in Procesos : WF_vars(Admitir(p))
-----------------------------------------------------------------------------
(* Properties *)

EnLista(l, p) == \E i \in DOMAIN l : l[i] = p

Bloqueado(p, r) == HayClave(r) /\ EnLista(recursosEnUso[r], p)

\* The scheduler thread is inside wait_recurso_lista, or in front of it, with p and r.
Pidiendo(p, r) ==
    /\ pc["run"] \in {"wait_leer", "wait_cargar", "wait_guardar", "wait_clave", "wait_lista",
                      "wait_agregar", "wait_nueva"}
    /\ pcb["run"] = p /\ recurso["run"] = r

\* p can run, or is ending: it is not waiting for anything.
Activo(p) ==
    \/ EnLista(consolasReady, p) \/ EnLista(consolasExit, p)
    \/ pc["run"] = "cpu" /\ pcb["run"] = p
    \/ pc["exit"] # "tomar" /\ pcb["exit"] = p

\* p was granted an instance of r and has not given it back.
Posee(p, r) == Activo(p) /\ EnLista(Registrados(p), r)
Poseedores(r) == {p \in Procesos : Posee(p, r)}

Es(i, op, r) == i.op = op /\ i.recurso = r

\* After its first n instructions the program holds r: it asked for it and did not return it.
Retenido(prog, n, r) ==
    \E m \in 1 .. n : Es(prog[m], "WAIT", r) /\ \A k \in m + 1 .. n : ~Es(prog[k], "SIGNAL", r)

\* A program returns only what it holds.
SenialaLoSuyo(prog) ==
    \A n \in DOMAIN prog : \A r \in Recursos :
        Es(prog[n], "SIGNAL", r) => Retenido(prog, n - 1, r)

\* ... asks for the resources in their order, and returns what it takes before it ends.
Disciplinado(prog) ==
    /\ SenialaLoSuyo(prog)
    /\ \A n \in DOMAIN prog : \A r \in Recursos : Retenido(prog, n - 1, r) =>
          /\ prog[n].op # "EXIT"
          /\ prog[n].op = "WAIT" => prog[n].recurso > r
    /\ \A n \in DOMAIN prog : prog[n].op \in {"WAIT", "SIGNAL"} => prog[n].recurso \in Recursos

TodosSenialanLoSuyo == \A p \in Procesos : SenialaLoSuyo(escenario.programas[p])
TodosDisciplinados == \A p \in Procesos : Disciplinado(escenario.programas[p])

\* Every variable keeps its type.
TypeOK ==
    /\ escenario \in Escenarios /\ fuera \subseteq Procesos /\ terminados \subseteq Procesos
    /\ program_counter \in [Procesos -> Nat]
    /\ consolasReady \in Seq(Procesos) /\ consolasExit \in Seq(Procesos)
    /\ recursosDisponibles \in [Recursos -> Nat]
    /\ DOMAIN recursosEnUso \subseteq Recursos
    /\ \A r \in DOMAIN recursosEnUso : recursosEnUso[r] \in Seq(Procesos)
    /\ DOMAIN recursos_por_proceso \subseteq Procesos
    /\ \A p \in DOMAIN recursos_por_proceso : recursos_por_proceso[p] \in Seq(Recursos)
    /\ pcb \in [Hilos -> Procesos \cup {NINGUNO}]
    /\ recurso \in [Hilos -> Recursos \cup {INEXISTENTE}]
    /\ leido \in [Hilos -> Nat]
    /\ lista \in [Hilos -> {"ninguna", "viva", "destruida"}]
    /\ caido \in BOOLEAN

\* No resource is granted more often than it has instances, although both threads change
\* *instancias and the lists with no lock: when programs return all they take, and, for a
\* resource of one instance, also when they end holding: the races with the exit thread lose
\* wakeups and processes, but never let two processes in.
NingunaInstanciaDeMas ==
    \A r \in Recursos :
        TodosDisciplinados \/ (TodosSenialanLoSuyo /\ escenario.instancias[r] <= 1) =>
            recursosDisponibles[r] + Cardinality(Poseedores(r)) <= escenario.instancias[r]

\* When programs return what they take, nobody waits while there is an instance, and an entry
\* of recursosEnUso has somebody waiting (between two calls of the scheduler thread).
EsperaSoloSinInstancias ==
    TodosDisciplinados /\ pc["run"] \in {"tomar", "cpu"} =>
        \A r \in DOMAIN recursosEnUso : recursosEnUso[r] # <<>> /\ recursosDisponibles[r] = 0

Cuenta(condicion) == IF condicion THEN 1 ELSE 0
Apariciones(l, p) == Cardinality({i \in DOMAIN l : l[i] = p})

\* When programs return what they take, a process is always in exactly one place and the
\* kernel does not fall: no list is destroyed with somebody in it.
NadieSePierde ==
    TodosDisciplinados =>
        /\ ~caido
        /\ \A p \in Procesos :
              Cuenta(p \in fuera) + Cuenta(p \in terminados)
                + Apariciones(consolasReady, p) + Apariciones(consolasExit, p)
                + Cuenta(pc["run"] = "cpu" /\ pcb["run"] = p)
                + Cuenta(\E r \in Recursos : Pidiendo(p, r))
                + Cuenta(pc["exit"] # "tomar" /\ pcb["exit"] = p)
                + Cardinality({r \in Recursos : Bloqueado(p, r)}) = 1

\* kernel.h 320: "en cualquiera de los casos, el proceso PCBrunning accedera al recurso en
\* algún momento": a process that asks for a resource is granted it at some time.
AccedeAlRecurso ==
    \A p \in Procesos : \A r \in Recursos : Pidiendo(p, r) ~> (Posee(p, r) \/ caido)

\* ... which holds when every program returns what it takes, in order.
DisciplinadosAcceden == TodosDisciplinados => AccedeAlRecurso
=============================================================================
