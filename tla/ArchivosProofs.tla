---------------------------- MODULE ArchivosProofs ----------------------------
(***************************************************************************)
(* What holds of Archivos for every set of processes and every program:   *)
(* who has a file, where its pointer is, and, for programs that close     *)
(* what they open, that nobody is lost.                                   *)
(***************************************************************************)
EXTENDS Archivos, TLAPS, SequenceTheorems, FiniteSetTheorems, WellFoundedInduction

PasosLib == {"lib_cola", "lib_vacia", "lib_gdt", "lib_clave", "lib_destruir", "lib_quitar"}

\* Thread t is releasing the descriptor that it has at hand.
Libera(t) == pc[t] \in PasosLib

Suelta(t, d) == Libera(t) /\ descr[t] = d

\* It is out of the GDT.
Quitado(t) == pc[t] \in {"lib_clave", "lib_destruir"}

Identidades == Nat \ {NULL}
Descriptor == [file_name : escenario.nombres, pointer : Procesos \cup {NINGUNO}]

\* Types.
Datos ==
    /\ escenario \in Escenarios /\ restantes \in [Procesos -> Nat]
    /\ consolasReady \subseteq Procesos /\ terminados \subseteq Procesos
    /\ consolasBlocked \in Seq(Nodo) /\ consolasExit \in Seq(Procesos)
    /\ un_nodo \in Nodo \cup {SinNodo} /\ exitPCB \in Procesos \cup {NINGUNO}
    /\ IsFiniteSet(DOMAIN descriptores) /\ DOMAIN descriptores \subseteq Identidades
    /\ \A d \in DOMAIN descriptores : descriptores[d] \in Descriptor
    /\ GDT \in Seq(Identidades)
    /\ IsFiniteSet(DOMAIN colas) /\ DOMAIN colas \subseteq Identidades
    /\ \A q \in DOMAIN colas : colas[q] \in Seq(Procesos)
    /\ DOMAIN diccionario_colas_archivos \subseteq escenario.nombres
    /\ \A n \in DOMAIN diccionario_colas_archivos :
          diccionario_colas_archivos[n] \in DOMAIN colas
    /\ tablaArchivos \in [Procesos -> Seq(Identidades)]
    /\ posicionados \subseteq Procesos \X Nat
    /\ descr \in [Hilos -> Nat] /\ cola \in [Hilos -> Nat]
    /\ caido \in BOOLEAN

\* Where each thread may be and what it has at hand there: the descriptor that it releases and
\* the queue that it read are not freed under it.
Manos ==
    /\ pc \in [Hilos -> {"tomar", "abrir_nueva", "abrir_gdt", "abrir_tabla", "abrir_encolar",
                         "recibir", "siguiente"} \cup PasosLib]
    /\ pc["fs"] # "siguiente" /\ pc["exit"] \in {"tomar", "siguiente"} \cup PasosLib
    /\ un_nodo = SinNodo <=> pc["fs"] \in {"tomar"} \cup PasosLib
    /\ exitPCB = NINGUNO <=> pc["exit"] = "tomar"
    /\ \A t \in Hilos :
          /\ descr[t] # NULL <=> pc[t] \in {"abrir_gdt", "abrir_tabla", "recibir"} \cup PasosLib
          /\ cola[t] # NULL =>
                pc[t] \in {"abrir_encolar", "lib_vacia", "lib_gdt", "lib_clave", "lib_destruir",
                           "lib_quitar"}
          /\ pc[t] \in {"lib_gdt", "lib_clave", "lib_destruir", "lib_quitar"} => cola[t] # NULL
          /\ Libera(t) /\ cola[t] # NULL => cola[t] \in DOMAIN colas
          /\ pc[t] = "lib_quitar" => colas[cola[t]] # <<>>
          /\ Libera(t) => descr[t] \in DOMAIN descriptores
    /\ pc["fs"] = "abrir_gdt" =>
          /\ descr["fs"] \in DOMAIN descriptores
          /\ descriptores[descr["fs"]].file_name = un_nodo.archivo

SinRepetidos(l) == \A i, j \in DOMAIN l : l[i] = l[j] => i = j
EnLista(l, x) == \E i \in DOMAIN l : l[i] = x

\* The same for the process of each BlockedNode.
NodosDistintos(l) == \A i, j \in DOMAIN l : l[i].un_pcb = l[j].un_pcb => i = j
EnNodos(l, p) == \E i \in DOMAIN l : l[i].un_pcb = p

EnReady(p) == p \in consolasReady
EnBlocked(p) == EnNodos(consolasBlocked, p)
EnExit(p) == EnLista(consolasExit, p)
EnMano(p) == un_nodo.un_pcb = p
Saliendo(p) == exitPCB = p
EnCola(p, q) == q \in DOMAIN colas /\ EnLista(colas[q], p)
Libre(p) == ~EnReady(p) /\ ~EnBlocked(p) /\ ~EnExit(p) /\ ~EnMano(p) /\ ~Saliendo(p)

\* A process is in one place at most (in none, if the queue where it was is destroyed).
Lugares ==
    /\ NodosDistintos(consolasBlocked) /\ SinRepetidos(consolasExit)
    /\ \A q \in DOMAIN colas : SinRepetidos(colas[q])
    /\ \A p \in Procesos :
          /\ EnReady(p) => ~EnBlocked(p) /\ ~EnExit(p) /\ ~EnMano(p) /\ ~Saliendo(p)
          /\ EnBlocked(p) => ~EnExit(p) /\ ~EnMano(p) /\ ~Saliendo(p)
          /\ EnExit(p) => ~EnMano(p) /\ ~Saliendo(p)
          /\ EnMano(p) => ~Saliendo(p)
          /\ p \in terminados => Libre(p)
          /\ \A q : EnCola(p, q) =>
                Libre(p) /\ p \notin terminados /\ \A r : EnCola(p, r) => r = q

\* What p has open: all of its table, but for the file that it waits for (or waited for, when it
\* was closed under it).
Tenidos(p) == IF Activo(p) \/ tablaArchivos[p] = <<>> THEN tablaArchivos[p]
              ELSE Tail(tablaArchivos[p])
Tiene(p, d) == EnLista(Tenidos(p), d)
EnGDT(d) == EnLista(GDT, d)
Archivo(d) == descriptores[d].file_name

\* The GDT has one descriptor of each file that is open, and it was not freed.
UnoPorNombre ==
    /\ SinRepetidos(GDT)
    /\ \A d : EnGDT(d) => d \in DOMAIN descriptores
    /\ \A d, e : EnGDT(d) /\ EnGDT(e) /\ Archivo(d) = Archivo(e) => d = e

\* A descriptor of the GDT is in the hands of exactly one process or thread.
UnoQueLoTiene ==
    /\ \A p \in Procesos : SinRepetidos(Tenidos(p)) /\ \A d : Tiene(p, d) => EnGDT(d)
    /\ \A p, q \in Procesos : \A d : Tiene(p, d) /\ Tiene(q, d) => p = q
    /\ \A t \in Hilos : \A d : Suelta(t, d) =>
          (\A p \in Procesos : ~Tiene(p, d)) /\ (EnGDT(d) <=> ~Quitado(t))
    /\ \A d : ~(Suelta("fs", d) /\ Suelta("exit", d))
    /\ \A d : EnGDT(d) =>
          (\E p \in Procesos : Tiene(p, d)) \/ (\E t \in Hilos : Suelta(t, d))

\* Nobody refers yet to the descriptor that operarFS makes, and no other of the GDT has its name;
\* nor the name of one that it has taken out.
Abriendo ==
    /\ pc["fs"] = "abrir_gdt" =>
          /\ ~EnGDT(descr["fs"]) /\ descr["exit"] # descr["fs"]
          /\ \A p \in Procesos : ~EnLista(tablaArchivos[p], descr["fs"])
    /\ pc["fs"] \in {"abrir_nueva", "abrir_gdt"} =>
          \A d : EnGDT(d) => Archivo(d) # un_nodo.archivo
    /\ pc["fs"] \in {"lib_clave", "lib_destruir"} =>
          \A d : EnGDT(d) => Archivo(d) # Archivo(descr["fs"])

\* Who waits has the descriptor in its table; it is out of the GDT before who waits is lost.
Esperas ==
    \A p \in Procesos :
        /\ Espera(p) => tablaArchivos[p] # <<>>
        /\ tablaArchivos[p] # <<>> /\ ~Activo(p) /\ ~Espera(p) => ~EnGDT(Head(tablaArchivos[p]))
        /\ p \in terminados => tablaArchivos[p] = <<>>

\* The ways to see that q is the queue of the descriptor d: the dictionary, what a thread that
\* releases d read, what operarFS read for who will wait, who waits in q, a file being opened.
PorNombre(q, d) ==
    /\ EnGDT(d) /\ Archivo(d) \in DOMAIN diccionario_colas_archivos
    /\ diccionario_colas_archivos[Archivo(d)] = q
PorHilo(q, d) == \E t \in Hilos : Suelta(t, d) /\ cola[t] = q /\ q # NULL
PorEncolar(q, d) ==
    /\ pc["fs"] = "abrir_encolar" /\ cola["fs"] = q /\ q # NULL
    /\ d = Head(tablaArchivos[un_nodo.un_pcb])
PorEspera(q, d) == \E p \in Procesos : EnCola(p, q) /\ d = Head(tablaArchivos[p])
PorAbrir(q, d) ==
    /\ pc["fs"] \in {"abrir_gdt", "abrir_tabla"} /\ d = descr["fs"]
    /\ un_nodo.archivo \in DOMAIN diccionario_colas_archivos
    /\ diccionario_colas_archivos[un_nodo.archivo] = q
DeSuCola(q, d) ==
    PorNombre(q, d) \/ PorHilo(q, d) \/ PorEncolar(q, d) \/ PorEspera(q, d) \/ PorAbrir(q, d)

\* They agree: a descriptor has one queue and a queue is of one descriptor.
Parejas ==
    /\ \A q, d, e : DeSuCola(q, d) /\ DeSuCola(q, e) => d = e
    /\ \A q, r, d : DeSuCola(q, d) /\ DeSuCola(r, d) => q = r

\* A queue is under one name, which is that of the descriptor, and under none when it is
\* destroyed, whichever queue has the name by now.
NombresDeCola ==
    /\ \A m, n \in DOMAIN diccionario_colas_archivos :
          diccionario_colas_archivos[m] = diccionario_colas_archivos[n] => m = n
    /\ \A t \in Hilos : \A m \in DOMAIN diccionario_colas_archivos :
          Libera(t) /\ cola[t] = diccionario_colas_archivos[m] =>
              m = Archivo(descr[t]) /\ pc[t] # "lib_destruir"

\* Who did F_SEEK has the file open, and the pointer is where it left it.
Posiciones ==
    \A p \in Procesos : \A n : <<p, n>> \in posicionados =>
        \E d : Tiene(p, d) /\ Archivo(d) = n /\ descriptores[d].pointer = p

Tenencia == UnoPorNombre /\ UnoQueLoTiene /\ Abriendo /\ Esperas

ArchivosInv ==
    Datos /\ Manos /\ Lugares /\ Tenencia /\ Parejas /\ NombresDeCola /\ Posiciones
-----------------------------------------------------------------------------
(* Lists *)

\* list_add.
LEMMA AgregarAlFinal ==
    ASSUME NEW S, NEW s \in Seq(S), NEW e \in S
    PROVE  /\ Append(s, e) \in Seq(S) /\ Append(s, e) # <<>>
           /\ Len(Append(s, e)) = Len(s) + 1 /\ Len(s) \in Nat
           /\ \A i \in 1 .. Len(s) : Append(s, e)[i] = s[i]
           /\ Append(s, e)[Len(s) + 1] = e
           /\ \A x : EnLista(Append(s, e), x) <=> EnLista(s, x) \/ x = e
           /\ \A p : EnNodos(Append(s, e), p) <=> EnNodos(s, p) \/ p = e.un_pcb
           /\ SinRepetidos(s) /\ ~EnLista(s, e) => SinRepetidos(Append(s, e))
           /\ NodosDistintos(s) /\ ~EnNodos(s, e.un_pcb) => NodosDistintos(Append(s, e))
  <1> DEFINE t == Append(s, e)
  <1>1. /\ t \in Seq(S) /\ t # <<>> /\ Len(t) = Len(s) + 1 /\ Len(s) \in Nat
        /\ DOMAIN t = 1 .. Len(s) + 1 /\ DOMAIN s = 1 .. Len(s)
        /\ (\A i \in 1 .. Len(s) : t[i] = s[i])
        /\ t[Len(s) + 1] = e
    BY AppendProperties, LenProperties
  <1> HIDE DEF t
  <1>2. \A i \in DOMAIN t : i = Len(s) + 1 \/ i \in DOMAIN s
    BY <1>1
  <1>3. \A i \in DOMAIN s : i \in DOMAIN t /\ t[i] = s[i]
    BY <1>1
  <1>4. Len(s) + 1 \in DOMAIN t
    BY <1>1
  <1>5. \A x : EnLista(t, x) <=> EnLista(s, x) \/ x = e
    BY <1>1, <1>2, <1>3, <1>4 DEF EnLista
  <1>6. \A p : EnNodos(t, p) <=> EnNodos(s, p) \/ p = e.un_pcb
    BY <1>1, <1>2, <1>3, <1>4 DEF EnNodos
  <1>7. SinRepetidos(s) /\ ~EnLista(s, e) => SinRepetidos(t)
    BY <1>1, <1>2, <1>3, <1>4 DEF EnLista, SinRepetidos
  <1>8. NodosDistintos(s) /\ ~EnNodos(s, e.un_pcb) => NodosDistintos(t)
    BY <1>1, <1>2, <1>3, <1>4 DEF EnNodos, NodosDistintos
  <1> QED
    BY <1>1, <1>5, <1>6, <1>7, <1>8 DEF t

\* list_add_in_index(lista, 0).
LEMMA AgregarAlFrente ==
    ASSUME NEW S, NEW s \in Seq(S), NEW e \in S
    PROVE  /\ <<e>> \o s \in Seq(S) /\ <<e>> \o s # <<>>
           /\ Head(<<e>> \o s) = e /\ Tail(<<e>> \o s) = s
           /\ \A x : EnLista(<<e>> \o s, x) <=> EnLista(s, x) \/ x = e
           /\ SinRepetidos(s) /\ ~EnLista(s, e) => SinRepetidos(<<e>> \o s)
  <1> DEFINE t == <<e>> \o s
  <1>1. /\ t \in Seq(S) /\ Len(t) = Len(s) + 1 /\ Len(s) \in Nat
        /\ DOMAIN t = 1 .. Len(s) + 1 /\ DOMAIN s = 1 .. Len(s)
        /\ (\A i \in 1 .. Len(s) : t[i + 1] = s[i])
        /\ t[1] = e
    BY ConcatProperties, LenProperties
  <1> HIDE DEF t
  <1>2. t # <<>> /\ Head(t) = e
    BY <1>1, EmptySeq, HeadTailProperties
  <1>3. Tail(t) = s
    <2>1. /\ Tail(t) \in Seq(S) /\ Len(Tail(t)) = Len(t) - 1
          /\ \A i \in 1 .. Len(Tail(t)) : Tail(t)[i] = t[i + 1]
      BY <1>1, <1>2, HeadTailProperties
    <2>2. PICK u : u = Tail(t)
      OBVIOUS
    <2>3. u \in Seq(S) /\ Len(u) = Len(s) /\ \A i \in 1 .. Len(u) : u[i] = s[i]
      BY <1>1, <2>1, <2>2
    <2>4. u = s
      BY <2>3, SeqEqual
    <2> QED
      BY <2>2, <2>4
  <1>4. ASSUME NEW i \in DOMAIN t
        PROVE i \in Nat /\ (i = 1 \/ (i - 1 \in DOMAIN s /\ t[i] = s[i - 1]))
    <2>1. i \in Nat /\ (i = 1 \/ (i - 1 \in 1 .. Len(s) /\ i = (i - 1) + 1))
      BY <1>1
    <2> QED
      BY <1>1, <2>1
  <1>5. \A i \in DOMAIN s : i + 1 \in DOMAIN t /\ t[i + 1] = s[i]
    BY <1>1
  <1>6. \A x : EnLista(t, x) <=> EnLista(s, x) \/ x = e
    <2>1. 1 \in DOMAIN t
      BY <1>1
    <2> QED
      BY <1>1, <1>4, <1>5, <2>1 DEF EnLista
  <1>7. ASSUME SinRepetidos(s), ~EnLista(s, e), NEW i \in DOMAIN t, NEW j \in DOMAIN t, t[i] = t[j]
        PROVE  i = j
    BY <1>1, <1>4, <1>7 DEF EnLista, SinRepetidos
  <1> QED
    BY <1>1, <1>2, <1>3, <1>6, <1>7 DEF t, SinRepetidos

\* list_remove(lista, 0).
LEMMA QuitarElPrimero ==
    ASSUME NEW S, NEW s \in Seq(S), s # <<>>
    PROVE  /\ Head(s) \in S /\ Tail(s) \in Seq(S) /\ EnLista(s, Head(s))
           /\ s = <<Head(s)>> \o Tail(s)
           /\ \A x : EnLista(s, x) <=> EnLista(Tail(s), x) \/ x = Head(s)
           /\ \A p : EnNodos(s, p) <=> EnNodos(Tail(s), p) \/ p = Head(s).un_pcb
           /\ SinRepetidos(s) => SinRepetidos(Tail(s)) /\ ~EnLista(Tail(s), Head(s))
           /\ NodosDistintos(s) =>
                 NodosDistintos(Tail(s)) /\ ~EnNodos(Tail(s), Head(s).un_pcb)
           /\ \A i \in DOMAIN Tail(s) : \E j \in DOMAIN s : Tail(s)[i] = s[j]
           /\ 1 \in DOMAIN s /\ Head(s) = s[1]
  <1> DEFINE t == Tail(s)
             e == Head(s)
  <1>1. /\ t \in Seq(S) /\ Len(t) = Len(s) - 1 /\ Len(s) \in Nat /\ Len(s) > 0
        /\ DOMAIN t = 1 .. Len(s) - 1 /\ DOMAIN s = 1 .. Len(s)
        /\ e \in S /\ e = s[1] /\ 1 \in DOMAIN s
        /\ (\A i \in 1 .. Len(s) - 1 : t[i] = s[i + 1])
    BY HeadTailProperties, EmptySeq, LenProperties
  <1>2. s = <<e>> \o t
    <2>1. PICK u : u = <<e>> \o t
      OBVIOUS
    <2>2. /\ u \in Seq(S) /\ Len(u) = 1 + Len(t) /\ u[1] = e
          /\ \A i \in 1 .. Len(t) : u[i + 1] = t[i]
      BY <1>1, <2>1, ConcatProperties, LenProperties
    <2> HIDE DEF t, e
    <2>3. \A i \in 1 .. Len(s) : s[i] = u[i]
      <3> SUFFICES ASSUME NEW i \in 1 .. Len(s) PROVE s[i] = u[i]
        OBVIOUS
      <3>1. CASE i = 1
        BY <1>1, <2>2, <3>1
      <3>2. CASE i # 1
        <4>1. i - 1 \in 1 .. Len(t) /\ (i - 1) + 1 = i /\ i - 1 \in 1 .. Len(s) - 1
          BY <1>1, <3>2
        <4> QED
          BY <1>1, <2>2, <4>1
      <3> QED
        BY <3>1, <3>2
    <2>4. s = u
      BY <1>1, <2>2, <2>3, SeqEqual
    <2> QED
      BY <2>1, <2>4
  <1> HIDE DEF t, e
  <1>3. \A i \in DOMAIN t : i \in Nat /\ i + 1 \in DOMAIN s /\ t[i] = s[i + 1]
    BY <1>1
  <1>4. ASSUME NEW i \in DOMAIN s
        PROVE i \in Nat /\ (i = 1 \/ (i - 1 \in DOMAIN t /\ s[i] = t[i - 1]))
    <2>1. i \in Nat /\ (i = 1 \/ (i - 1 \in 1 .. Len(s) - 1 /\ i = (i - 1) + 1))
      BY <1>1
    <2> QED
      BY <1>1, <2>1
  <1>5. \A x : EnLista(s, x) <=> EnLista(t, x) \/ x = e
    BY <1>1, <1>3, <1>4 DEF EnLista
  <1>6. \A p : EnNodos(s, p) <=> EnNodos(t, p) \/ p = e.un_pcb
    BY <1>1, <1>3, <1>4 DEF EnNodos
  <1>7. ASSUME SinRepetidos(s) PROVE SinRepetidos(t) /\ ~EnLista(t, e)
    <2>1. ASSUME NEW i \in DOMAIN t, NEW j \in DOMAIN t, t[i] = t[j] PROVE i = j
      <3>1. i + 1 = j + 1
        BY <1>3, <1>7, <2>1 DEF SinRepetidos
      <3> QED
        BY <1>3, <3>1
    <2>2. ASSUME NEW i \in DOMAIN t, t[i] = e PROVE FALSE
      <3>1. i + 1 = 1
        BY <1>1, <1>3, <1>7, <2>2 DEF SinRepetidos
      <3> QED
        BY <1>3, <3>1
    <2> QED
      BY <2>1, <2>2 DEF SinRepetidos, EnLista
  <1>8. ASSUME NodosDistintos(s) PROVE NodosDistintos(t) /\ ~EnNodos(t, e.un_pcb)
    <2>1. ASSUME NEW i \in DOMAIN t, NEW j \in DOMAIN t, t[i].un_pcb = t[j].un_pcb PROVE i = j
      <3>1. i + 1 = j + 1
        BY <1>3, <1>8, <2>1 DEF NodosDistintos
      <3> QED
        BY <1>3, <3>1
    <2>2. ASSUME NEW i \in DOMAIN t, t[i].un_pcb = e.un_pcb PROVE FALSE
      <3>1. i + 1 = 1
        BY <1>1, <1>3, <1>8, <2>2 DEF NodosDistintos
      <3> QED
        BY <1>3, <3>1
    <2> QED
      BY <2>1, <2>2 DEF NodosDistintos, EnNodos
  <1>9. EnLista(s, e)
    BY <1>5
  <1>10. \A i \in DOMAIN t : \E j \in DOMAIN s : t[i] = s[j]
    BY <1>3
  <1> QED
    BY <1>1, <1>2, <1>5, <1>6, <1>7, <1>8, <1>9, <1>10 DEF t, e

\* The least of a set of numbers.
LEMMA HayMinimo ==
    ASSUME NEW S \in SUBSET Nat, S # {}
    PROVE  Min(S) \in S /\ \A x \in S : Min(S) <= x
  <1> DEFINE R == OpToRel(<, Nat)
  <1>1. IsWellFoundedOn(R, Nat)
    BY NatLessThanWellFounded
  <1>2. \A x, y \in Nat : <<y, x>> \in R <=> y < x
    BY DEF OpToRel
  <1> HIDE DEF R
  <1>3. \E x \in S : \A y \in S : ~ (<<y, x>> \in R)
    BY <1>1, WFMin
  <1>4. \E x \in S : \A y \in S : x =< y
    <2>1. PICK x \in S : \A y \in S : ~ (<<y, x>> \in R)
      BY <1>3
    <2>2. ASSUME NEW y \in S PROVE x =< y
      <3>1. x \in Nat /\ y \in Nat /\ ~ (<<y, x>> \in R)
        BY <2>1
      <3>2. ~ (y < x)
        BY <1>2, <3>1
      <3> QED
        BY <3>1, <3>2
    <2> QED
      BY <2>2
  <1> QED
    BY <1>4 DEF Min
\* list_remove_element, of a list that has nobody twice.
LEMMA QuitarUno ==
    ASSUME NEW S, NEW s \in Seq(S), SinRepetidos(s), NEW r
    PROVE  /\ RemoveFirst(s, r) \in Seq(S)
           /\ \A x : EnLista(RemoveFirst(s, r), x) <=> EnLista(s, x) /\ x # r
           /\ SinRepetidos(RemoveFirst(s, r))
  <1> DEFINE t == RemoveFirst(s, r)
  <1>1. Len(s) \in Nat /\ DOMAIN s = 1 .. Len(s)
    BY LenProperties
  <1>2. CASE ~ \E i \in 1 .. Len(s) : s[i] = r
    BY <1>1, <1>2 DEF RemoveFirst, EnLista
  <1>3. CASE \E i \in 1 .. Len(s) : s[i] = r
    <2>1. PICK k : k = SelectInSeq(s, LAMBDA v : v = r)
      OBVIOUS
    <2>2. k \in 1 .. Len(s) /\ s[k] = r
      <3>1. PICK I : I = {i \in 1 .. Len(s) : s[i] = r}
        OBVIOUS
      <3>2. I \in SUBSET Nat /\ I # {}
        BY <1>1, <1>3, <3>1
      <3>3. k = Min(I)
        BY <2>1, <3>1, <3>2 DEF SelectInSeq
      <3>4. k \in I
        BY <3>2, <3>3, HayMinimo
      <3> QED
        BY <3>1, <3>4
    <2>3. t = SubSeq(s, 1, k - 1) \o SubSeq(s, k + 1, Len(s))
      BY <1>3, <2>1 DEF RemoveFirst, RemoveAt
    <2>4. PICK a : a = SubSeq(s, 1, k - 1)
      OBVIOUS
    <2>5. PICK b : b = SubSeq(s, k + 1, Len(s))
      OBVIOUS
    <2>6. k - 1 \in Int /\ k + 1 \in Int /\ Len(s) \in Int /\ k \in Nat
      BY <1>1, <2>2
    <2>7. a \in Seq(S) /\ Len(a) = k - 1 /\ \A i \in 1 .. k - 1 : a[i] = s[i]
      BY <1>1, <2>2, <2>4, <2>6, SubSeqProperties
    <2>8. b \in Seq(S) /\ Len(b) = Len(s) - k /\ \A i \in 1 .. Len(s) - k : b[i] = s[i + k]
      <3>1. \A i \in k + 1 .. Len(s) : s[i] \in S
        BY <1>1, <2>2, <2>6
      <3> DEFINE m == k + 1
                 n == Len(s)
      <3>2. /\ b \in Seq(S)
            /\ Len(b) = IF m <= n THEN n - m + 1 ELSE 0
            /\ \A i \in 1 .. n - m + 1 : b[i] = s[m + i - 1]
        <4>1. m \in Int /\ n \in Int /\ (\A i \in m .. n : s[i] \in S) /\ b = SubSeq(s, m, n)
          BY <2>5, <2>6, <3>1
        <4> HIDE DEF m, n
        <4>2. /\ SubSeq(s, m, n) \in Seq(S)
              /\ Len(SubSeq(s, m, n)) = IF m <= n THEN n - m + 1 ELSE 0
              /\ \A i \in 1 .. n - m + 1 : SubSeq(s, m, n)[i] = s[m + i - 1]
          BY <4>1, SubSeqProperties
        <4>3. b \in Seq(S) /\ Len(b) = IF m <= n THEN n - m + 1 ELSE 0
          BY <4>1, <4>2
        <4>4. \A i \in 1 .. n - m + 1 : b[i] = s[m + i - 1]
          BY <4>1, <4>2
        <4> QED
          BY <4>3, <4>4
      <3>3. Len(b) = Len(s) - k
        <4>1. Len(b) = IF m <= n THEN n - m + 1 ELSE 0
          BY <3>2
        <4>2. k \in Int /\ Len(s) \in Int /\ k <= Len(s)
          BY <1>1, <2>2, <2>6
        <4>3. m <= n => n - m + 1 = Len(s) - k
          BY <4>2
        <4>4. ~(m <= n) => 0 = Len(s) - k
          BY <4>2
        <4> HIDE DEF m, n
        <4> QED
          BY <4>1, <4>3, <4>4
      <3>4. ASSUME NEW i \in 1 .. Len(s) - k PROVE b[i] = s[i + k]
        <4>1. i \in 1 .. n - m + 1 /\ m + i - 1 = i + k
          BY <2>6
        <4> QED
          BY <3>2, <4>1
      <3> QED
        BY <3>2, <3>3, <3>4
    <2>9. /\ t \in Seq(S) /\ Len(t) = Len(s) - 1
          /\ \A i \in 1 .. k - 1 : t[i] = s[i]
          /\ \A i \in k .. Len(s) - 1 : t[i] = s[i + 1]
      <3>1. t = a \o b
        BY <2>3, <2>4, <2>5
      <3>2. /\ t \in Seq(S) /\ Len(t) = Len(a) + Len(b)
            /\ \A i \in 1 .. Len(a) + Len(b) :
                  t[i] = IF i <= Len(a) THEN a[i] ELSE b[i - Len(a)]
        <4>1. /\ a \o b \in Seq(S) /\ Len(a \o b) = Len(a) + Len(b)
              /\ \A i \in 1 .. Len(a) + Len(b) :
                    (a \o b)[i] = IF i <= Len(a) THEN a[i] ELSE b[i - Len(a)]
          BY <2>7, <2>8, ConcatProperties
        <4> HIDE DEF t
        <4> QED
          BY <3>1, <4>1
      <3> HIDE DEF t
      <3>3. ASSUME NEW i \in 1 .. k - 1 PROVE t[i] = s[i]
        <4>1. i \in 1 .. Len(a) + Len(b) /\ i <= Len(a)
          BY <1>1, <2>2, <2>6, <2>7, <2>8
        <4> QED
          BY <4>1, <2>7, <3>2
      <3>4. ASSUME NEW i \in k .. Len(s) - 1 PROVE t[i] = s[i + 1]
        <4>1. i \in 1 .. Len(a) + Len(b) /\ ~(i <= Len(a)) /\ i - Len(a) = i - k + 1
              /\ i - k + 1 \in 1 .. Len(s) - k /\ i - k + 1 + k = i + 1
          BY <1>1, <2>2, <2>6, <2>7, <2>8
        <4>2. t[i] = b[i - k + 1]
          BY <4>1, <3>2
        <4> QED
          BY <4>1, <4>2, <2>8
      <3> QED
        BY <1>1, <2>2, <2>6, <2>7, <2>8, <3>2, <3>3, <3>4
    <2> HIDE DEF t
    <2>10. DOMAIN t = 1 .. Len(s) - 1
      BY <2>9, LenProperties
    <2>11. ASSUME NEW i \in DOMAIN t
           PROVE  /\ i \in Nat /\ (i < k \/ i >= k)
                  /\ i < k => i \in DOMAIN s /\ t[i] = s[i]
                  /\ i >= k => i + 1 \in DOMAIN s /\ t[i] = s[i + 1]
      <3>1. PICK n : n = Len(s)
        OBVIOUS
      <3>2. n \in Nat /\ DOMAIN s = 1 .. n /\ i \in 1 .. n - 1 /\ k \in 1 .. n
        BY <1>1, <2>2, <2>6, <2>10, <3>1
      <3>3. /\ i \in Nat /\ (i < k \/ i >= k) /\ i \in 1 .. n /\ i + 1 \in 1 .. n
            /\ i < k => i \in 1 .. k - 1
            /\ i >= k => i \in k .. n - 1
        BY <3>2
      <3> QED
        BY <2>9, <3>1, <3>2, <3>3
    <2>12. \A q : EnLista(t, q) => EnLista(s, q)
      BY <2>11 DEF EnLista
    <2>13. ASSUME NEW q, EnLista(s, q), q # r PROVE EnLista(t, q)
      <3>1. PICK i \in 1 .. Len(s) : s[i] = q
        BY <1>1, <2>13 DEF EnLista
      <3>2. i # k
        BY <2>2, <2>13, <3>1
      <3>3. CASE i < k
        <4>1. i \in 1 .. k - 1 /\ i \in DOMAIN t
          BY <1>1, <2>2, <2>6, <2>10, <3>1, <3>3
        <4> QED
          BY <4>1, <2>9, <3>1 DEF EnLista
      <3>4. CASE i > k
        <4>1. i - 1 \in k .. Len(s) - 1 /\ i - 1 \in DOMAIN t /\ (i - 1) + 1 = i
          BY <1>1, <2>2, <2>6, <2>10, <3>1, <3>4
        <4> QED
          BY <4>1, <2>9, <3>1 DEF EnLista
      <3> QED
        BY <2>6, <3>1, <3>2, <3>3, <3>4
    <2>14. ASSUME NEW i \in DOMAIN t, NEW j \in DOMAIN t, t[i] = t[j] PROVE i = j
      <3>1. \A x, y \in DOMAIN s : s[x] = s[y] => x = y
        BY DEF SinRepetidos
      <3>2. CASE i < k /\ j < k
        BY <2>11, <2>14, <3>1, <3>2
      <3>3. CASE i >= k /\ j >= k
        <4>1. i + 1 = j + 1
          BY <2>11, <2>14, <3>1, <3>3
        <4> QED
          BY <2>11, <4>1
      <3>4. CASE i < k /\ j >= k
        <4>1. i = j + 1
          BY <2>11, <2>14, <3>1, <3>4
        <4> QED
          BY <2>6, <2>11, <3>4, <4>1
      <3>5. CASE i >= k /\ j < k
        <4>1. i + 1 = j
          BY <2>11, <2>14, <3>1, <3>5
        <4> QED
          BY <2>6, <2>11, <3>5, <4>1
      <3> QED
        BY <2>11, <3>2, <3>3, <3>4, <3>5
    <2>15. ASSUME EnLista(t, r) PROVE FALSE
      <3>1. \A x, y \in DOMAIN s : s[x] = r /\ s[y] = r => x = y
        BY DEF SinRepetidos
      <3>2. PICK i \in DOMAIN t : t[i] = r
        BY <2>15 DEF EnLista
      <3>3. i < k => i = k
        BY <1>1, <2>2, <2>11, <3>1, <3>2
      <3>4. i >= k => i + 1 = k
        BY <1>1, <2>2, <2>11, <3>1, <3>2
      <3> QED
        BY <2>6, <2>11, <3>2, <3>3, <3>4
    <2> QED
      BY <2>9, <2>12, <2>13, <2>14, <2>15 DEF t, SinRepetidos
  <1> QED
    BY <1>2, <1>3
-----------------------------------------------------------------------------
(* Identities that nobody uses *)

LEMMA IdentidadFresca ==
    ASSUME NEW S, IsFiniteSet(S)
    PROVE  Fresco(S) \in Identidades /\ Fresco(S) \notin S
  <1> DEFINE k == Cardinality(S) + 1
  <1>1. Cardinality(S) \in Nat
    BY FS_CardinalityType
  <1>2. \E n \in 1 .. k : n \notin S
    <2> SUFFICES ASSUME 1 .. k \subseteq S PROVE FALSE
      OBVIOUS
    <2>1. Cardinality(1 .. k) = k
      BY <1>1, FS_Interval
    <2>2. Cardinality(1 .. k) <= Cardinality(S)
      BY FS_Subset
    <2> QED
      BY <1>1, <2>1, <2>2
  <1>3. Fresco(S) \in 1 .. k /\ Fresco(S) \notin S
    BY <1>2 DEF Fresco
  <1> QED
    BY <1>1, <1>3 DEF Identidades, NULL

LEMMA DosFinito == ASSUME NEW a, NEW b PROVE IsFiniteSet({a} \cup {b})
  BY FS_Singleton, FS_AddElement

LEMMA RangoFinito == ASSUME NEW S, NEW s \in Seq(S) PROVE IsFiniteSet(Range(s))
  <1>1. Len(s) \in Nat /\ DOMAIN s = 1 .. Len(s) /\ s \in [1 .. Len(s) -> S]
    BY LenProperties
  <1>2. s \in Surjection(1 .. Len(s), Range(s))
    BY <1>1 DEF Surjection, Range
  <1>3. IsFiniteSet(1 .. Len(s))
    BY <1>1, FS_Interval
  <1> QED
    BY <1>2, <1>3, FS_Surjection

\* malloc returns what nobody refers to.
LEMMA Frescos ==
    ASSUME Datos
    PROVE  /\ ColaNueva \in Identidades /\ ColaNueva \notin DOMAIN colas
           /\ \A t \in Hilos : ColaNueva # cola[t]
           /\ DescriptorNuevo \in Identidades /\ DescriptorNuevo \notin DOMAIN descriptores
           /\ \A t \in Hilos : DescriptorNuevo # descr[t]
           /\ \A p \in Procesos : ~EnLista(tablaArchivos[p], DescriptorNuevo)
  <1>1. IsFiniteSet({cola[t] : t \in Hilos})
    <2>1. {cola[t] : t \in Hilos} = {cola["fs"]} \cup {cola["exit"]}
      BY DEF Hilos
    <2>2. IsFiniteSet({cola["fs"]} \cup {cola["exit"]})
      BY DosFinito
    <2> QED
      BY <2>1, <2>2, Zenon
  <1>2. IsFiniteSet({descr[t] : t \in Hilos})
    <2>1. {descr[t] : t \in Hilos} = {descr["fs"]} \cup {descr["exit"]}
      BY DEF Hilos
    <2>2. IsFiniteSet({descr["fs"]} \cup {descr["exit"]})
      BY DosFinito
    <2> QED
      BY <2>1, <2>2, Zenon
  <1>3. IsFiniteSet(UNION {Range(tablaArchivos[p]) : p \in Procesos})
    <2> DEFINE f == [p \in Procesos |-> Range(tablaArchivos[p])]
               T == {Range(tablaArchivos[p]) : p \in Procesos}
    <2>1. f \in Surjection(Procesos, T)
      BY DEF Surjection
    <2>2. IsFiniteSet(T)
      BY <2>1, ArchivosAssumption, FS_Surjection
    <2>3. \A x \in T : IsFiniteSet(x)
      <3> SUFFICES ASSUME NEW p \in Procesos PROVE IsFiniteSet(Range(tablaArchivos[p]))
        OBVIOUS
      <3>1. tablaArchivos[p] \in Seq(Identidades)
        BY DEF Datos
      <3> QED
        BY <3>1, RangoFinito
    <2> HIDE DEF T
    <2> QED
      BY <2>2, <2>3, FS_UNION DEF T
  <1>4. IsFiniteSet(DOMAIN colas) /\ IsFiniteSet(DOMAIN descriptores)
    BY DEF Datos
  <1>5. IsFiniteSet(DOMAIN colas \cup {cola[t] : t \in Hilos})
    BY <1>1, <1>4, FS_Union
  <1>6. /\ ColaNueva \in Identidades /\ ColaNueva \notin DOMAIN colas
        /\ \A t \in Hilos : ColaNueva # cola[t]
    BY <1>5, IdentidadFresca DEF ColaNueva
  <1>7. IsFiniteSet(DOMAIN descriptores \cup {descr[t] : t \in Hilos}
                      \cup UNION {Range(tablaArchivos[p]) : p \in Procesos})
    BY <1>2, <1>3, <1>4, FS_Union
  <1>8. /\ DescriptorNuevo \in Identidades /\ DescriptorNuevo \notin DOMAIN descriptores
        /\ DescriptorNuevo \notin {descr[t] : t \in Hilos}
        /\ DescriptorNuevo \notin UNION {Range(tablaArchivos[p]) : p \in Procesos}
    BY <1>7, IdentidadFresca DEF DescriptorNuevo
  <1>9. \A p \in Procesos : ~EnLista(tablaArchivos[p], DescriptorNuevo)
    BY <1>8 DEF EnLista, Range
  <1> QED
    BY <1>6, <1>8, <1>9

\* list_find.
LEMMA LoQueHalla ==
    ASSUME NEW l, NEW n, Busca(l, n) # NULL
    PROVE  /\ EnLista(l, Busca(l, n)) /\ Busca(l, n) \in DOMAIN descriptores
           /\ Archivo(Busca(l, n)) = n
  <1>1. Hallados(l, n) # {} /\ Busca(l, n) = CHOOSE d \in Hallados(l, n) : TRUE
    BY DEF Busca
  <1>2. Busca(l, n) \in Hallados(l, n)
    BY <1>1
  <1> QED
    BY <1>2 DEF Hallados, Range, EnLista, Archivo

LEMMA LoQueNoHalla ==
    ASSUME DOMAIN descriptores \subseteq Identidades, NEW l, NEW n, Busca(l, n) = NULL
    PROVE  \A d \in DOMAIN descriptores : EnLista(l, d) => Archivo(d) # n
  <1> SUFFICES ASSUME NEW d \in DOMAIN descriptores, EnLista(l, d), Archivo(d) = n PROVE FALSE
    OBVIOUS
  <1>1. d \in Hallados(l, n)
    BY DEF Hallados, Range, EnLista, Archivo
  <1>2. Busca(l, n) \in Hallados(l, n)
    BY <1>1 DEF Busca
  <1>3. Busca(l, n) \in Identidades
    BY <1>2 DEF Hallados
  <1> QED
    BY <1>3 DEF Identidades
-----------------------------------------------------------------------------
(* Where a process is *)

LEMMA ActivoEs ==
    ASSUME NEW p
    PROVE  Activo(p) <=> \/ EnReady(p) \/ EnExit(p) \/ EnBlocked(p) \/ Saliendo(p)
                         \/ pc["fs"] # "abrir_encolar" /\ EnMano(p)
  BY DEF Activo, EnReady, EnExit, EnBlocked, Saliendo, EnMano, EnLista, EnNodos, Range

LEMMA EsperaEs ==
    ASSUME NEW p
    PROVE  Espera(p) <=> (\E q : EnCola(p, q)) \/ (pc["fs"] = "abrir_encolar" /\ EnMano(p))
  BY DEF Espera, EnCola, EnMano, EnLista, Range

LEMMA ActivoEsPrima ==
    ASSUME NEW p
    PROVE  Activo(p)' <=> \/ EnReady(p)' \/ EnExit(p)' \/ EnBlocked(p)' \/ Saliendo(p)'
                          \/ pc'["fs"] # "abrir_encolar" /\ EnMano(p)'
  BY DEF Activo, EnReady, EnExit, EnBlocked, Saliendo, EnMano, EnLista, EnNodos, Range

LEMMA EsperaEsPrima ==
    ASSUME NEW p
    PROVE  Espera(p)' <=> (\E q : EnCola(p, q)') \/ (pc'["fs"] = "abrir_encolar" /\ EnMano(p)')
  BY DEF Espera, EnCola, EnMano, EnLista, Range

LEMMA NoLosDos == ASSUME Lugares, NEW p \in Procesos, Espera(p) PROVE ~Activo(p)
  <1>1. CASE \E q : EnCola(p, q)
    BY <1>1, ActivoEs DEF Lugares, Libre
  <1>2. CASE pc["fs"] = "abrir_encolar" /\ EnMano(p)
    BY <1>2, ActivoEs DEF Lugares
  <1> QED
    BY <1>1, <1>2, EsperaEs

\* The two threads release different descriptors, and so different queues.
LEMMA LosDosHilos ==
    ASSUME Tenencia, Parejas, Libera("fs"), Libera("exit")
    PROVE  descr["fs"] # descr["exit"] /\ (cola["fs"] # NULL => cola["fs"] # cola["exit"])
  <1>1. descr["fs"] # descr["exit"]
    BY DEF Tenencia, UnoQueLoTiene, Suelta
  <1>2. ASSUME cola["fs"] # NULL, cola["fs"] = cola["exit"] PROVE FALSE
    <2>1. PorHilo(cola["fs"], descr["fs"]) /\ PorHilo(cola["fs"], descr["exit"])
      BY <1>2 DEF PorHilo, Suelta, Hilos
    <2> QED
      BY <1>1, <2>1 DEF Parejas, DeSuCola
  <1> QED
    BY <1>1, <1>2
-----------------------------------------------------------------------------
(* Types, and what each thread has at hand *)

\* Nothing of what is proved here looks at caido but Disciplina.
Quieto == UNCHANGED <<programa, consolasReady, listas, archivos, pc, locales>>

LEMMA SinMoverse == ASSUME ArchivosInv, Quieto, caido' \in BOOLEAN PROVE ArchivosInv'
  <1> USE DEF Quieto, programa, listas, archivos, locales
  <1>1. Datos'
    BY DEF ArchivosInv, Datos, Nodo, Descriptor
  <1>2. Manos'
    BY DEF ArchivosInv, Manos, Libera
  <1>3. Lugares'
    BY DEF ArchivosInv, Lugares, EnReady, EnBlocked, EnExit, EnMano, Saliendo, EnCola, Libre
  <1>4. \A p : (Activo(p)' <=> Activo(p)) /\ (Espera(p)' <=> Espera(p))
    BY ActivoEs, EsperaEs, ActivoEsPrima, EsperaEsPrima
       DEF EnReady, EnBlocked, EnExit, EnMano, Saliendo, EnCola
  <1>5. \A p : Tenidos(p)' = Tenidos(p)
    BY <1>4 DEF Tenidos
  <1>6. /\ \A p, d : Tiene(p, d)' <=> Tiene(p, d)
        /\ \A d : EnGDT(d)' <=> EnGDT(d)
        /\ \A d : Archivo(d)' = Archivo(d)
        /\ \A t, d : Suelta(t, d)' <=> Suelta(t, d)
        /\ \A t : (Libera(t)' <=> Libera(t)) /\ (Quitado(t)' <=> Quitado(t))
    BY <1>5 DEF Tiene, EnGDT, Archivo, Libera, Suelta, Quitado
  <1>7. UnoPorNombre' /\ Abriendo'
    BY <1>6 DEF ArchivosInv, Tenencia, UnoPorNombre, Abriendo
  <1>8. UnoQueLoTiene'
    BY <1>5, <1>6 DEF ArchivosInv, Tenencia, UnoQueLoTiene
  <1>9. Esperas'
    BY <1>4, <1>6 DEF ArchivosInv, Tenencia, Esperas
  <1>10. \A q, d : DeSuCola(q, d)' <=> DeSuCola(q, d)
    BY <1>6 DEF DeSuCola, PorNombre, PorHilo, PorEncolar, PorEspera, PorAbrir, EnCola
  <1>11. Parejas'
    BY <1>10 DEF ArchivosInv, Parejas
  <1>12. NombresDeCola'
    BY <1>6 DEF ArchivosInv, NombresDeCola
  <1>13. Posiciones'
    BY <1>6 DEF ArchivosInv, Posiciones
  <1> QED
    BY <1>1, <1>2, <1>3, <1>7, <1>8, <1>9, <1>11, <1>12, <1>13 DEF ArchivosInv, Tenencia

LEMMA DatosAlInicio == Init => Datos
  <1> SUFFICES ASSUME Init PROVE Datos
    OBVIOUS
  <1>1. escenario.llamadas \in [Procesos -> Nat]
    BY ArchivosAssumption DEF Init
  <1>2. DOMAIN <<>> = {} /\ IsFiniteSet({}) /\ \A S : <<>> \in Seq(S)
    BY FS_EmptySet
  <1> QED
    BY <1>1, <1>2 DEF Init, Datos, Hilos, NULL

LEMMA DatosEnUnPaso == ArchivosInv /\ [Next]_vars => Datos'
  <1> SUFFICES ASSUME ArchivosInv, [Next]_vars PROVE Datos'
    OBVIOUS
  <1> USE DEF Hilos, Va, Atiende, Llega, Llamada, programa, listas, archivos, locales
  <1>a. Datos /\ escenario.nombres \subseteq Nat
    BY ArchivosAssumption DEF ArchivosInv, Datos
  <1>b. ASSUME NEW op, Llega(op)
        PROVE  Llamada \in Nodo /\ Tail(consolasBlocked) \in Seq(Nodo)
    BY <1>a, <1>b, QuitarElPrimero DEF Datos
  <1>c. ASSUME Cae PROVE Datos'
    BY <1>c, SinMoverse DEF Cae, Quieto, ArchivosInv
  <1>1. ASSUME NEW p \in Procesos, NEW op \in Operaciones, NEW n \in escenario.nombres,
               Pedir(p, op, n)
        PROVE  Datos'
    <2>1. [un_pcb |-> p, cod_op |-> op, archivo |-> n] \in Nodo
      BY DEF Nodo
    <2>2. Append(consolasBlocked, [un_pcb |-> p, cod_op |-> op, archivo |-> n]) \in Seq(Nodo)
      BY <1>a, <2>1, AgregarAlFinal DEF Datos
    <2>3. [restantes EXCEPT ![p] = @ - 1] \in [Procesos -> Nat]
      BY <1>1, <1>a DEF Pedir, Datos
    <2> QED
      BY <1>1, <1>a, <2>2, <2>3 DEF Pedir, Datos, Nodo, Descriptor
  <1>2. ASSUME NEW p \in Procesos, Terminar(p) PROVE Datos'
    BY <1>2, <1>a, AgregarAlFinal DEF Terminar, Datos, Nodo, Descriptor
  <1>3. ASSUME AbrirBuscar PROVE Datos'
    <2>1. Busca(GDT, Llamada.archivo) \in Nat
      BY <1>a, LoQueHalla DEF Datos, Identidades, NULL
    <2> QED
      BY <1>3, <1>a, <1>b, <2>1 DEF AbrirBuscar, Datos, Nodo, Descriptor
  <1>4. ASSUME AbrirNueva PROVE Datos'
    <2>1. un_nodo.archivo \in escenario.nombres
      BY <1>4 DEF ArchivosInv, Manos, Datos, Nodo, AbrirNueva, PasosLib
    <2>2. ColaNueva \in Identidades /\ DescriptorNuevo \in Identidades
      BY <1>a, Frescos
    <2>3. [file_name |-> un_nodo.archivo, pointer |-> NINGUNO] \in Descriptor
      BY <2>1 DEF Descriptor
    <2>4. /\ IsFiniteSet(DOMAIN colas \cup {ColaNueva})
          /\ IsFiniteSet(DOMAIN descriptores \cup {DescriptorNuevo})
      BY <1>a, FS_AddElement DEF Datos
    <2>5. <<>> \in Seq(Procesos)
      OBVIOUS
    <2>6. PICK cn, dn : cn = ColaNueva /\ dn = DescriptorNuevo
      OBVIOUS
    <2>7. /\ diccionario_colas_archivos' = Con(diccionario_colas_archivos, un_nodo.archivo, cn)
          /\ colas' = Con(colas, cn, <<>>)
          /\ descriptores' = Con(descriptores, dn,
                                 [file_name |-> un_nodo.archivo, pointer |-> NINGUNO])
          /\ descr' = [descr EXCEPT !["fs"] = dn]
          /\ UNCHANGED <<programa, consolasReady, listas, GDT, tablaArchivos, posicionados,
                         un_nodo, exitPCB, cola, caido>>
      BY <1>4, <2>6 DEF AbrirNueva
    <2>8. /\ IsFiniteSet(DOMAIN colas') /\ DOMAIN colas' \subseteq Identidades
          /\ \A q \in DOMAIN colas' : colas'[q] \in Seq(Procesos)
      BY <1>a, <2>2, <2>4, <2>5, <2>6, <2>7 DEF Con, Datos
    <2>9. /\ IsFiniteSet(DOMAIN descriptores') /\ DOMAIN descriptores' \subseteq Identidades
          /\ \A d \in DOMAIN descriptores' : descriptores'[d] \in Descriptor
      BY <1>a, <2>2, <2>3, <2>4, <2>6, <2>7 DEF Con, Datos
    <2>10. /\ DOMAIN diccionario_colas_archivos' \subseteq escenario.nombres
           /\ \A m \in DOMAIN diccionario_colas_archivos' :
                 diccionario_colas_archivos'[m] \in DOMAIN colas'
      BY <1>a, <2>1, <2>7 DEF Con, Datos
    <2>11. descr' \in [Hilos -> Nat]
      BY <1>a, <2>2, <2>6, <2>7 DEF Datos, Identidades
    <2> QED
      BY <1>a, <2>7, <2>8, <2>9, <2>10, <2>11 DEF Datos, Nodo, Descriptor
  <1>5. ASSUME AbrirGdt PROVE Datos'
    <2>1. descr["fs"] \in Identidades /\ un_nodo.un_pcb \in Procesos
      BY <1>5 DEF ArchivosInv, Manos, Datos, AbrirGdt, Nodo, PasosLib, Identidades
    <2>2. Append(GDT, descr["fs"]) \in Seq(Identidades)
      BY <1>a, <2>1, AgregarAlFinal DEF Datos
    <2>3. <<descr["fs"]>> \o tablaArchivos[un_nodo.un_pcb] \in Seq(Identidades)
      BY <1>a, <2>1, AgregarAlFrente DEF Datos
    <2>4. tablaArchivos' \in [Procesos -> Seq(Identidades)]
      BY <1>5, <1>a, <2>1, <2>3 DEF AbrirGdt, Datos
    <2> QED
      BY <1>5, <1>a, <2>1, <2>2, <2>4 DEF AbrirGdt, Datos, Nodo, Descriptor, NULL
  <1>6. ASSUME AbrirTabla PROVE Datos'
    <2>1. descr["fs"] \in Identidades /\ un_nodo.un_pcb \in Procesos
      BY <1>6 DEF ArchivosInv, Manos, Datos, AbrirTabla, Nodo, PasosLib, Identidades
    <2>2. <<descr["fs"]>> \o tablaArchivos[un_nodo.un_pcb] \in Seq(Identidades)
      BY <1>a, <2>1, AgregarAlFrente DEF Datos
    <2>3. tablaArchivos' \in [Procesos -> Seq(Identidades)]
      BY <1>6, <1>a, <2>1, <2>2 DEF AbrirTabla, Datos
    <2>4. cola' \in [Hilos -> Nat]
      BY <1>6, <1>a DEF AbrirTabla, Datos, Identidades, NULL
    <2> QED
      BY <1>6, <1>a, <2>1, <2>3, <2>4 DEF AbrirTabla, Datos, Nodo, Descriptor, NULL
  <1>7. ASSUME AbrirEncolar PROVE Datos'
    <2>1. CASE Cae
      BY <2>1, <1>c
    <2>2. CASE ~Cae
      <3>1. /\ pc["fs"] = "abrir_encolar" /\ cola["fs"] \in DOMAIN colas
            /\ colas' = [colas EXCEPT ![cola["fs"]] = Append(@, un_nodo.un_pcb)]
            /\ un_nodo' = SinNodo
            /\ cola' = [cola EXCEPT !["fs"] = NULL]
            /\ UNCHANGED <<programa, consolasReady, listas, descriptores, GDT,
                           diccionario_colas_archivos, tablaArchivos, posicionados, exitPCB,
                           descr, caido>>
        BY <1>7, <2>2 DEF AbrirEncolar
      <3>2. un_nodo.un_pcb \in Procesos
        BY <3>1 DEF ArchivosInv, Manos, Datos, Nodo, PasosLib
      <3>3. Append(colas[cola["fs"]], un_nodo.un_pcb) \in Seq(Procesos)
        BY <1>a, <3>1, <3>2, AgregarAlFinal DEF Datos
      <3>4. DOMAIN colas' = DOMAIN colas /\ \A q \in DOMAIN colas : colas'[q] \in Seq(Procesos)
        BY <1>a, <3>1, <3>3 DEF Datos
      <3> QED
        BY <1>a, <3>1, <3>4 DEF Datos, Nodo, Descriptor, NULL
    <2> QED
      BY <2>1, <2>2
  <1>8. ASSUME Cerrar PROVE Datos'
    <2>1. PICK p, n : p = Llamada.un_pcb /\ n = Llamada.archivo
      OBVIOUS
    <2>2. p \in Procesos /\ Tail(consolasBlocked) \in Seq(Nodo)
      BY <1>8, <1>b, <2>1 DEF Cerrar, Nodo
    <2>3. PICK d : d = Busca(tablaArchivos[p], n)
      OBVIOUS
    <2>4. CASE d # NULL
      <3>1. /\ consolasBlocked' = Tail(consolasBlocked)
            /\ tablaArchivos' = [tablaArchivos EXCEPT ![p] = RemoveFirst(@, d)]
            /\ posicionados' = posicionados \ {<<p, n>>}
            /\ descr' = [descr EXCEPT !["fs"] = d]
            /\ consolasReady' = consolasReady \cup {p}
            /\ UNCHANGED <<consolasExit, descriptores, GDT, colas, diccionario_colas_archivos>>
            /\ UNCHANGED <<programa, terminados, un_nodo, exitPCB, cola, caido>>
        BY <1>8, <2>1, <2>3, <2>4 DEF Cerrar, Sigue
      <3>2. d \in Nat
        BY <1>a, <2>3, <2>4, LoQueHalla DEF Datos, Identidades
      <3>3. p = Llamada.un_pcb /\ EnBlocked(p)
        BY <1>8, <1>a, <2>1, QuitarElPrimero DEF Cerrar, EnBlocked, Datos
      <3>4. SinRepetidos(tablaArchivos[p])
        BY <2>2, <3>3, ActivoEs DEF ArchivosInv, Tenencia, UnoQueLoTiene, Tenidos
      <3>5. RemoveFirst(tablaArchivos[p], d) \in Seq(Identidades)
        BY <1>a, <2>2, <3>4, QuitarUno DEF Datos
      <3>6. tablaArchivos' \in [Procesos -> Seq(Identidades)]
        BY <1>a, <2>2, <3>1, <3>5 DEF Datos
      <3> QED
        BY <1>a, <2>2, <3>1, <3>2, <3>6 DEF Datos, Nodo, Descriptor
    <2>5. CASE d = NULL
      <3>1. /\ consolasBlocked' = Tail(consolasBlocked)
            /\ consolasExit' = Append(consolasExit, p)
            /\ UNCHANGED <<consolasReady, archivos, descr>>
            /\ UNCHANGED <<programa, terminados, un_nodo, exitPCB, cola, caido>>
        BY <1>8, <2>1, <2>3, <2>5 DEF Cerrar, Falla
      <3>2. Append(consolasExit, p) \in Seq(Procesos)
        BY <1>a, <2>2, AgregarAlFinal DEF Datos
      <3> QED
        BY <1>a, <2>2, <3>1, <3>2 DEF Datos, Nodo, Descriptor
    <2> QED
      BY <2>4, <2>5
  <1>9. ASSUME Posicionar PROVE Datos'
    <2>1. CASE Cae
      BY <2>1, <1>c
    <2>2. CASE ~Cae
      <3>1. PICK p, n : p = Llamada.un_pcb /\ n = Llamada.archivo
        OBVIOUS
      <3>2. PICK d : d = Busca(tablaArchivos[p], n)
        OBVIOUS
      <3>3. p \in Procesos /\ n \in Nat /\ Tail(consolasBlocked) \in Seq(Nodo)
        BY <1>9, <1>a, <1>b, <3>1 DEF Posicionar, Nodo
      <3>4. /\ consolasBlocked' = Tail(consolasBlocked) /\ d # NULL
            /\ descriptores' = [descriptores EXCEPT ![d].pointer = p]
            /\ posicionados' = posicionados \cup {<<p, n>>}
            /\ consolasReady' = consolasReady \cup {p}
            /\ UNCHANGED <<consolasExit, programa, terminados, GDT, colas,
                           diccionario_colas_archivos, tablaArchivos, locales, caido>>
        BY <1>9, <2>2, <3>1, <3>2 DEF Posicionar, Sigue
      <3>5. /\ DOMAIN descriptores' = DOMAIN descriptores
            /\ \A e \in DOMAIN descriptores : descriptores'[e] \in Descriptor
        BY <1>a, <3>3, <3>4 DEF Datos, Descriptor
      <3>6. posicionados' \subseteq Procesos \X Nat
        BY <1>a, <3>3, <3>4 DEF Datos
      <3>7. consolasReady' \subseteq Procesos
        BY <1>a, <3>3, <3>4 DEF Datos
      <3> QED
        BY <1>a, <3>3, <3>4, <3>5, <3>6, <3>7 DEF Datos, Nodo, Descriptor
    <2> QED
      BY <2>1, <2>2
  <1>10. ASSUME Transferir PROVE Datos'
    <2>1. Busca(GDT, Llamada.archivo) \in Nat
      BY <1>a, LoQueHalla DEF Datos, Identidades, NULL
    <2>2. CASE Cae
      BY <2>2, <1>c
    <2>3. CASE ~Cae
      BY <1>10, <1>a, <1>b, <2>1, <2>3 DEF Transferir, Datos, Nodo, Descriptor
    <2> QED
      BY <2>2, <2>3
  <1>11. ASSUME Recibir PROVE Datos'
    <2>1. pc["fs"] = "recibir"
      BY <1>11 DEF Recibir
    <2>2. un_nodo.un_pcb \in Procesos
      BY <2>1 DEF ArchivosInv, Manos, Datos, Nodo, PasosLib
    <2>3. CASE Cae
      BY <2>3, <1>c
    <2>4. CASE ~Cae
      <3>1. /\ un_nodo' = SinNodo
            /\ consolasReady' = consolasReady \cup {un_nodo.un_pcb}
            /\ descr' = [descr EXCEPT !["fs"] = NULL]
            /\ UNCHANGED <<programa, listas, archivos, exitPCB, cola, caido>>
        BY <1>11, <2>4 DEF Recibir
      <3> QED
        BY <1>a, <2>2, <3>1 DEF Datos, Nodo, Descriptor, NULL
    <2> QED
      BY <2>3, <2>4
  <1>12. ASSUME Truncar PROVE Datos'
    <2>1. Llamada.un_pcb \in Procesos
      BY <1>12, <1>b DEF Truncar, Nodo
    <2>2. Append(consolasExit, Llamada.un_pcb) \in Seq(Procesos)
      BY <1>a, <2>1, AgregarAlFinal DEF Datos
    <2>3. Tail(consolasBlocked) \in Seq(Nodo)
      BY <1>12, <1>b DEF Truncar
    <2>4. /\ consolasBlocked' = Tail(consolasBlocked)
          /\ consolasReady' \subseteq Procesos /\ consolasExit' \in Seq(Procesos)
          /\ UNCHANGED <<programa, terminados, archivos, locales, caido>>
      BY <1>12, <1>a, <2>1, <2>2 DEF Truncar, Sigue, Falla, Datos
    <2> QED
      BY <1>a, <2>3, <2>4 DEF Datos, Nodo, Descriptor
  <1>13. ASSUME NEW t \in Hilos, LibCola(t) PROVE Datos'
    <2>1. cola' \in [Hilos -> Nat]
      BY <1>13, <1>a DEF LibCola, Datos, Identidades, NULL
    <2> QED
      BY <1>13, <1>a, <2>1 DEF LibCola, Datos, Nodo, Descriptor
  <1>14. ASSUME NEW t \in Hilos, LibVacia(t) PROVE Datos'
    <2>1. CASE Cae
      BY <2>1, <1>c
    <2>2. CASE ~Cae
      BY <1>14, <1>a, <2>2 DEF LibVacia, Datos, Nodo, Descriptor
    <2> QED
      BY <2>1, <2>2
  <1>15. ASSUME NEW t \in Hilos, LibGdt(t) PROVE Datos'
    <2>1. RemoveFirst(GDT, descr[t]) \in Seq(Identidades)
      BY <1>a, QuitarUno DEF Datos, ArchivosInv, Tenencia, UnoPorNombre
    <2> QED
      BY <1>15, <1>a, <2>1 DEF LibGdt, Datos, Nodo, Descriptor
  <1>16. ASSUME NEW t \in Hilos, LibClave(t) PROVE Datos'
    BY <1>16, <1>a DEF LibClave, Datos, Nodo, Descriptor
  <1>17. ASSUME NEW t \in Hilos, LibDestruir(t) PROVE Datos'
    <2>1. /\ colas' = [q \in DOMAIN colas \ {cola[t]} |-> colas[q]]
          /\ descriptores' = [d \in DOMAIN descriptores \ {descr[t]} |-> descriptores[d]]
          /\ descr' = [descr EXCEPT ![t] = NULL] /\ cola' = [cola EXCEPT ![t] = NULL]
          /\ pc[t] = "lib_destruir"
          /\ UNCHANGED <<programa, consolasReady, listas, GDT, diccionario_colas_archivos,
                         tablaArchivos, posicionados, un_nodo, exitPCB, caido>>
      BY <1>17 DEF LibDestruir, Olvida
    <2>2. /\ IsFiniteSet(DOMAIN colas \ {cola[t]})
          /\ IsFiniteSet(DOMAIN descriptores \ {descr[t]})
      BY <1>a, FS_RemoveElement DEF Datos
    <2>3. \A m \in DOMAIN diccionario_colas_archivos :
             diccionario_colas_archivos[m] \in DOMAIN colas \ {cola[t]}
      BY <1>a, <2>1 DEF ArchivosInv, NombresDeCola, Datos, Libera, PasosLib
    <2> QED
      BY <1>a, <2>1, <2>2, <2>3 DEF Datos, Nodo, Descriptor, NULL
  <1>18. ASSUME NEW t \in Hilos, LibQuitar(t) PROVE Datos'
    <2>1. /\ consolasReady' = consolasReady \cup {Head(colas[cola[t]])}
          /\ colas' = [colas EXCEPT ![cola[t]] = Tail(@)]
          /\ descr' = [descr EXCEPT ![t] = NULL] /\ cola' = [cola EXCEPT ![t] = NULL]
          /\ pc[t] = "lib_quitar"
          /\ UNCHANGED <<programa, listas, descriptores, GDT, diccionario_colas_archivos,
                         tablaArchivos, posicionados, un_nodo, exitPCB, caido>>
      BY <1>18 DEF LibQuitar, Olvida
    <2>2. cola[t] \in DOMAIN colas /\ colas[cola[t]] # <<>>
      BY <2>1 DEF ArchivosInv, Manos, Libera, PasosLib
    <2>3. Head(colas[cola[t]]) \in Procesos /\ Tail(colas[cola[t]]) \in Seq(Procesos)
      BY <1>a, <2>2, QuitarElPrimero DEF Datos
    <2>4. DOMAIN colas' = DOMAIN colas /\ \A q \in DOMAIN colas : colas'[q] \in Seq(Procesos)
      BY <1>a, <2>1, <2>3 DEF Datos
    <2> QED
      BY <1>a, <2>1, <2>3, <2>4 DEF Datos, Nodo, Descriptor, NULL
  <1>19. ASSUME ExitTomar PROVE Datos'
    BY <1>19, <1>a, QuitarElPrimero DEF ExitTomar, Datos, Nodo, Descriptor
  <1>20. ASSUME ExitCerrarUno PROVE Datos'
    <2>1. exitPCB \in Procesos
      BY <1>20, <1>a DEF ExitCerrarUno, ArchivosInv, Manos, Datos
    <2>2. tablaArchivos[exitPCB] \in Seq(Identidades) /\ tablaArchivos[exitPCB] # <<>>
      BY <1>20, <1>a, <2>1 DEF ExitCerrarUno, Datos
    <2>3. /\ Head(tablaArchivos[exitPCB]) \in Identidades
          /\ Tail(tablaArchivos[exitPCB]) \in Seq(Identidades)
      BY <2>2, QuitarElPrimero
    <2>4. tablaArchivos' \in [Procesos -> Seq(Identidades)]
      BY <1>20, <1>a, <2>1, <2>3 DEF ExitCerrarUno, Datos
    <2> QED
      BY <1>20, <1>a, <2>3, <2>4 DEF ExitCerrarUno, Datos, Nodo, Descriptor, Identidades
  <1>21. ASSUME ExitTerminar PROVE Datos'
    <2>1. exitPCB \in Procesos
      BY <1>21, <1>a DEF ExitTerminar, ArchivosInv, Manos, Datos
    <2> QED
      BY <1>21, <1>a, <2>1 DEF ExitTerminar, Datos, Nodo, Descriptor
  <1>22. CASE UNCHANGED vars
    BY <1>22, <1>a DEF vars, Datos, Nodo, Descriptor
  <1> QED
    BY <1>1, <1>2, <1>3, <1>4, <1>5, <1>6, <1>7, <1>8, <1>9, <1>10, <1>11, <1>12, <1>13, <1>14,
       <1>15, <1>16, <1>17, <1>18, <1>19, <1>20, <1>21, <1>22
       DEF Next, Proceso, OperarFS, GestionadorExit, Liberar

LEMMA ManosAlInicio == Init => Manos
  BY ArchivosAssumption DEF Init, Manos, Hilos, Libera, PasosLib, NULL

LEMMA ManosEnUnPaso == ArchivosInv /\ [Next]_vars => Manos'
  <1> SUFFICES ASSUME ArchivosInv, [Next]_vars PROVE Manos'
    OBVIOUS
  <1> USE DEF Hilos, Va, Atiende, Llega, programa, listas, archivos, locales, PasosLib, Libera
  <1>a. Datos /\ Manos
    BY DEF ArchivosInv
  <1>n. \A x \in Nodo : x # SinNodo /\ x.un_pcb \in Procesos
    BY ArchivosAssumption DEF Nodo, SinNodo
  <1>b. ASSUME NEW op, Llega(op) PROVE Llamada \in Nodo /\ Llamada # SinNodo
    BY <1>a, <1>b, <1>n, QuitarElPrimero DEF Datos, Llamada
  <1>c. ASSUME Cae PROVE Manos'
    BY <1>c, SinMoverse DEF Cae, Quieto, ArchivosInv
  <1>1. ASSUME NEW p \in Procesos, NEW op \in Operaciones, NEW n \in escenario.nombres,
               Pedir(p, op, n)
        PROVE  Manos'
    BY <1>1, <1>a DEF Pedir, Manos
  <1>2. ASSUME NEW p \in Procesos, Terminar(p) PROVE Manos'
    BY <1>2, <1>a DEF Terminar, Manos
  <1>3. ASSUME AbrirBuscar PROVE Manos'
    <2>1. PICK d : d = Busca(GDT, Llamada.archivo)
      OBVIOUS
    <2>2. /\ pc["fs"] = "tomar"
          /\ pc' = [pc EXCEPT !["fs"] = IF d = NULL THEN "abrir_nueva" ELSE "abrir_tabla"]
          /\ un_nodo' = Llamada /\ descr' = [descr EXCEPT !["fs"] = d]
          /\ UNCHANGED <<archivos, exitPCB, cola>>
      BY <1>3, <2>1 DEF AbrirBuscar
    <2>3. un_nodo' # SinNodo
      BY <1>3, <1>b, <2>2 DEF AbrirBuscar
    <2> QED
      BY <1>a, <2>2, <2>3 DEF Datos, Manos
  <1>4. ASSUME AbrirNueva PROVE Manos'
    <2>1. PICK cn, dn : cn = ColaNueva /\ dn = DescriptorNuevo
      OBVIOUS
    <2>2. cn \in Identidades /\ dn \in Identidades
      BY <1>a, <2>1, Frescos
    <2>3. /\ pc["fs"] = "abrir_nueva" /\ pc' = [pc EXCEPT !["fs"] = "abrir_gdt"]
          /\ colas' = Con(colas, cn, <<>>)
          /\ descriptores' = Con(descriptores, dn,
                                 [file_name |-> un_nodo.archivo, pointer |-> NINGUNO])
          /\ descr' = [descr EXCEPT !["fs"] = dn]
          /\ UNCHANGED <<GDT, tablaArchivos, posicionados, un_nodo, exitPCB, cola>>
      BY <1>4, <2>1 DEF AbrirNueva
    <2>4. /\ DOMAIN colas' = DOMAIN colas \cup {cn} /\ \A q \in DOMAIN colas :
                                                         q # cn => colas'[q] = colas[q]
          /\ DOMAIN descriptores' = DOMAIN descriptores \cup {dn}
          /\ descriptores'[dn].file_name = un_nodo.archivo
      BY <2>3 DEF Con
    <2>5. cn \notin DOMAIN colas
      BY <1>a, <2>1, Frescos
    <2> QED
      BY <1>a, <2>2, <2>3, <2>4, <2>5 DEF Datos, Manos, Identidades
  <1>5. ASSUME AbrirGdt PROVE Manos'
    BY <1>5, <1>a DEF AbrirGdt, Datos, Manos
  <1>6. ASSUME AbrirTabla PROVE Manos'
    BY <1>6, <1>a DEF AbrirTabla, Datos, Manos, Identidades
  <1>7. ASSUME AbrirEncolar PROVE Manos'
    <2>1. CASE Cae
      BY <2>1, <1>c
    <2>2. CASE ~Cae
      <3>1. /\ pc["fs"] = "abrir_encolar" /\ cola["fs"] \in DOMAIN colas
            /\ pc' = [pc EXCEPT !["fs"] = "tomar"]
            /\ colas' = [colas EXCEPT ![cola["fs"]] = Append(@, un_nodo.un_pcb)]
            /\ un_nodo' = SinNodo
            /\ cola' = [cola EXCEPT !["fs"] = NULL]
            /\ UNCHANGED <<descriptores, exitPCB, descr>>
        BY <1>7, <2>2 DEF AbrirEncolar
      <3>2. un_nodo.un_pcb \in Procesos
        <4>1. un_nodo # SinNodo
          BY <1>a, <3>1 DEF Manos
        <4> QED
          BY <1>a, <1>n, <4>1 DEF Datos
      <3>3. Append(colas[cola["fs"]], un_nodo.un_pcb) # <<>>
        <4>1. colas[cola["fs"]] \in Seq(Procesos)
          BY <1>a, <3>1 DEF Datos
        <4> QED
          BY <3>2, <4>1, AgregarAlFinal
      <3>4. DOMAIN colas' = DOMAIN colas /\ \A q \in DOMAIN colas : colas[q] # <<>> =>
                                                                       colas'[q] # <<>>
        BY <1>a, <3>1, <3>3 DEF Datos
      <3> QED
        BY <1>a, <3>1, <3>4 DEF Datos, Manos
    <2> QED
      BY <2>1, <2>2
  <1>8. ASSUME Cerrar PROVE Manos'
    <2>1. PICK p, n : p = Llamada.un_pcb /\ n = Llamada.archivo
      OBVIOUS
    <2>2. PICK d : d = Busca(tablaArchivos[p], n)
      OBVIOUS
    <2>3. CASE d # NULL
      <3>1. /\ pc["fs"] = "tomar" /\ pc' = [pc EXCEPT !["fs"] = "lib_cola"]
            /\ descr' = [descr EXCEPT !["fs"] = d]
            /\ UNCHANGED <<descriptores, colas, un_nodo, exitPCB, cola>>
        BY <1>8, <2>1, <2>2, <2>3 DEF Cerrar
      <3>2. d \in DOMAIN descriptores
        BY <2>2, <2>3, LoQueHalla
      <3> QED
        BY <1>a, <2>3, <3>1, <3>2 DEF Datos, Manos
    <2>4. CASE d = NULL
      <3>1. /\ pc["fs"] = "tomar" /\ pc' = [pc EXCEPT !["fs"] = "tomar"]
            /\ UNCHANGED <<descriptores, colas, descr, un_nodo, exitPCB, cola>>
        BY <1>8, <2>1, <2>2, <2>4 DEF Cerrar, Falla
      <3> QED
        BY <1>a, <3>1 DEF Datos, Manos
    <2> QED
      BY <2>3, <2>4
  <1>9. ASSUME Posicionar PROVE Manos'
    <2>1. CASE Cae
      BY <2>1, <1>c
    <2>2. CASE ~Cae
      <3>1. PICK d, p : /\ pc["fs"] = "tomar" /\ pc' = [pc EXCEPT !["fs"] = "tomar"]
                        /\ descriptores' = [descriptores EXCEPT ![d].pointer = p]
                        /\ UNCHANGED <<colas, locales>>
        BY <1>9, <2>2 DEF Posicionar
      <3>2. DOMAIN descriptores' = DOMAIN descriptores
        BY <3>1
      <3> QED
        BY <1>a, <3>1, <3>2 DEF Datos, Manos
    <2> QED
      BY <2>1, <2>2
  <1>10. ASSUME Transferir PROVE Manos'
    <2>1. CASE Cae
      BY <2>1, <1>c
    <2>2. CASE ~Cae
      <3>1. PICK d : d = Busca(GDT, Llamada.archivo)
        OBVIOUS
      <3>2. /\ pc["fs"] = "tomar" /\ pc' = [pc EXCEPT !["fs"] = "recibir"] /\ d # NULL
            /\ un_nodo' = Llamada /\ descr' = [descr EXCEPT !["fs"] = d]
            /\ UNCHANGED <<archivos, exitPCB, cola>>
        BY <1>10, <2>2, <3>1 DEF Transferir
      <3>3. un_nodo' # SinNodo
        BY <1>10, <1>b, <3>2 DEF Transferir
      <3> QED
        BY <1>a, <3>2, <3>3 DEF Datos, Manos
    <2> QED
      BY <2>1, <2>2
  <1>11. ASSUME Recibir PROVE Manos'
    <2>1. CASE Cae
      BY <2>1, <1>c
    <2>2. CASE ~Cae
      BY <1>11, <2>2, <1>a DEF Recibir, Datos, Manos
    <2> QED
      BY <2>1, <2>2
  <1>12. ASSUME Truncar PROVE Manos'
    <2>1. /\ pc["fs"] = "tomar" /\ pc' = [pc EXCEPT !["fs"] = "tomar"]
          /\ UNCHANGED <<descriptores, colas, locales>>
      BY <1>12 DEF Truncar, Falla
    <2> QED
      BY <1>a, <2>1 DEF Datos, Manos
  <1>13. ASSUME NEW t \in Hilos, LibCola(t) PROVE Manos'
    <2>1. PICK n, D : n = Nombre(t) /\ D = diccionario_colas_archivos
      OBVIOUS
    <2>2. /\ pc[t] = "lib_cola" /\ pc' = [pc EXCEPT ![t] = "lib_vacia"]
          /\ cola' = [cola EXCEPT ![t] = IF n \in DOMAIN D THEN D[n] ELSE NULL]
          /\ UNCHANGED <<archivos, un_nodo, exitPCB, descr>>
      BY <1>13, <2>1 DEF LibCola
    <2>3. n \in DOMAIN D => D[n] \in DOMAIN colas
      BY <1>a, <2>1 DEF Datos
    <2> QED
      BY <1>a, <2>2, <2>3 DEF Datos, Manos
  <1>14. ASSUME NEW t \in Hilos, LibVacia(t) PROVE Manos'
    <2>1. CASE Cae
      BY <2>1, <1>c
    <2>2. CASE ~Cae
      <3>1. PICK h : h = IF colas[cola[t]] = <<>> THEN "lib_gdt" ELSE "lib_quitar"
        OBVIOUS
      <3>2. /\ pc[t] = "lib_vacia" /\ pc' = [pc EXCEPT ![t] = h] /\ cola[t] \in DOMAIN colas
            /\ UNCHANGED <<archivos, locales>>
        BY <1>14, <2>2, <3>1 DEF LibVacia
      <3>3. h \in {"lib_gdt", "lib_quitar"} /\ (h = "lib_quitar" => colas[cola[t]] # <<>>)
        BY <3>1
      <3> QED
        BY <1>a, <3>2, <3>3 DEF Datos, Manos, Identidades
    <2> QED
      BY <2>1, <2>2
  <1>15. ASSUME NEW t \in Hilos, LibGdt(t) PROVE Manos'
    BY <1>15, <1>a DEF LibGdt, Datos, Manos
  <1>16. ASSUME NEW t \in Hilos, LibClave(t) PROVE Manos'
    BY <1>16, <1>a DEF LibClave, Datos, Manos
  <1>17. ASSUME NEW t \in Hilos, LibDestruir(t) PROVE Manos'
    <2>1. /\ colas' = [q \in DOMAIN colas \ {cola[t]} |-> colas[q]]
          /\ descriptores' = [d \in DOMAIN descriptores \ {descr[t]} |-> descriptores[d]]
          /\ descr' = [descr EXCEPT ![t] = NULL] /\ cola' = [cola EXCEPT ![t] = NULL]
          /\ pc[t] = "lib_destruir" /\ pc' = [pc EXCEPT ![t] = TrasLiberar(t)]
          /\ UNCHANGED <<un_nodo, exitPCB>>
      BY <1>17 DEF LibDestruir, Olvida
    <2>2. ASSUME NEW u \in Hilos, u # t, Libera(u)
          PROVE  descr[u] # descr[t] /\ cola[u] # cola[t]
      BY <1>a, <2>1, <2>2, LosDosHilos DEF ArchivosInv, Manos
    <2>3. ASSUME pc["fs"] = "abrir_gdt", t = "exit" PROVE descr["fs"] # descr["exit"]
      BY <2>3 DEF ArchivosInv, Tenencia, Abriendo
    <2> QED
      BY <1>a, <2>1, <2>2, <2>3 DEF Datos, Manos, TrasLiberar
  <1>18. ASSUME NEW t \in Hilos, LibQuitar(t) PROVE Manos'
    <2>1. /\ colas' = [colas EXCEPT ![cola[t]] = Tail(@)]
          /\ descr' = [descr EXCEPT ![t] = NULL] /\ cola' = [cola EXCEPT ![t] = NULL]
          /\ pc[t] = "lib_quitar" /\ pc' = [pc EXCEPT ![t] = TrasLiberar(t)]
          /\ UNCHANGED <<descriptores, un_nodo, exitPCB>>
      BY <1>18 DEF LibQuitar, Olvida
    <2>2. ASSUME NEW u \in Hilos, u # t, Libera(u) PROVE cola[u] # NULL => cola[u] # cola[t]
      BY <1>a, <2>1, <2>2, LosDosHilos DEF ArchivosInv, Manos
    <2> QED
      BY <1>a, <2>1, <2>2 DEF Datos, Manos, TrasLiberar
  <1>19. ASSUME ExitTomar PROVE Manos'
    <2>1. Head(consolasExit) \in Procesos
      BY <1>19, <1>a, QuitarElPrimero DEF ExitTomar, Datos
    <2> QED
      BY <1>19, <1>a, <2>1, ArchivosAssumption DEF ExitTomar, Datos, Manos
  <1>20. ASSUME ExitCerrarUno PROVE Manos'
    <2>1. exitPCB \in Procesos /\ Saliendo(exitPCB)
      BY <1>20, <1>a DEF ExitCerrarUno, Manos, Datos, Saliendo
    <2>2. tablaArchivos[exitPCB] \in Seq(Identidades) /\ tablaArchivos[exitPCB] # <<>>
      BY <1>20, <1>a, <2>1 DEF ExitCerrarUno, Datos
    <2>3. PICK d : d = Head(tablaArchivos[exitPCB])
      OBVIOUS
    <2>4. d \in Identidades /\ EnLista(tablaArchivos[exitPCB], d)
      BY <2>2, <2>3, QuitarElPrimero
    <2>5. Tiene(exitPCB, d)
      BY <2>1, <2>4, ActivoEs DEF Tenidos, Tiene
    <2>6. d \in DOMAIN descriptores
      BY <2>1, <2>5 DEF ArchivosInv, Tenencia, UnoQueLoTiene, UnoPorNombre
    <2>7. /\ pc["exit"] = "siguiente" /\ pc' = [pc EXCEPT !["exit"] = "lib_cola"]
          /\ descr' = [descr EXCEPT !["exit"] = d]
          /\ UNCHANGED <<descriptores, colas, un_nodo, exitPCB, cola>>
      BY <1>20, <2>3 DEF ExitCerrarUno
    <2> QED
      BY <1>a, <2>4, <2>6, <2>7 DEF Datos, Manos, Identidades
  <1>21. ASSUME ExitTerminar PROVE Manos'
    BY <1>21, <1>a DEF ExitTerminar, Datos, Manos
  <1>22. CASE UNCHANGED vars
    BY <1>22, <1>a DEF vars, Manos
  <1> QED
    BY <1>1, <1>2, <1>3, <1>4, <1>5, <1>6, <1>7, <1>8, <1>9, <1>10, <1>11, <1>12, <1>13, <1>14,
       <1>15, <1>16, <1>17, <1>18, <1>19, <1>20, <1>21, <1>22
       DEF Next, Proceso, OperarFS, GestionadorExit, Liberar
-----------------------------------------------------------------------------
(* Where each process is, and whether it is at work *)

\* Who was at work is, and who waited waits.
MismaActividad ==
    \A p \in Procesos : (Activo(p)' <=> Activo(p)) /\ (Espera(p)' <=> Espera(p))

\* operarFS takes a process to the queue of a file, or it is not doing so.
MismoEncolar == pc'["fs"] = "abrir_encolar" <=> pc["fs"] = "abrir_encolar"

LEMMA NadieSeMueve ==
    ASSUME Lugares,
           UNCHANGED <<consolasReady, listas, un_nodo, exitPCB>>,
           DOMAIN colas \subseteq DOMAIN colas',
           \A q \in DOMAIN colas : colas'[q] = colas[q],
           \A q \in DOMAIN colas' : q \in DOMAIN colas \/ colas'[q] = <<>>
    PROVE  /\ Lugares' /\ (MismoEncolar => MismaActividad)
           /\ \A p, q : EnCola(p, q)' <=> EnCola(p, q)
  <1> USE DEF listas
  <1>1. ASSUME NEW p, NEW q PROVE EnCola(p, q)' <=> EnCola(p, q)
    BY DEF EnCola, EnLista
  <1>2. ASSUME NEW q \in DOMAIN colas' PROVE SinRepetidos(colas[q])'
    BY DEF Lugares, SinRepetidos
  <1>3. Lugares'
    BY <1>1, <1>2 DEF Lugares, EnReady, EnBlocked, EnExit, EnMano, Saliendo, Libre
  <1>4. ASSUME MismoEncolar PROVE MismaActividad
    BY <1>1, <1>4, ActivoEs, EsperaEs, ActivoEsPrima, EsperaEsPrima
       DEF MismaActividad, MismoEncolar, EnReady, EnBlocked, EnExit, EnMano, Saliendo
  <1> QED
    BY <1>1, <1>3, <1>4

LEMMA DeReadyABlocked ==
    ASSUME Lugares, Datos, NEW p \in consolasReady, NEW x \in Nodo, x.un_pcb = p,
           consolasReady' = consolasReady \ {p},
           consolasBlocked' = Append(consolasBlocked, x),
           UNCHANGED <<consolasExit, terminados, colas, un_nodo, exitPCB, pc>>
    PROVE  Lugares' /\ MismaActividad
  <1>1. p \in Procesos
    BY DEF Datos
  <1>2. \A y \in Procesos : /\ EnReady(y)' <=> EnReady(y) /\ y # p
                            /\ EnBlocked(y)' <=> EnBlocked(y) \/ y = p
    BY AgregarAlFinal DEF Datos, EnReady, EnBlocked
  <1>3. \A y, q : /\ (EnExit(y)' <=> EnExit(y)) /\ (EnMano(y)' <=> EnMano(y))
                  /\ (Saliendo(y)' <=> Saliendo(y)) /\ (EnCola(y, q)' <=> EnCola(y, q))
    BY DEF EnExit, EnMano, Saliendo, EnCola
  <1>4. EnReady(p)
    BY DEF EnReady
  <1>5. NodosDistintos(consolasBlocked)'
    BY <1>1, <1>4, AgregarAlFinal DEF Datos, Lugares, EnBlocked
  <1>6. Lugares'
    BY <1>1, <1>2, <1>3, <1>4, <1>5 DEF Lugares, Libre
  <1>7. MismaActividad
    BY <1>1, <1>2, <1>3, <1>4, ActivoEs, EsperaEs, ActivoEsPrima, EsperaEsPrima DEF MismaActividad
  <1> QED
    BY <1>6, <1>7

LEMMA DeReadyAExit ==
    ASSUME Lugares, Datos, NEW p \in consolasReady,
           consolasReady' = consolasReady \ {p},
           consolasExit' = Append(consolasExit, p),
           UNCHANGED <<consolasBlocked, terminados, colas, un_nodo, exitPCB, pc>>
    PROVE  Lugares' /\ MismaActividad
  <1>1. p \in Procesos
    BY DEF Datos
  <1>2. \A y \in Procesos : /\ EnReady(y)' <=> EnReady(y) /\ y # p
                            /\ EnExit(y)' <=> EnExit(y) \/ y = p
    BY <1>1, AgregarAlFinal DEF Datos, EnReady, EnExit
  <1>3. \A y, q : /\ (EnBlocked(y)' <=> EnBlocked(y)) /\ (EnMano(y)' <=> EnMano(y))
                  /\ (Saliendo(y)' <=> Saliendo(y)) /\ (EnCola(y, q)' <=> EnCola(y, q))
    BY DEF EnBlocked, EnMano, Saliendo, EnCola
  <1>4. EnReady(p)
    BY DEF EnReady
  <1>5. SinRepetidos(consolasExit)'
    BY <1>1, <1>4, AgregarAlFinal DEF Datos, Lugares, EnExit
  <1>6. Lugares'
    BY <1>1, <1>2, <1>3, <1>4, <1>5 DEF Lugares, Libre
  <1>7. MismaActividad
    BY <1>1, <1>2, <1>3, <1>4, ActivoEs, EsperaEs, ActivoEsPrima, EsperaEsPrima DEF MismaActividad
  <1> QED
    BY <1>6, <1>7

\* What operarFS takes from consolasBlocked.
LEMMA LaLlamada ==
    ASSUME Lugares, Datos, consolasBlocked # <<>>
    PROVE  /\ Llamada \in Nodo /\ Llamada.un_pcb \in Procesos
           /\ Llamada.archivo \in escenario.nombres
           /\ EnBlocked(Llamada.un_pcb)
           /\ Tail(consolasBlocked) \in Seq(Nodo) /\ NodosDistintos(Tail(consolasBlocked))
           /\ \A y : EnNodos(Tail(consolasBlocked), y) <=> EnBlocked(y) /\ y # Llamada.un_pcb
  <1>1. consolasBlocked \in Seq(Nodo) /\ NodosDistintos(consolasBlocked)
    BY DEF Datos, Lugares
  <1>2. /\ Llamada \in Nodo /\ Tail(consolasBlocked) \in Seq(Nodo)
        /\ NodosDistintos(Tail(consolasBlocked))
        /\ \A y : EnNodos(consolasBlocked, y) <=>
                      EnNodos(Tail(consolasBlocked), y) \/ y = Llamada.un_pcb
        /\ ~EnNodos(Tail(consolasBlocked), Llamada.un_pcb)
    BY <1>1, QuitarElPrimero DEF Llamada
  <1> QED
    BY <1>2 DEF Nodo, EnBlocked

LEMMA DeBlockedAMano ==
    ASSUME Lugares, Datos, consolasBlocked # <<>>, un_nodo = SinNodo,
           consolasBlocked' = Tail(consolasBlocked), un_nodo' = Llamada,
           UNCHANGED <<consolasReady, consolasExit, terminados, colas, exitPCB>>
    PROVE  Lugares' /\ (~MismoEncolar \/ pc["fs"] = "abrir_encolar" \/ MismaActividad)
  <1> DEFINE p == Llamada.un_pcb
  <1>1. p \in Procesos /\ EnBlocked(p)
    BY LaLlamada
  <1>2. \A y \in Procesos : ~EnMano(y)
    BY ArchivosAssumption DEF EnMano, SinNodo
  <1>3. \A y \in Procesos : /\ EnMano(y)' <=> y = p
                            /\ EnBlocked(y)' <=> EnBlocked(y) /\ y # p
    BY LaLlamada DEF EnMano, EnBlocked
  <1>4. \A y, q : /\ (EnExit(y)' <=> EnExit(y)) /\ (EnReady(y)' <=> EnReady(y))
                  /\ (Saliendo(y)' <=> Saliendo(y)) /\ (EnCola(y, q)' <=> EnCola(y, q))
    BY DEF EnExit, EnReady, Saliendo, EnCola
  <1>5. NodosDistintos(consolasBlocked)'
    BY LaLlamada
  <1> HIDE DEF p
  <1>6. Lugares'
    BY <1>1, <1>2, <1>3, <1>4, <1>5 DEF Lugares, Libre
  <1>7. ASSUME MismoEncolar, pc["fs"] # "abrir_encolar" PROVE MismaActividad
    BY <1>1, <1>2, <1>3, <1>4, <1>7, ActivoEs, EsperaEs, ActivoEsPrima, EsperaEsPrima
       DEF MismaActividad, MismoEncolar
  <1> QED
    BY <1>6, <1>7

LEMMA DeManoAReady ==
    ASSUME Lugares, Datos, un_nodo # SinNodo, un_nodo' = SinNodo, pc["fs"] # "abrir_encolar",
           MismoEncolar,
           consolasReady' = consolasReady \cup {un_nodo.un_pcb},
           UNCHANGED <<listas, colas, exitPCB>>
    PROVE  Lugares' /\ MismaActividad
  <1> USE DEF listas
  <1> DEFINE p == un_nodo.un_pcb
  <1>1. p \in Procesos /\ EnMano(p) /\ \A y \in Procesos : EnMano(y) <=> y = p
    BY DEF Datos, Nodo, EnMano
  <1>2. \A y \in Procesos : ~EnMano(y)'
    BY ArchivosAssumption DEF EnMano, SinNodo
  <1>3. \A y \in Procesos : EnReady(y)' <=> EnReady(y) \/ y = p
    BY DEF EnReady
  <1>4. \A y, q : /\ (EnExit(y)' <=> EnExit(y)) /\ (EnBlocked(y)' <=> EnBlocked(y))
                  /\ (Saliendo(y)' <=> Saliendo(y)) /\ (EnCola(y, q)' <=> EnCola(y, q))
    BY DEF EnExit, EnBlocked, Saliendo, EnCola
  <1> HIDE DEF p
  <1>6. Lugares'
    BY <1>1, <1>2, <1>3, <1>4 DEF Lugares, Libre
  <1>7. MismaActividad
    BY <1>1, <1>2, <1>3, <1>4, ActivoEs, EsperaEs, ActivoEsPrima, EsperaEsPrima
       DEF MismaActividad, MismoEncolar
  <1> QED
    BY <1>6, <1>7

LEMMA DeManoACola ==
    ASSUME Lugares, Datos, un_nodo # SinNodo, un_nodo' = SinNodo, pc["fs"] = "abrir_encolar",
           pc'["fs"] # "abrir_encolar",
           NEW k \in DOMAIN colas,
           colas' = [colas EXCEPT ![k] = Append(@, un_nodo.un_pcb)],
           UNCHANGED <<consolasReady, listas, exitPCB>>
    PROVE  /\ Lugares' /\ MismaActividad
           /\ un_nodo.un_pcb \in Procesos
           /\ \A y, q : EnCola(y, q)' <=> EnCola(y, q) \/ (y = un_nodo.un_pcb /\ q = k)
  <1> USE DEF listas
  <1> DEFINE p == un_nodo.un_pcb
  <1>1. p \in Procesos /\ EnMano(p) /\ \A y \in Procesos : EnMano(y) <=> y = p
    BY DEF Datos, Nodo, EnMano
  <1>2. \A y \in Procesos : ~EnMano(y)'
    BY ArchivosAssumption DEF EnMano, SinNodo
  <1>3. /\ colas[k] \in Seq(Procesos) /\ SinRepetidos(colas[k]) /\ ~EnLista(colas[k], p)
        /\ DOMAIN colas' = DOMAIN colas /\ colas'[k] = Append(colas[k], p)
        /\ \A q \in DOMAIN colas : q # k => colas'[q] = colas[q]
    BY <1>1 DEF Datos, Lugares, Libre, EnCola
  <1> HIDE DEF p
  <1>4. SinRepetidos(colas'[k]) /\ \A y : EnLista(colas'[k], y) <=> EnLista(colas[k], y) \/ y = p
    BY <1>1, <1>3, AgregarAlFinal
  <1>5. \A y, q : EnCola(y, q)' <=> EnCola(y, q) \/ (y = p /\ q = k)
    BY <1>3, <1>4 DEF EnCola
  <1>6. \A y : /\ (EnExit(y)' <=> EnExit(y)) /\ (EnBlocked(y)' <=> EnBlocked(y))
               /\ (Saliendo(y)' <=> Saliendo(y)) /\ (EnReady(y)' <=> EnReady(y))
    BY DEF EnExit, EnBlocked, Saliendo, EnReady
  <1>7. \A q \in DOMAIN colas' : SinRepetidos(colas'[q])
    BY <1>3, <1>4 DEF Lugares
  <1>8. Lugares'
    BY <1>1, <1>2, <1>5, <1>6, <1>7 DEF Lugares, Libre
  <1>9. MismaActividad
    BY <1>1, <1>2, <1>5, <1>6, ActivoEs, EsperaEs, ActivoEsPrima, EsperaEsPrima
       DEF MismaActividad
  <1> QED
    BY <1>1, <1>5, <1>8, <1>9 DEF p

LEMMA DeBlockedAReady ==
    ASSUME Lugares, Datos, consolasBlocked # <<>>, MismoEncolar,
           consolasBlocked' = Tail(consolasBlocked),
           consolasReady' = consolasReady \cup {Llamada.un_pcb},
           UNCHANGED <<consolasExit, terminados, colas, un_nodo, exitPCB>>
    PROVE  Lugares' /\ MismaActividad
  <1> DEFINE p == Llamada.un_pcb
  <1>1. p \in Procesos /\ EnBlocked(p)
    BY LaLlamada
  <1>2. \A y \in Procesos : /\ EnReady(y)' <=> EnReady(y) \/ y = p
                            /\ EnBlocked(y)' <=> EnBlocked(y) /\ y # p
    BY LaLlamada DEF EnReady, EnBlocked
  <1>3. \A y, q : /\ (EnExit(y)' <=> EnExit(y)) /\ (EnMano(y)' <=> EnMano(y))
                  /\ (Saliendo(y)' <=> Saliendo(y)) /\ (EnCola(y, q)' <=> EnCola(y, q))
    BY DEF EnExit, EnMano, Saliendo, EnCola
  <1>4. NodosDistintos(consolasBlocked)'
    BY LaLlamada
  <1> HIDE DEF p
  <1>5. Lugares'
    BY <1>1, <1>2, <1>3, <1>4 DEF Lugares, Libre
  <1>6. MismaActividad
    BY <1>1, <1>2, <1>3, ActivoEs, EsperaEs, ActivoEsPrima, EsperaEsPrima
       DEF MismaActividad, MismoEncolar
  <1> QED
    BY <1>5, <1>6

LEMMA DeBlockedAExit ==
    ASSUME Lugares, Datos, consolasBlocked # <<>>, MismoEncolar,
           consolasBlocked' = Tail(consolasBlocked),
           consolasExit' = Append(consolasExit, Llamada.un_pcb),
           UNCHANGED <<consolasReady, terminados, colas, un_nodo, exitPCB>>
    PROVE  Lugares' /\ MismaActividad
  <1> DEFINE p == Llamada.un_pcb
  <1>1. p \in Procesos /\ EnBlocked(p)
    BY LaLlamada
  <1>2. \A y \in Procesos : /\ EnExit(y)' <=> EnExit(y) \/ y = p
                            /\ EnBlocked(y)' <=> EnBlocked(y) /\ y # p
    BY <1>1, LaLlamada, AgregarAlFinal DEF Datos, EnExit, EnBlocked
  <1>3. \A y, q : /\ (EnReady(y)' <=> EnReady(y)) /\ (EnMano(y)' <=> EnMano(y))
                  /\ (Saliendo(y)' <=> Saliendo(y)) /\ (EnCola(y, q)' <=> EnCola(y, q))
    BY DEF EnReady, EnMano, Saliendo, EnCola
  <1>4. NodosDistintos(consolasBlocked)' /\ SinRepetidos(consolasExit)'
    BY <1>1, LaLlamada, AgregarAlFinal DEF Datos, Lugares, EnExit
  <1> HIDE DEF p
  <1>5. Lugares'
    BY <1>1, <1>2, <1>3, <1>4 DEF Lugares, Libre
  <1>6. MismaActividad
    BY <1>1, <1>2, <1>3, ActivoEs, EsperaEs, ActivoEsPrima, EsperaEsPrima
       DEF MismaActividad, MismoEncolar
  <1> QED
    BY <1>5, <1>6

LEMMA DeExitASaliendo ==
    ASSUME Lugares, Datos, consolasExit # <<>>, MismoEncolar, exitPCB = NINGUNO,
           exitPCB' = Head(consolasExit), consolasExit' = Tail(consolasExit),
           UNCHANGED <<consolasReady, consolasBlocked, terminados, colas, un_nodo>>
    PROVE  Lugares' /\ MismaActividad
  <1> DEFINE p == Head(consolasExit)
  <1>1. /\ p \in Procesos /\ EnExit(p) /\ SinRepetidos(Tail(consolasExit))
        /\ \A y : EnLista(Tail(consolasExit), y) <=> EnExit(y) /\ y # p
    <2>1. consolasExit \in Seq(Procesos) /\ SinRepetidos(consolasExit)
      BY DEF Datos, Lugares
    <2> QED
      BY <2>1, QuitarElPrimero DEF EnExit
  <1>2. \A y \in Procesos : /\ EnExit(y)' <=> EnExit(y) /\ y # p
                            /\ Saliendo(y)' <=> y = p
                            /\ ~Saliendo(y)
    BY <1>1, ArchivosAssumption DEF EnExit, Saliendo
  <1>3. \A y, q : /\ (EnReady(y)' <=> EnReady(y)) /\ (EnMano(y)' <=> EnMano(y))
                  /\ (EnBlocked(y)' <=> EnBlocked(y)) /\ (EnCola(y, q)' <=> EnCola(y, q))
    BY DEF EnReady, EnMano, EnBlocked, EnCola
  <1>4. SinRepetidos(consolasExit)'
    BY <1>1
  <1> HIDE DEF p
  <1>5. Lugares'
    BY <1>1, <1>2, <1>3, <1>4 DEF Lugares, Libre
  <1>6. MismaActividad
    BY <1>1, <1>2, <1>3, ActivoEs, EsperaEs, ActivoEsPrima, EsperaEsPrima
       DEF MismaActividad, MismoEncolar
  <1> QED
    BY <1>5, <1>6

LEMMA DeSaliendoATerminado ==
    ASSUME Lugares, NEW p \in Procesos, p = exitPCB, MismoEncolar,
           exitPCB' = NINGUNO, terminados' = terminados \cup {exitPCB},
           UNCHANGED <<consolasReady, consolasBlocked, consolasExit, colas, un_nodo>>
    PROVE  /\ Lugares' /\ ~Activo(p)' /\ ~Espera(p)'
           /\ \A y \in Procesos \ {p} :
                 (Activo(y)' <=> Activo(y)) /\ (Espera(y)' <=> Espera(y))
  <1>2. Saliendo(p) /\ \A y \in Procesos : (Saliendo(y) <=> y = p) /\ ~Saliendo(y)'
    BY ArchivosAssumption DEF Saliendo
  <1>3. \A y, q : /\ (EnReady(y)' <=> EnReady(y)) /\ (EnMano(y)' <=> EnMano(y))
                  /\ (EnBlocked(y)' <=> EnBlocked(y)) /\ (EnCola(y, q)' <=> EnCola(y, q))
                  /\ EnExit(y)' <=> EnExit(y)
    BY DEF EnReady, EnMano, EnBlocked, EnCola, EnExit
  <1>4. Lugares'
    BY <1>2, <1>3 DEF Lugares, Libre
  <1>5. ~Activo(p)' /\ ~Espera(p)'
    BY <1>2, <1>3, ActivoEsPrima, EsperaEsPrima DEF Lugares, Libre
  <1>6. \A y \in Procesos \ {p} : (Activo(y)' <=> Activo(y)) /\ (Espera(y)' <=> Espera(y))
    BY <1>2, <1>3, ActivoEs, EsperaEs, ActivoEsPrima, EsperaEsPrima DEF MismoEncolar
  <1> QED
    BY <1>4, <1>5, <1>6

\* list_destroy: who was in the queue is nowhere.
LEMMA DeColaANinguna ==
    ASSUME Lugares, MismoEncolar, NEW k,
           colas' = [q \in DOMAIN colas \ {k} |-> colas[q]],
           UNCHANGED <<consolasReady, listas, un_nodo, exitPCB>>
    PROVE  /\ Lugares'
           /\ \A y, q : EnCola(y, q)' <=> EnCola(y, q) /\ q # k
           /\ \A y \in Procesos : (Activo(y)' <=> Activo(y)) /\ (Espera(y)' => Espera(y))
           /\ \A y \in Procesos : Espera(y) /\ ~EnCola(y, k) => Espera(y)'
  <1> USE DEF listas
  <1>1. \A y, q : EnCola(y, q)' <=> EnCola(y, q) /\ q # k
    BY DEF EnCola
  <1>2. \A y : /\ (EnReady(y)' <=> EnReady(y)) /\ (EnMano(y)' <=> EnMano(y))
               /\ (EnBlocked(y)' <=> EnBlocked(y)) /\ (EnExit(y)' <=> EnExit(y))
               /\ Saliendo(y)' <=> Saliendo(y)
    BY DEF EnReady, EnMano, EnBlocked, EnExit, Saliendo
  <1>3. Lugares'
    BY <1>1, <1>2 DEF Lugares, Libre
  <1>4. \A y \in Procesos : (Activo(y)' <=> Activo(y)) /\ (Espera(y)' => Espera(y))
    BY <1>1, <1>2, ActivoEs, EsperaEs, ActivoEsPrima, EsperaEsPrima DEF MismoEncolar
  <1>5. \A y \in Procesos : Espera(y) /\ ~EnCola(y, k) => Espera(y)'
    BY <1>1, <1>2, EsperaEs, EsperaEsPrima DEF MismoEncolar
  <1> QED
    BY <1>1, <1>3, <1>4, <1>5

LEMMA DeColaAReady ==
    ASSUME Lugares, Datos, MismoEncolar, NEW k \in DOMAIN colas, colas[k] # <<>>,
           NEW p, p = Head(colas[k]),
           colas' = [colas EXCEPT ![k] = Tail(@)],
           consolasReady' = consolasReady \cup {p},
           UNCHANGED <<listas, un_nodo, exitPCB>>
    PROVE  /\ Lugares' /\ p \in Procesos
           /\ EnCola(p, k) /\ Activo(p)' /\ ~Espera(p)'
           /\ \A y, q : EnCola(y, q)' <=> EnCola(y, q) /\ y # p
           /\ \A y \in Procesos \ {p} :
                 (Activo(y)' <=> Activo(y)) /\ (Espera(y)' <=> Espera(y))
  <1> USE DEF listas
  <1>1. PICK l : l = Tail(colas[k])
    OBVIOUS
  <1>2. /\ p \in Procesos /\ l \in Seq(Procesos) /\ EnCola(p, k) /\ SinRepetidos(l)
        /\ \A y : EnLista(l, y) <=> EnLista(colas[k], y) /\ y # p
    <2>1. colas[k] \in Seq(Procesos) /\ SinRepetidos(colas[k])
      BY DEF Datos, Lugares
    <2> QED
      BY <1>1, <2>1, QuitarElPrimero DEF EnCola
  <1>3. /\ DOMAIN colas' = DOMAIN colas /\ colas'[k] = l
        /\ \A q \in DOMAIN colas : q # k => colas'[q] = colas[q]
    BY <1>1
  <1>4. \A y, q : EnCola(y, q)' <=> EnCola(y, q) /\ ~(y = p /\ q = k)
    BY <1>2, <1>3 DEF EnCola
  <1>5. Libre(p) /\ p \notin terminados /\ \A q : EnCola(p, q) => q = k
    BY <1>2 DEF Lugares
  <1>6. \A y, q : EnCola(y, q)' <=> EnCola(y, q) /\ y # p
    BY <1>4, <1>5
  <1>7. \A y : /\ EnReady(y)' <=> EnReady(y) \/ y = p
               /\ EnMano(y)' <=> EnMano(y)
               /\ (EnBlocked(y)' <=> EnBlocked(y)) /\ (EnExit(y)' <=> EnExit(y))
               /\ Saliendo(y)' <=> Saliendo(y)
    BY <1>1 DEF EnReady, EnMano, EnBlocked, EnExit, Saliendo
  <1>8. \A q \in DOMAIN colas' : SinRepetidos(colas'[q])
    BY <1>2, <1>3 DEF Lugares
  <1>9. Lugares'
    BY <1>2, <1>5, <1>6, <1>7, <1>8 DEF Lugares, Libre
  <1>10. Activo(p)' /\ ~Espera(p)'
    BY <1>2, <1>5, <1>6, <1>7, ActivoEsPrima, EsperaEsPrima DEF MismoEncolar, Libre
  <1>11. \A y \in Procesos \ {p} : (Activo(y)' <=> Activo(y)) /\ (Espera(y)' <=> Espera(y))
    BY <1>6, <1>7, ActivoEs, EsperaEs, ActivoEsPrima, EsperaEsPrima DEF MismoEncolar
  <1> QED
    BY <1>1, <1>2, <1>6, <1>9, <1>10, <1>11
-----------------------------------------------------------------------------
LEMMA LugaresAlInicio == Init => Lugares
  <1> SUFFICES ASSUME Init PROVE Lugares
    OBVIOUS
  <1>1. DOMAIN consolasBlocked = {} /\ DOMAIN consolasExit = {} /\ DOMAIN colas = {}
    BY DEF Init
  <1>2. \A p \in Procesos : ~EnBlocked(p) /\ ~EnExit(p) /\ ~EnMano(p) /\ ~Saliendo(p)
    BY <1>1, ArchivosAssumption
       DEF Init, EnBlocked, EnNodos, EnExit, EnLista, EnMano, Saliendo, SinNodo
  <1>3. \A p, q : ~EnCola(p, q)
    BY <1>1 DEF EnCola
  <1>4. terminados = {}
    BY DEF Init
  <1> QED
    BY <1>1, <1>2, <1>3, <1>4 DEF Lugares, NodosDistintos, SinRepetidos

\* The steps that take a process out of work or bring it back.
Cambia == AbrirTabla \/ ExitTerminar \/ \E t \in Hilos : LibDestruir(t) \/ LibQuitar(t)

LEMMA LugaresEnUnPaso ==
    ArchivosInv /\ [Next]_vars => Lugares' /\ (MismaActividad \/ Cambia)
  <1> SUFFICES ASSUME ArchivosInv, [Next]_vars PROVE Lugares' /\ (MismaActividad \/ Cambia)
    OBVIOUS
  <1> USE DEF Hilos, Va, Atiende, Llega, programa, listas, archivos, locales
  <1>a. Datos /\ Manos /\ Lugares
    BY DEF ArchivosInv
  <1>p. DOMAIN pc = Hilos
    BY <1>a DEF Manos, PasosLib
  <1>c. ASSUME Cae PROVE Lugares' /\ MismaActividad
    BY <1>c, <1>a, NadieSeMueve DEF Cae, MismoEncolar
  <1>1. ASSUME NEW p \in Procesos, NEW op \in Operaciones, NEW n \in escenario.nombres,
               Pedir(p, op, n)
        PROVE  Lugares' /\ MismaActividad
    <2>1. PICK x : x = [un_pcb |-> p, cod_op |-> op, archivo |-> n]
      OBVIOUS
    <2>2. x \in Nodo /\ x.un_pcb = p
      BY <2>1 DEF Nodo
    <2>3. /\ p \in consolasReady /\ consolasReady' = consolasReady \ {p}
          /\ consolasBlocked' = Append(consolasBlocked, x)
          /\ UNCHANGED <<consolasExit, terminados, colas, un_nodo, exitPCB, pc>>
      BY <1>1, <2>1 DEF Pedir
    <2> QED
      BY <1>a, <2>2, <2>3, DeReadyABlocked
  <1>2. ASSUME NEW p \in Procesos, Terminar(p) PROVE Lugares' /\ MismaActividad
    <2>1. /\ p \in consolasReady /\ consolasReady' = consolasReady \ {p}
          /\ consolasExit' = Append(consolasExit, p)
          /\ UNCHANGED <<consolasBlocked, terminados, colas, un_nodo, exitPCB, pc>>
      BY <1>2 DEF Terminar
    <2> QED
      BY <1>a, <2>1, DeReadyAExit
  <1>3. ASSUME AbrirBuscar PROVE Lugares' /\ MismaActividad
    <2>1. /\ pc["fs"] = "tomar" /\ consolasBlocked # <<>>
          /\ pc'["fs"] \in {"abrir_nueva", "abrir_tabla"}
          /\ consolasBlocked' = Tail(consolasBlocked) /\ un_nodo' = Llamada
          /\ UNCHANGED <<consolasReady, consolasExit, terminados, colas, exitPCB>>
      BY <1>3, <1>p DEF AbrirBuscar
    <2>2. un_nodo = SinNodo /\ MismoEncolar
      BY <1>a, <2>1 DEF Manos, MismoEncolar
    <2> QED
      BY <1>a, <2>1, <2>2, DeBlockedAMano
  <1>4. ASSUME AbrirNueva PROVE Lugares' /\ MismaActividad
    <2>1. PICK cn : cn = ColaNueva
      OBVIOUS
    <2>2. /\ cn \notin DOMAIN colas /\ colas' = Con(colas, cn, <<>>)
          /\ UNCHANGED <<consolasReady, listas, un_nodo, exitPCB>>
          /\ MismoEncolar
      BY <1>4, <1>a, <1>p, <2>1, Frescos DEF AbrirNueva, MismoEncolar
    <2>3. /\ DOMAIN colas \subseteq DOMAIN colas'
          /\ \A q \in DOMAIN colas : colas'[q] = colas[q]
          /\ \A q \in DOMAIN colas' : q \in DOMAIN colas \/ colas'[q] = <<>>
      BY <2>2 DEF Con
    <2> QED
      BY <1>a, <2>2, <2>3, NadieSeMueve
  <1>5. ASSUME AbrirGdt PROVE Lugares' /\ MismaActividad
    <2>1. /\ pc["fs"] = "abrir_gdt" /\ pc'["fs"] = "tomar" /\ un_nodo' = SinNodo
          /\ consolasReady' = consolasReady \cup {un_nodo.un_pcb}
          /\ UNCHANGED <<listas, colas, exitPCB>>
      BY <1>5, <1>p DEF AbrirGdt
    <2>2. un_nodo # SinNodo /\ MismoEncolar
      BY <1>a, <2>1 DEF Manos, MismoEncolar, PasosLib
    <2> QED
      BY <1>a, <2>1, <2>2, DeManoAReady
  <1>6. ASSUME AbrirTabla PROVE Lugares'
    <2>1. UNCHANGED <<consolasReady, listas, un_nodo, exitPCB, colas>>
      BY <1>6 DEF AbrirTabla
    <2> QED
      BY <1>a, <2>1, NadieSeMueve
  <1>7. ASSUME AbrirEncolar PROVE Lugares' /\ MismaActividad
    <2>1. CASE Cae
      BY <2>1, <1>c
    <2>2. CASE ~Cae
      <3>1. PICK k : k = cola["fs"]
        OBVIOUS
      <3>2. /\ pc["fs"] = "abrir_encolar" /\ pc'["fs"] # "abrir_encolar" /\ un_nodo' = SinNodo
            /\ k \in DOMAIN colas
            /\ colas' = [colas EXCEPT ![k] = Append(@, un_nodo.un_pcb)]
            /\ UNCHANGED <<consolasReady, listas, exitPCB>>
        BY <1>7, <1>p, <2>2, <3>1 DEF AbrirEncolar
      <3>3. un_nodo # SinNodo
        BY <1>a, <3>2 DEF Manos, PasosLib
      <3> QED
        BY <1>a, <3>2, <3>3, DeManoACola
    <2> QED
      BY <2>1, <2>2
  <1>8. ASSUME Cerrar PROVE Lugares' /\ MismaActividad
    <2>1. PICK d : d = Busca(tablaArchivos[Llamada.un_pcb], Llamada.archivo)
      OBVIOUS
    <2>2. /\ consolasBlocked # <<>> /\ consolasBlocked' = Tail(consolasBlocked)
          /\ UNCHANGED <<terminados, un_nodo, exitPCB>> /\ MismoEncolar
      BY <1>8, <1>p DEF Cerrar, MismoEncolar
    <2>3. CASE d # NULL
      <3>1. /\ consolasReady' = consolasReady \cup {Llamada.un_pcb}
            /\ UNCHANGED <<consolasExit, colas>>
        BY <1>8, <2>1, <2>3 DEF Cerrar, Sigue
      <3> QED
        BY <1>a, <2>2, <3>1, DeBlockedAReady
    <2>4. CASE d = NULL
      <3>1. /\ consolasExit' = Append(consolasExit, Llamada.un_pcb)
            /\ UNCHANGED <<consolasReady, colas>>
        BY <1>8, <2>1, <2>4 DEF Cerrar, Falla
      <3> QED
        BY <1>a, <2>2, <3>1, DeBlockedAExit
    <2> QED
      BY <2>3, <2>4
  <1>9. ASSUME Posicionar PROVE Lugares' /\ MismaActividad
    <2>1. CASE Cae
      BY <2>1, <1>c
    <2>2. CASE ~Cae
      <3>1. /\ consolasBlocked # <<>> /\ consolasBlocked' = Tail(consolasBlocked)
            /\ consolasReady' = consolasReady \cup {Llamada.un_pcb}
            /\ UNCHANGED <<consolasExit, terminados, colas, un_nodo, exitPCB>> /\ MismoEncolar
        BY <1>9, <1>p, <2>2 DEF Posicionar, Sigue, MismoEncolar
      <3> QED
        BY <1>a, <3>1, DeBlockedAReady
    <2> QED
      BY <2>1, <2>2
  <1>10. ASSUME Transferir PROVE Lugares' /\ MismaActividad
    <2>1. CASE Cae
      BY <2>1, <1>c
    <2>2. CASE ~Cae
      <3>1. /\ pc["fs"] = "tomar" /\ consolasBlocked # <<>> /\ pc'["fs"] = "recibir"
            /\ consolasBlocked' = Tail(consolasBlocked) /\ un_nodo' = Llamada
            /\ UNCHANGED <<consolasReady, consolasExit, terminados, colas, exitPCB>>
        BY <1>10, <1>p, <2>2 DEF Transferir
      <3>2. un_nodo = SinNodo /\ MismoEncolar
        BY <1>a, <3>1 DEF Manos, MismoEncolar
      <3> QED
        BY <1>a, <3>1, <3>2, DeBlockedAMano
    <2> QED
      BY <2>1, <2>2
  <1>11. ASSUME Recibir PROVE Lugares' /\ MismaActividad
    <2>1. CASE Cae
      BY <2>1, <1>c
    <2>2. CASE ~Cae
      <3>1. /\ pc["fs"] = "recibir" /\ pc'["fs"] = "tomar" /\ un_nodo' = SinNodo
            /\ consolasReady' = consolasReady \cup {un_nodo.un_pcb}
            /\ UNCHANGED <<listas, colas, exitPCB>>
        BY <1>11, <1>p, <2>2 DEF Recibir
      <3>2. un_nodo # SinNodo /\ MismoEncolar
        BY <1>a, <3>1 DEF Manos, MismoEncolar, PasosLib
      <3> QED
        BY <1>a, <3>1, <3>2, DeManoAReady
    <2> QED
      BY <2>1, <2>2
  <1>12. ASSUME Truncar PROVE Lugares' /\ MismaActividad
    <2>1. /\ consolasBlocked # <<>> /\ consolasBlocked' = Tail(consolasBlocked)
          /\ UNCHANGED <<terminados, colas, un_nodo, exitPCB>> /\ MismoEncolar
      BY <1>12, <1>p DEF Truncar, Falla, MismoEncolar
    <2>2. \/ consolasReady' = consolasReady \cup {Llamada.un_pcb} /\ UNCHANGED consolasExit
          \/ consolasExit' = Append(consolasExit, Llamada.un_pcb) /\ UNCHANGED consolasReady
      BY <1>12 DEF Truncar, Sigue, Falla
    <2> QED
      BY <1>a, <2>1, <2>2, DeBlockedAReady, DeBlockedAExit
  <1>13. ASSUME NEW t \in Hilos, LibCola(t) PROVE Lugares' /\ MismaActividad
    <2>1. UNCHANGED <<consolasReady, listas, un_nodo, exitPCB, colas>> /\ MismoEncolar
      BY <1>13, <1>p DEF LibCola, MismoEncolar
    <2> QED
      BY <1>a, <2>1, NadieSeMueve
  <1>14. ASSUME NEW t \in Hilos, LibVacia(t) PROVE Lugares' /\ MismaActividad
    <2>1. CASE Cae
      BY <2>1, <1>c
    <2>2. CASE ~Cae
      <3>1. UNCHANGED <<consolasReady, listas, un_nodo, exitPCB, colas>> /\ MismoEncolar
        BY <1>14, <1>p, <2>2 DEF LibVacia, MismoEncolar
      <3> QED
        BY <1>a, <3>1, NadieSeMueve
    <2> QED
      BY <2>1, <2>2
  <1>15. ASSUME NEW t \in Hilos, LibGdt(t) PROVE Lugares' /\ MismaActividad
    <2>1. UNCHANGED <<consolasReady, listas, un_nodo, exitPCB, colas>> /\ MismoEncolar
      BY <1>15, <1>p DEF LibGdt, MismoEncolar
    <2> QED
      BY <1>a, <2>1, NadieSeMueve
  <1>16. ASSUME NEW t \in Hilos, LibClave(t) PROVE Lugares' /\ MismaActividad
    <2>1. UNCHANGED <<consolasReady, listas, un_nodo, exitPCB, colas>> /\ MismoEncolar
      BY <1>16, <1>p DEF LibClave, MismoEncolar
    <2> QED
      BY <1>a, <2>1, NadieSeMueve
  <1>17. ASSUME NEW t \in Hilos, LibDestruir(t) PROVE Lugares'
    <2>1. PICK k : k = cola[t]
      OBVIOUS
    <2>2. /\ colas' = [q \in DOMAIN colas \ {k} |-> colas[q]]
          /\ UNCHANGED <<consolasReady, listas, un_nodo, exitPCB>> /\ MismoEncolar
      BY <1>17, <1>p, <2>1 DEF LibDestruir, TrasLiberar, MismoEncolar
    <2> QED
      BY <1>a, <2>2, DeColaANinguna
  <1>18. ASSUME NEW t \in Hilos, LibQuitar(t) PROVE Lugares'
    <2>1. PICK k, p : k = cola[t] /\ p = Head(colas[cola[t]])
      OBVIOUS
    <2>2. /\ colas' = [colas EXCEPT ![k] = Tail(@)]
          /\ consolasReady' = consolasReady \cup {p}
          /\ UNCHANGED <<listas, un_nodo, exitPCB>> /\ MismoEncolar
      BY <1>18, <1>p, <2>1 DEF LibQuitar, TrasLiberar, MismoEncolar
    <2>3. k \in DOMAIN colas /\ colas[k] # <<>> /\ p = Head(colas[k])
      BY <1>18, <1>a, <2>1 DEF LibQuitar, Manos, Libera, PasosLib
    <2> QED
      BY <1>a, <2>2, <2>3, DeColaAReady
  <1>19. ASSUME ExitTomar PROVE Lugares' /\ MismaActividad
    <2>1. /\ consolasExit # <<>> /\ exitPCB' = Head(consolasExit)
          /\ consolasExit' = Tail(consolasExit)
          /\ UNCHANGED <<consolasReady, consolasBlocked, terminados, colas, un_nodo>>
          /\ MismoEncolar
      BY <1>19, <1>p DEF ExitTomar, MismoEncolar
    <2>2. exitPCB = NINGUNO
      BY <1>19, <1>a DEF ExitTomar, Manos
    <2> QED
      BY <1>a, <2>1, <2>2, DeExitASaliendo
  <1>20. ASSUME ExitCerrarUno PROVE Lugares' /\ MismaActividad
    <2>1. UNCHANGED <<consolasReady, listas, un_nodo, exitPCB, colas>> /\ MismoEncolar
      BY <1>20, <1>p DEF ExitCerrarUno, MismoEncolar
    <2> QED
      BY <1>a, <2>1, NadieSeMueve
  <1>21. ASSUME ExitTerminar PROVE Lugares'
    <2>1. PICK p : p = exitPCB
      OBVIOUS
    <2>2. /\ exitPCB' = NINGUNO /\ terminados' = terminados \cup {exitPCB}
          /\ UNCHANGED <<consolasReady, consolasBlocked, consolasExit, colas, un_nodo>>
          /\ MismoEncolar
      BY <1>21, <1>p DEF ExitTerminar, MismoEncolar
    <2>3. p \in Procesos
      BY <1>21, <1>a, <2>1 DEF ExitTerminar, Manos, Datos
    <2> QED
      BY <1>a, <2>1, <2>2, <2>3, DeSaliendoATerminado
  <1>22. CASE UNCHANGED vars
    BY <1>22, <1>a, NadieSeMueve DEF vars, MismoEncolar
  <1> QED
    BY <1>1, <1>2, <1>3, <1>4, <1>5, <1>6, <1>7, <1>8, <1>9, <1>10, <1>11, <1>12, <1>13, <1>14,
       <1>15, <1>16, <1>17, <1>18, <1>19, <1>20, <1>21, <1>22
       DEF Next, Proceso, OperarFS, GestionadorExit, Liberar, Cambia
-----------------------------------------------------------------------------
(* Who has each file *)

LEMMA TenenciaAlInicio == Init => Tenencia
  <1> SUFFICES ASSUME Init PROVE Tenencia
    OBVIOUS
  <1>1. /\ DOMAIN GDT = {} /\ \A p \in Procesos : tablaArchivos[p] = <<>>
        /\ DOMAIN <<>> = {}
    BY DEF Init
  <1>2. /\ \A d : ~EnGDT(d)
        /\ \A p \in Procesos : Tenidos(p) = <<>> /\ \A d : ~Tiene(p, d)
        /\ \A t \in Hilos : pc[t] = "tomar" /\ \A d : ~Suelta(t, d)
    BY <1>1 DEF Init, EnGDT, EnLista, Tenidos, Tiene, Suelta, Libera, PasosLib
  <1>3. \A p \in Procesos : ~Espera(p) /\ p \notin terminados
    <2>1. DOMAIN colas = {}
      BY DEF Init
    <2> QED
      BY <1>2, <2>1, EsperaEs DEF Init, EnCola, Hilos
  <1>4. UnoPorNombre
    BY <1>1, <1>2 DEF UnoPorNombre, SinRepetidos
  <1>5. UnoQueLoTiene
    BY <1>1, <1>2 DEF UnoQueLoTiene, SinRepetidos, Hilos
  <1>6. Abriendo /\ Esperas
    BY <1>1, <1>2, <1>3 DEF Abriendo, Esperas, Hilos
  <1> QED
    BY <1>4, <1>5, <1>6 DEF Tenencia

\* What p has open is in its table.
LEMMA LoTenidoEnTabla ==
    ASSUME Datos, NEW p \in Procesos
    PROVE  /\ \A d : Tiene(p, d) => EnLista(tablaArchivos[p], d)
           /\ Activo(p) => \A d : Tiene(p, d) <=> EnLista(tablaArchivos[p], d)
           /\ Activo(p) => Tenidos(p) = tablaArchivos[p]
  <1>1. tablaArchivos[p] \in Seq(Identidades)
    BY DEF Datos
  <1>2. tablaArchivos[p] # <<>> =>
            \A d : EnLista(Tail(tablaArchivos[p]), d) => EnLista(tablaArchivos[p], d)
    BY <1>1, QuitarElPrimero
  <1> QED
    BY <1>2 DEF Tiene, Tenidos

LEMMA MismosTenidos ==
    ASSUME MismaActividad, UNCHANGED tablaArchivos
    PROVE  \A p \in Procesos : Tenidos(p)' = Tenidos(p) /\ \A d : Tiene(p, d)' <=> Tiene(p, d)
  BY DEF MismaActividad, Tenidos, Tiene

\* The step leaves the GDT and the tables alone, and who is at work.
LEMMA TenenciaQuieta ==
    ASSUME Tenencia, MismaActividad, UNCHANGED <<tablaArchivos, GDT, terminados>>,
           \A d : EnGDT(d) => d \in DOMAIN descriptores' /\ Archivo(d)' = Archivo(d),
           \A t \in Hilos : \A d : Suelta(t, d)' <=> Suelta(t, d),
           \A t \in Hilos : Libera(t) => (Quitado(t)' <=> Quitado(t))
    PROVE  UnoPorNombre' /\ UnoQueLoTiene' /\ Esperas'
  <1>1. \A p \in Procesos : Tenidos(p)' = Tenidos(p) /\ \A d : Tiene(p, d)' <=> Tiene(p, d)
    BY MismosTenidos
  <1>2. \A d : EnGDT(d)' <=> EnGDT(d)
    BY DEF EnGDT
  <1>3. UnoPorNombre'
    BY <1>2 DEF Tenencia, UnoPorNombre
  <1>4. UnoQueLoTiene'
    BY <1>1, <1>2 DEF Tenencia, UnoQueLoTiene, Suelta, Hilos
  <1>5. Esperas'
    BY <1>2 DEF Tenencia, Esperas, MismaActividad
  <1> QED
    BY <1>3, <1>4, <1>5

\* The step is not one of operarFS.
LEMMA AbriendoQuieto ==
    ASSUME Abriendo, pc'["fs"] = pc["fs"], descr'["fs"] = descr["fs"], un_nodo' = un_nodo,
           \A d : EnGDT(d)' => EnGDT(d) /\ Archivo(d)' = Archivo(d),
           \A p \in Procesos : \A d :
               EnLista(tablaArchivos[p], d)' => EnLista(tablaArchivos[p], d),
           pc["fs"] = "abrir_gdt" => descr'["exit"] # descr["fs"],
           pc["fs"] \in {"lib_clave", "lib_destruir"} =>
               Archivo(descr["fs"])' = Archivo(descr["fs"])
    PROVE  Abriendo'
  <1>1. ASSUME pc["fs"] = "abrir_gdt"
        PROVE  /\ ~EnGDT(descr["fs"])' /\ descr'["exit"] # descr'["fs"]
               /\ \A p \in Procesos : ~EnLista(tablaArchivos[p], descr["fs"])'
    <2>1. PICK d : d = descr["fs"]
      OBVIOUS
    <2>2. ~EnGDT(d)' /\ \A p \in Procesos : ~EnLista(tablaArchivos[p], d)'
      BY <1>1, <2>1 DEF Abriendo
    <2>3. d = descr'["fs"]
      BY <2>1
    <2> QED
      BY <1>1, <2>1, <2>2, <2>3 DEF EnGDT
  <1>2. ASSUME pc["fs"] \in {"abrir_nueva", "abrir_gdt"}
        PROVE  \A d : EnGDT(d)' => Archivo(d)' # un_nodo'.archivo
    BY <1>2 DEF Abriendo
  <1>3. ASSUME pc["fs"] \in {"lib_clave", "lib_destruir"}
        PROVE  \A d : EnGDT(d)' => Archivo(d)' # Archivo(descr["fs"])'
    <2>1. PICK a : a = Archivo(descr["fs"])
      OBVIOUS
    <2>2. \A d : EnGDT(d)' => Archivo(d)' # a
      BY <1>3, <2>1 DEF Abriendo
    <2>3. Archivo(descr["fs"])' = a
      BY <1>3, <2>1
    <2> QED
      BY <2>2, <2>3
  <1> QED
    BY <1>1, <1>2, <1>3 DEF Abriendo

LEMMA AbriendoLejos ==
    ASSUME pc'["fs"] \notin {"abrir_nueva", "abrir_gdt", "lib_clave", "lib_destruir"}
    PROVE  Abriendo'
  BY DEF Abriendo

\* A process or gestionadorExit takes a step that frees nothing and opens nothing.
LEMMA TenenciaAjena ==
    ASSUME Tenencia, MismaActividad,
           UNCHANGED <<tablaArchivos, GDT, terminados, descriptores, pc, descr, un_nodo>>
    PROVE  Tenencia'
  <1>1. \A d : (EnGDT(d)' <=> EnGDT(d)) /\ Archivo(d)' = Archivo(d)
    BY DEF EnGDT, Archivo
  <1>2. \A d : EnGDT(d) => d \in DOMAIN descriptores' /\ Archivo(d)' = Archivo(d)
    BY <1>1 DEF Tenencia, UnoPorNombre
  <1>3. \A t \in Hilos : (\A d : Suelta(t, d)' <=> Suelta(t, d)) /\ (Quitado(t)' <=> Quitado(t))
    BY DEF Suelta, Libera, Quitado
  <1>4. UnoPorNombre' /\ UnoQueLoTiene' /\ Esperas'
    BY <1>2, <1>3, TenenciaQuieta
  <1>5. Abriendo'
    BY <1>1 DEF Tenencia, Abriendo, Archivo
  <1> QED
    BY <1>4, <1>5 DEF Tenencia

\* operarFS takes a step of no consequence for who has what.
LEMMA TenenciaDeFS ==
    ASSUME Tenencia, Manos, MismaActividad,
           UNCHANGED <<tablaArchivos, GDT, terminados>>,
           \A d : EnGDT(d) => d \in DOMAIN descriptores' /\ Archivo(d)' = Archivo(d),
           pc'["exit"] = pc["exit"], descr'["exit"] = descr["exit"],
           pc["fs"] \notin PasosLib, pc'["fs"] \notin PasosLib
    PROVE  UnoPorNombre' /\ UnoQueLoTiene' /\ Esperas'
  <1>1. \A t \in Hilos : \A d : Suelta(t, d)' <=> Suelta(t, d)
    BY DEF Suelta, Libera, Hilos
  <1>2. \A t \in Hilos : Libera(t) => (Quitado(t)' <=> Quitado(t))
    BY DEF Libera, Quitado, Hilos
  <1> QED
    BY <1>1, <1>2, TenenciaQuieta

\* The descriptor d is put in front of the table of p, which is at work, and in the GDT.
LEMMA TenenciaAlAbrir ==
    ASSUME Tenencia, Datos, MismaActividad, NEW p \in Procesos \ terminados, Activo(p),
           NEW d \in DOMAIN descriptores, ~EnGDT(d), d \in Identidades,
           \A x \in Procesos : ~EnLista(tablaArchivos[x], d),
           \A e : EnGDT(e) => Archivo(e) # Archivo(d),
           pc["fs"] \notin PasosLib, pc'["fs"] = "tomar", pc'["exit"] = pc["exit"],
           descr["exit"] # d, descr'["exit"] = descr["exit"],
           GDT' = Append(GDT, d),
           tablaArchivos' = [tablaArchivos EXCEPT ![p] = <<d>> \o @],
           UNCHANGED <<descriptores, terminados>>
    PROVE  Tenencia'
  <1>1. /\ \A x : EnGDT(x)' <=> EnGDT(x) \/ x = d
        /\ SinRepetidos(GDT')
    BY AgregarAlFinal DEF Datos, EnGDT, Tenencia, UnoPorNombre
  <1>2. \A x : Archivo(x)' = Archivo(x)
    BY DEF Archivo
  <1>3. UnoPorNombre'
    BY <1>1, <1>2 DEF Tenencia, UnoPorNombre
  <1>4. PICK l : l = <<d>> \o tablaArchivos[p]
    OBVIOUS
  <1>5. /\ l # <<>> /\ Head(l) = d
        /\ \A x : EnLista(l, x) <=> EnLista(tablaArchivos[p], x) \/ x = d
        /\ SinRepetidos(tablaArchivos[p]) => SinRepetidos(l)
    <2>1. tablaArchivos[p] \in Seq(Identidades) /\ ~EnLista(tablaArchivos[p], d)
      BY DEF Datos
    <2> QED
      BY <1>4, <2>1, AgregarAlFrente
  <1>6. /\ tablaArchivos'[p] = l
        /\ \A x \in Procesos : x # p => tablaArchivos'[x] = tablaArchivos[x]
    BY <1>4 DEF Datos
  <1>7. Activo(p)' /\ \A x \in Procesos : Activo(x)' <=> Activo(x)
    BY DEF MismaActividad
  <1>8. \A x \in Procesos : x # p => Tenidos(x)' = Tenidos(x) /\ \A e : Tiene(x, e)' <=> Tiene(x, e)
    BY <1>6, <1>7 DEF Tenidos, Tiene
  <1>9. Tenidos(p)' = l /\ Tenidos(p) = tablaArchivos[p]
    BY <1>6, <1>7 DEF Tenidos
  <1>10. \A e : Tiene(p, e)' <=> Tiene(p, e) \/ e = d
    BY <1>5, <1>9 DEF Tiene
  <1>11. \A x \in Procesos : ~Tiene(x, d)
    BY LoTenidoEnTabla
  <1>12. /\ \A e : ~Suelta("fs", e) /\ ~Suelta("fs", e)'
         /\ \A e : (Suelta("exit", e)' <=> Suelta("exit", e)) /\ (Suelta("exit", e) => e # d)
         /\ Quitado("exit")' <=> Quitado("exit")
    BY DEF Suelta, Libera, Quitado, PasosLib
  <1>13. \A x \in Procesos : SinRepetidos(Tenidos(x)') /\ \A e : Tiene(x, e)' => EnGDT(e)'
    BY <1>1, <1>5, <1>8, <1>9, <1>10 DEF Tenencia, UnoQueLoTiene
  <1>14. \A x, y \in Procesos : \A e : Tiene(x, e)' /\ Tiene(y, e)' => x = y
    BY <1>8, <1>10, <1>11 DEF Tenencia, UnoQueLoTiene
  <1>15. \A e : Suelta("exit", e)' =>
            (\A x \in Procesos : ~Tiene(x, e)') /\ (EnGDT(e)' <=> ~Quitado("exit")')
    BY <1>1, <1>8, <1>10, <1>12 DEF Tenencia, UnoQueLoTiene, Hilos
  <1>16. \A e : EnGDT(e)' =>
            (\E x \in Procesos : Tiene(x, e)') \/ (\E t \in Hilos : Suelta(t, e)')
    <2>1. Tiene(p, d)'
      BY <1>10
    <2>2. \A x \in Procesos : \A e : Tiene(x, e) => Tiene(x, e)'
      BY <1>8, <1>10
    <2> QED
      BY <1>1, <1>12, <2>1, <2>2 DEF Tenencia, UnoQueLoTiene, Hilos
  <1>17. UnoQueLoTiene'
    BY <1>12, <1>13, <1>14, <1>15, <1>16 DEF UnoQueLoTiene, Hilos
  <1>18. \A x \in Procesos : x # p /\ tablaArchivos[x] # <<>> => Head(tablaArchivos[x]) # d
    <2>1. \A x \in Procesos : tablaArchivos[x] \in Seq(Identidades)
      BY DEF Datos
    <2> QED
      BY <2>1, QuitarElPrimero
  <1>20. Esperas'
    BY <1>1, <1>5, <1>6, <1>7, <1>18 DEF Tenencia, Esperas, MismaActividad
  <1>21. Abriendo'
    BY AbriendoLejos
  <1> QED
    BY <1>3, <1>17, <1>20, <1>21 DEF Tenencia

\* Thread t takes the descriptor d out of the table of p, which is at work, and will release it.
LEMMA TenenciaAlCerrar ==
    ASSUME Tenencia, Datos, Lugares, MismaActividad, NEW p \in Procesos, Activo(p),
           NEW t \in Hilos, NEW d, NEW l,
           EnLista(tablaArchivos[p], d), SinRepetidos(l),
           \A x : EnLista(l, x) <=> EnLista(tablaArchivos[p], x) /\ x # d,
           pc[t] \notin PasosLib, pc'[t] = "lib_cola", descr'[t] = d,
           \A u \in Hilos \ {t} : pc'[u] = pc[u] /\ descr'[u] = descr[u],
           tablaArchivos' = [tablaArchivos EXCEPT ![p] = l],
           UNCHANGED <<GDT, descriptores, terminados, un_nodo>>
    PROVE  Tenencia'
  <1>1. /\ \A e : (EnGDT(e)' <=> EnGDT(e)) /\ Archivo(e)' = Archivo(e)
        /\ \A x \in Procesos : Activo(x)' <=> Activo(x)
    BY DEF EnGDT, Archivo, MismaActividad
  <1>2. UnoPorNombre'
    BY <1>1 DEF Tenencia, UnoPorNombre
  <1>3. /\ tablaArchivos'[p] = l
        /\ \A x \in Procesos : x # p => tablaArchivos'[x] = tablaArchivos[x]
    BY DEF Datos
  <1>4. \A x \in Procesos : x # p => Tenidos(x)' = Tenidos(x) /\ \A e : Tiene(x, e)' <=> Tiene(x, e)
    BY <1>1, <1>3 DEF Tenidos, Tiene
  <1>5. Tenidos(p)' = l /\ Tenidos(p) = tablaArchivos[p] /\ Tiene(p, d)
    BY <1>1, <1>3 DEF Tenidos, Tiene
  <1>6. \A e : Tiene(p, e)' <=> Tiene(p, e) /\ e # d
    BY <1>5 DEF Tiene
  <1>7. /\ \A e : Suelta(t, e)' <=> e = d
        /\ \A e : ~Suelta(t, e)
        /\ ~Quitado(t)'
        /\ \A u \in Hilos \ {t} : \A e : Suelta(u, e)' <=> Suelta(u, e)
        /\ \A u \in Hilos \ {t} : Quitado(u)' <=> Quitado(u)
    BY DEF Suelta, Libera, Quitado, PasosLib
  <1>8. EnGDT(d) /\ \A u \in Hilos : ~Suelta(u, d)
    BY <1>5 DEF Tenencia, UnoQueLoTiene
  <1>9. \A x \in Procesos : SinRepetidos(Tenidos(x)') /\ \A e : Tiene(x, e)' => EnGDT(e)'
    BY <1>1, <1>4, <1>5, <1>6 DEF Tenencia, UnoQueLoTiene
  <1>10. \A x \in Procesos : \A e : Tiene(x, e)' => Tiene(x, e) /\ e # d
    BY <1>4, <1>5, <1>6 DEF Tenencia, UnoQueLoTiene
  <1>11. \A x, y \in Procesos : \A e : Tiene(x, e)' /\ Tiene(y, e)' => x = y
    BY <1>10 DEF Tenencia, UnoQueLoTiene
  <1>12. \A u \in Hilos : \A e : Suelta(u, e)' =>
            (\A x \in Procesos : ~Tiene(x, e)') /\ (EnGDT(e)' <=> ~Quitado(u)')
    BY <1>1, <1>7, <1>8, <1>10 DEF Tenencia, UnoQueLoTiene
  <1>13. \A e : ~(Suelta("fs", e)' /\ Suelta("exit", e)')
    BY <1>7, <1>8 DEF Tenencia, UnoQueLoTiene, Hilos
  <1>14. \A e : EnGDT(e)' =>
            (\E x \in Procesos : Tiene(x, e)') \/ (\E u \in Hilos : Suelta(u, e)')
    <2>1. \A x \in Procesos : \A e : Tiene(x, e) /\ e # d => Tiene(x, e)'
      BY <1>4, <1>6
    <2>2. \A u \in Hilos : \A e : Suelta(u, e) => Suelta(u, e)'
      BY <1>7
    <2> QED
      BY <1>1, <1>7, <2>1, <2>2 DEF Tenencia, UnoQueLoTiene
  <1>15. UnoQueLoTiene'
    BY <1>9, <1>11, <1>12, <1>13, <1>14 DEF UnoQueLoTiene
  <1>16. p \notin terminados /\ ~Espera(p)
    <2>1. DOMAIN <<>> = {}
      OBVIOUS
    <2>2. tablaArchivos[p] # <<>>
      BY <2>1 DEF EnLista
    <2> QED
      BY <2>2, NoLosDos DEF Tenencia, Esperas
  <1>17. Esperas'
    BY <1>1, <1>3, <1>16 DEF Tenencia, Esperas, MismaActividad
  <1>18. Abriendo'
    <2>1. CASE t = "fs"
      BY <2>1, AbriendoLejos
    <2>2. CASE t = "exit"
      <3>1. \A x \in Procesos : \A e : EnLista(tablaArchivos[x], e)' => EnLista(tablaArchivos[x], e)
        BY <1>3
      <3>2. pc["fs"] = "abrir_gdt" => d # descr["fs"]
        BY DEF Tenencia, Abriendo
      <3>3. /\ pc'["fs"] = pc["fs"] /\ descr'["fs"] = descr["fs"] /\ descr'["exit"] = d
            /\ Archivo(descr["fs"])' = Archivo(descr["fs"])
        BY <2>2 DEF Hilos, Archivo
      <3> QED
        BY <1>1, <3>1, <3>2, <3>3, AbriendoQuieto DEF Tenencia
    <2> QED
      BY <2>1, <2>2 DEF Hilos
  <1> QED
    BY <1>2, <1>15, <1>17, <1>18 DEF Tenencia

\* list_remove_element(GDT, ...)
LEMMA TenenciaAlQuitar ==
    ASSUME Tenencia, Datos, MismaActividad, NEW t \in Hilos, NEW d, Suelta(t, d), ~Quitado(t),
           pc'[t] = "lib_clave",
           \A u \in Hilos \ {t} : pc'[u] = pc[u],
           GDT' = RemoveFirst(GDT, d),
           UNCHANGED <<tablaArchivos, descriptores, descr, terminados, un_nodo>>
    PROVE  Tenencia'
  <1>1. /\ \A e : EnGDT(e)' <=> EnGDT(e) /\ e # d
        /\ SinRepetidos(GDT')
    BY QuitarUno DEF Datos, EnGDT, Tenencia, UnoPorNombre
  <1>2. \A e : Archivo(e)' = Archivo(e)
    BY DEF Archivo
  <1>3. UnoPorNombre'
    BY <1>1, <1>2 DEF Tenencia, UnoPorNombre
  <1>4. \A p \in Procesos : Tenidos(p)' = Tenidos(p) /\ \A e : Tiene(p, e)' <=> Tiene(p, e)
    BY MismosTenidos
  <1>5. /\ \A u \in Hilos : \A e : Suelta(u, e)' <=> Suelta(u, e)
        /\ Quitado(t)' /\ \A u \in Hilos \ {t} : Quitado(u)' <=> Quitado(u)
        /\ \A e : Suelta(t, e) => e = d
    BY DEF Suelta, Libera, Quitado, PasosLib
  <1>6. /\ \A p \in Procesos : ~Tiene(p, d)
        /\ \A u \in Hilos \ {t} : ~Suelta(u, d)
        /\ EnGDT(d)
    BY DEF Tenencia, UnoQueLoTiene, Hilos
  <1>7. \A p \in Procesos : SinRepetidos(Tenidos(p)') /\ \A e : Tiene(p, e)' => EnGDT(e)'
    BY <1>1, <1>4, <1>6 DEF Tenencia, UnoQueLoTiene
  <1>8. \A u \in Hilos : \A e : Suelta(u, e)' =>
            (\A p \in Procesos : ~Tiene(p, e)') /\ (EnGDT(e)' <=> ~Quitado(u)')
    BY <1>1, <1>4, <1>5, <1>6 DEF Tenencia, UnoQueLoTiene
  <1>9. /\ \A p, q \in Procesos : \A e : Tiene(p, e)' /\ Tiene(q, e)' => p = q
        /\ \A e : ~(Suelta("fs", e)' /\ Suelta("exit", e)')
        /\ \A e : EnGDT(e)' =>
              (\E p \in Procesos : Tiene(p, e)') \/ (\E u \in Hilos : Suelta(u, e)')
    BY <1>1, <1>4, <1>5 DEF Tenencia, UnoQueLoTiene, Hilos
  <1>10. UnoQueLoTiene'
    BY <1>7, <1>8, <1>9 DEF UnoQueLoTiene
  <1>11. Esperas'
    BY <1>1 DEF Tenencia, Esperas, MismaActividad
  <1>12. Abriendo'
    <2>1. CASE t = "fs"
      <3>1. descr'["fs"] = d
        BY <2>1 DEF Suelta
      <3>2. \A e : EnGDT(e)' => Archivo(e)' # Archivo(d)'
        BY <1>1, <1>2, <1>6 DEF Tenencia, UnoPorNombre
      <3> QED
        BY <2>1, <3>1, <3>2 DEF Abriendo, Archivo
    <2>2. CASE t = "exit"
      <3>1. \A x \in Procesos : \A e : EnLista(tablaArchivos[x], e)' => EnLista(tablaArchivos[x], e)
        OBVIOUS
      <3>2. /\ pc'["fs"] = pc["fs"] /\ descr'["fs"] = descr["fs"]
            /\ descr'["exit"] = descr["exit"]
            /\ Archivo(descr["fs"])' = Archivo(descr["fs"])
        BY <2>2 DEF Hilos, Archivo
      <3> QED
        BY <1>1, <1>2, <3>1, <3>2, AbriendoQuieto DEF Tenencia, Abriendo
    <2> QED
      BY <2>1, <2>2 DEF Hilos
  <1> QED
    BY <1>3, <1>10, <1>11, <1>12 DEF Tenencia

\* list_destroy and free: who was in the queue, if anybody, waits for nothing of the GDT.
LEMMA TenenciaAlDestruir ==
    ASSUME Tenencia, NEW t \in Hilos, NEW d, Suelta(t, d), Quitado(t),
           \A p \in Procesos : (Activo(p)' <=> Activo(p)) /\ (Espera(p)' => Espera(p)),
           \A p \in Procesos : Espera(p) /\ ~Espera(p)' => d = Head(tablaArchivos[p]),
           pc'[t] \notin PasosLib \cup {"abrir_nueva", "abrir_gdt"}, descr'[t] = NULL,
           pc["fs"] = "abrir_gdt" => descr["fs"] # NULL /\ descr["fs"] # d,
           \A u \in Hilos \ {t} : pc'[u] = pc[u] /\ descr'[u] = descr[u],
           descriptores' = [e \in DOMAIN descriptores \ {d} |-> descriptores[e]],
           Libera("fs") => descr["fs"] \in DOMAIN descriptores,
           UNCHANGED <<tablaArchivos, GDT, terminados, un_nodo>>
    PROVE  Tenencia'
  <1>1. ~EnGDT(d) /\ \A e : EnGDT(e)' <=> EnGDT(e)
    BY DEF Tenencia, UnoQueLoTiene, EnGDT
  <1>2. \A e \in DOMAIN descriptores :
            e # d => e \in DOMAIN descriptores' /\ Archivo(e)' = Archivo(e)
    BY DEF Archivo
  <1>3. \A e : EnGDT(e) => e \in DOMAIN descriptores' /\ Archivo(e)' = Archivo(e)
    BY <1>1, <1>2 DEF Tenencia, UnoPorNombre
  <1>4. UnoPorNombre'
    BY <1>1, <1>3 DEF Tenencia, UnoPorNombre
  <1>5. \A p \in Procesos : Tenidos(p)' = Tenidos(p) /\ \A e : Tiene(p, e)' <=> Tiene(p, e)
    BY DEF Tenidos, Tiene
  <1>6. /\ \A e : ~Suelta(t, e)' /\ (Suelta(t, e) => e = d)
        /\ \A u \in Hilos \ {t} : \A e : Suelta(u, e)' <=> Suelta(u, e)
        /\ \A u \in Hilos \ {t} : Quitado(u)' <=> Quitado(u)
    BY DEF Suelta, Libera, Quitado
  <1>7. /\ \A p \in Procesos : SinRepetidos(Tenidos(p)') /\ \A e : Tiene(p, e)' => EnGDT(e)'
        /\ \A p, q \in Procesos : \A e : Tiene(p, e)' /\ Tiene(q, e)' => p = q
    BY <1>1, <1>5 DEF Tenencia, UnoQueLoTiene
  <1>8. \A u \in Hilos : \A e : Suelta(u, e)' =>
            (\A p \in Procesos : ~Tiene(p, e)') /\ (EnGDT(e)' <=> ~Quitado(u)')
    BY <1>1, <1>5, <1>6 DEF Tenencia, UnoQueLoTiene
  <1>9. /\ \A e : ~(Suelta("fs", e)' /\ Suelta("exit", e)')
        /\ \A e : EnGDT(e)' =>
              (\E p \in Procesos : Tiene(p, e)') \/ (\E u \in Hilos : Suelta(u, e)')
    BY <1>1, <1>5, <1>6 DEF Tenencia, UnoQueLoTiene, Hilos
  <1>10. UnoQueLoTiene'
    BY <1>7, <1>8, <1>9 DEF UnoQueLoTiene
  <1>11. Esperas'
    BY <1>1 DEF Tenencia, Esperas
  <1>12. Abriendo'
    <2>1. CASE t = "fs"
      BY <2>1, AbriendoLejos DEF PasosLib
    <2>2. CASE t = "exit"
      <3>1. \A x \in Procesos : \A e : EnLista(tablaArchivos[x], e)' => EnLista(tablaArchivos[x], e)
        OBVIOUS
      <3>2. pc'["fs"] = pc["fs"] /\ descr'["fs"] = descr["fs"] /\ descr'["exit"] = NULL
        BY <2>2 DEF Hilos
      <3>3. ASSUME pc["fs"] \in {"lib_clave", "lib_destruir"}
            PROVE  Archivo(descr["fs"])' = Archivo(descr["fs"])
        <4>1. Libera("fs") /\ descr["fs"] # d
          BY <2>2, <3>3 DEF Libera, Suelta, PasosLib, Tenencia, UnoQueLoTiene
        <4>2. PICK e : e = descr["fs"]
          OBVIOUS
        <4>3. Archivo(e)' = Archivo(e)
          BY <1>2, <4>1, <4>2
        <4> QED
          BY <3>2, <4>2, <4>3 DEF Archivo
      <3> QED
        BY <1>1, <1>3, <3>1, <3>2, <3>3, AbriendoQuieto DEF Tenencia
    <2> QED
      BY <2>1, <2>2 DEF Hilos
  <1> QED
    BY <1>4, <1>10, <1>11, <1>12 DEF Tenencia

\* p, the first of the queue, takes over the file that thread t releases.
LEMMA TenenciaAlEntregar ==
    ASSUME Tenencia, Datos, NEW t \in Hilos, NEW d, Suelta(t, d), ~Quitado(t),
           NEW p \in Procesos \ terminados, Espera(p), ~Activo(p), d = Head(tablaArchivos[p]),
           Activo(p)', ~Espera(p)',
           \A x \in Procesos \ {p} : (Activo(x)' <=> Activo(x)) /\ (Espera(x)' <=> Espera(x)),
           pc'[t] \notin PasosLib \cup {"abrir_nueva", "abrir_gdt"}, descr'[t] = NULL,
           pc["fs"] = "abrir_gdt" => descr["fs"] # NULL,
           \A u \in Hilos \ {t} : pc'[u] = pc[u] /\ descr'[u] = descr[u],
           UNCHANGED <<tablaArchivos, GDT, descriptores, terminados, un_nodo>>
    PROVE  Tenencia'
  <1>1. \A e : (EnGDT(e)' <=> EnGDT(e)) /\ Archivo(e)' = Archivo(e)
    BY DEF EnGDT, Archivo
  <1>2. UnoPorNombre'
    BY <1>1 DEF Tenencia, UnoPorNombre
  <1>3. \A x \in Procesos : x # p => Tenidos(x)' = Tenidos(x) /\ \A e : Tiene(x, e)' <=> Tiene(x, e)
    BY DEF Tenidos, Tiene
  <1>4. PICK l, r : l = tablaArchivos[p] /\ r = Tail(tablaArchivos[p])
    OBVIOUS
  <1>5. /\ Tenidos(p)' = l /\ Tenidos(p) = r /\ l # <<>> /\ d = Head(l) /\ r = Tail(l)
        /\ l \in Seq(Identidades)
    BY <1>4 DEF Tenidos, Tenencia, Esperas, Datos
  <1>6. d \in Identidades /\ r \in Seq(Identidades) /\ l = <<d>> \o r
    BY <1>5, QuitarElPrimero
  <1>7. /\ \A x : EnLista(l, x) <=> EnLista(r, x) \/ x = d
        /\ SinRepetidos(r) /\ ~EnLista(r, d) => SinRepetidos(l)
    BY <1>6, AgregarAlFrente
  <1>8. \A e : Tiene(p, e)' <=> Tiene(p, e) \/ e = d
    BY <1>5, <1>7 DEF Tiene
  <1>9. EnGDT(d) /\ (\A x \in Procesos : ~Tiene(x, d)) /\ \A u \in Hilos \ {t} : ~Suelta(u, d)
    BY DEF Tenencia, UnoQueLoTiene, Hilos
  <1>10. SinRepetidos(l)
    BY <1>5, <1>7, <1>9 DEF Tiene, Tenencia, UnoQueLoTiene
  <1>11. /\ \A e : ~Suelta(t, e)' /\ (Suelta(t, e) => e = d)
         /\ \A u \in Hilos \ {t} : \A e : Suelta(u, e)' <=> Suelta(u, e)
         /\ \A u \in Hilos \ {t} : Quitado(u)' <=> Quitado(u)
    BY DEF Suelta, Libera, Quitado
  <1>12. \A x \in Procesos : SinRepetidos(Tenidos(x)') /\ \A e : Tiene(x, e)' => EnGDT(e)'
    BY <1>1, <1>3, <1>5, <1>8, <1>9, <1>10 DEF Tenencia, UnoQueLoTiene
  <1>13. \A x, y \in Procesos : \A e : Tiene(x, e)' /\ Tiene(y, e)' => x = y
    BY <1>3, <1>8, <1>9 DEF Tenencia, UnoQueLoTiene
  <1>14. \A u \in Hilos : \A e : Suelta(u, e)' =>
            (\A x \in Procesos : ~Tiene(x, e)') /\ (EnGDT(e)' <=> ~Quitado(u)')
    BY <1>1, <1>3, <1>8, <1>9, <1>11 DEF Tenencia, UnoQueLoTiene
  <1>15. \A e : ~(Suelta("fs", e)' /\ Suelta("exit", e)')
    BY <1>11 DEF Hilos
  <1>16. \A e : EnGDT(e)' =>
            (\E x \in Procesos : Tiene(x, e)') \/ (\E u \in Hilos : Suelta(u, e)')
    <2>1. \A x \in Procesos : \A e : Tiene(x, e) => Tiene(x, e)'
      BY <1>3, <1>8
    <2>2. \A u \in Hilos : \A e : Suelta(u, e) => Suelta(u, e)' \/ e = d
      BY <1>11
    <2> QED
      BY <1>1, <1>8, <2>1, <2>2 DEF Tenencia, UnoQueLoTiene
  <1>17. UnoQueLoTiene'
    BY <1>12, <1>13, <1>14, <1>15, <1>16 DEF UnoQueLoTiene
  <1>18. Esperas'
    BY <1>1 DEF Tenencia, Esperas
  <1>19. Abriendo'
    <2>1. CASE t = "fs"
      BY <2>1, AbriendoLejos DEF PasosLib
    <2>2. CASE t = "exit"
      <3>1. \A x \in Procesos : \A e : EnLista(tablaArchivos[x], e)' => EnLista(tablaArchivos[x], e)
        OBVIOUS
      <3>2. /\ pc'["fs"] = pc["fs"] /\ descr'["fs"] = descr["fs"] /\ descr'["exit"] = NULL
            /\ Archivo(descr["fs"])' = Archivo(descr["fs"])
        BY <2>2 DEF Hilos, Archivo
      <3> QED
        BY <1>1, <3>1, <3>2, AbriendoQuieto DEF Tenencia
    <2> QED
      BY <2>1, <2>2 DEF Hilos
  <1> QED
    BY <1>2, <1>17, <1>18, <1>19 DEF Tenencia

LEMMA TenenciaEnUnPaso == ArchivosInv /\ [Next]_vars => Tenencia'
  <1> SUFFICES ASSUME ArchivosInv, [Next]_vars PROVE Tenencia'
    OBVIOUS
  <1> USE DEF Hilos, Va, Atiende, Llega, programa, listas, archivos, locales
  <1>a. Datos /\ Manos /\ Lugares /\ Tenencia /\ Parejas /\ NombresDeCola
    BY DEF ArchivosInv
  <1>p. DOMAIN pc = Hilos /\ DOMAIN descr = Hilos
    BY <1>a DEF Manos, Datos
  <1>m. MismaActividad \/ Cambia
    BY LugaresEnUnPaso
  <1>c. ASSUME Cae PROVE Tenencia'
    BY <1>c, SinMoverse DEF Cae, Quieto, ArchivosInv
  <1>g. \A d : EnGDT(d) => d \in DOMAIN descriptores
    BY <1>a DEF Tenencia, UnoPorNombre
  <1>q. ASSUME UNCHANGED descriptores
        PROVE  \A d : EnGDT(d) => d \in DOMAIN descriptores' /\ Archivo(d)' = Archivo(d)
    BY <1>g, <1>q DEF Archivo
  \* Steps that are not one of those that change who is at work.
  <1>d. ASSUME ~AbrirTabla, pc["exit"] # "siguiente" \/ pc'["exit"] # "tomar",
               \A t \in Hilos : pc[t] \notin {"lib_destruir", "lib_quitar"} \/ pc'[t] = pc[t]
        PROVE  MismaActividad
    BY <1>d, <1>m, <1>p DEF Cambia, ExitTerminar, LibDestruir, LibQuitar, TrasLiberar
  <1>1. ASSUME NEW p \in Procesos, NEW op \in Operaciones, NEW n \in escenario.nombres,
               Pedir(p, op, n)
        PROVE  Tenencia'
    <2>1. /\ UNCHANGED <<tablaArchivos, GDT, terminados, descriptores, pc, descr, un_nodo>>
          /\ p \in consolasReady /\ consolasReady' = consolasReady \ {p}
      BY <1>1 DEF Pedir
    <2>2. MismaActividad
      BY <1>d, <1>p, <2>1 DEF AbrirTabla
    <2> QED
      BY <1>a, <2>1, <2>2, TenenciaAjena
  <1>2. ASSUME NEW p \in Procesos, Terminar(p) PROVE Tenencia'
    <2>1. /\ UNCHANGED <<tablaArchivos, GDT, terminados, descriptores, pc, descr, un_nodo>>
          /\ p \in consolasReady /\ consolasReady' = consolasReady \ {p}
      BY <1>2 DEF Terminar
    <2>2. MismaActividad
      BY <1>d, <1>p, <2>1 DEF AbrirTabla
    <2> QED
      BY <1>a, <2>1, <2>2, TenenciaAjena
  <1>f. ASSUME pc["fs"] \notin PasosLib \cup {"abrir_tabla"}, pc'["exit"] = pc["exit"]
        PROVE  MismaActividad
    BY <1>d, <1>f DEF AbrirTabla, PasosLib
  <1>3. ASSUME AbrirBuscar PROVE Tenencia'
    <2>1. PICK d : d = Busca(GDT, Llamada.archivo)
      OBVIOUS
    <2>2. /\ pc["fs"] = "tomar" /\ pc'["exit"] = pc["exit"]
          /\ pc'["fs"] = (IF d = NULL THEN "abrir_nueva" ELSE "abrir_tabla")
          /\ un_nodo' = Llamada /\ descr'["exit"] = descr["exit"]
          /\ UNCHANGED <<tablaArchivos, GDT, terminados, descriptores>>
      BY <1>3, <1>p, <2>1 DEF AbrirBuscar
    <2>3. MismaActividad
      BY <1>f, <2>2 DEF PasosLib
    <2>4. UnoPorNombre' /\ UnoQueLoTiene' /\ Esperas'
      BY <1>a, <1>q, <2>2, <2>3, TenenciaDeFS DEF PasosLib
    <2>5. Abriendo'
      <3>1. CASE d # NULL
        BY <2>2, <3>1, AbriendoLejos
      <3>2. CASE d = NULL
        <4>1. \A e \in DOMAIN descriptores : EnLista(GDT, e) => Archivo(e) # Llamada.archivo
          BY <1>a, <2>1, <3>2, LoQueNoHalla DEF Datos
        <4> QED
          BY <1>g, <2>2, <3>2, <4>1 DEF Abriendo, EnGDT, Archivo
      <3> QED
        BY <3>1, <3>2
    <2> QED
      BY <2>4, <2>5 DEF Tenencia
  <1>4. ASSUME AbrirNueva PROVE Tenencia'
    <2>1. PICK dn : dn = DescriptorNuevo
      OBVIOUS
    <2>2. /\ dn \notin DOMAIN descriptores /\ dn # descr["exit"] /\ dn # NULL
          /\ \A p \in Procesos : ~EnLista(tablaArchivos[p], dn)
      BY <1>a, <2>1, Frescos DEF Identidades
    <2>3. /\ pc["fs"] = "abrir_nueva" /\ pc'["exit"] = pc["exit"] /\ pc'["fs"] = "abrir_gdt"
          /\ descr'["exit"] = descr["exit"] /\ descr'["fs"] = dn
          /\ descriptores' = Con(descriptores, dn,
                                 [file_name |-> un_nodo.archivo, pointer |-> NINGUNO])
          /\ UNCHANGED <<tablaArchivos, GDT, terminados, un_nodo>>
      BY <1>4, <1>p, <2>1 DEF AbrirNueva
    <2>4. \A d : EnGDT(d) => d \in DOMAIN descriptores' /\ Archivo(d)' = Archivo(d)
      BY <1>g, <2>2, <2>3 DEF Archivo, Con
    <2>5. MismaActividad
      BY <1>f, <2>3 DEF PasosLib
    <2>6. UnoPorNombre' /\ UnoQueLoTiene' /\ Esperas'
      BY <1>a, <2>3, <2>4, <2>5, TenenciaDeFS DEF PasosLib
    <2>7. \A d : EnGDT(d)' => EnGDT(d) /\ Archivo(d)' # un_nodo'.archivo
      BY <1>a, <2>3, <2>4 DEF EnGDT, Tenencia, Abriendo
    <2>8. ~EnGDT(dn)' /\ \A p \in Procesos : ~EnLista(tablaArchivos[p], dn)'
      BY <1>g, <2>2, <2>3 DEF EnGDT
    <2>9. Abriendo'
      BY <2>2, <2>3, <2>7, <2>8 DEF Abriendo, EnGDT
    <2> QED
      BY <2>6, <2>9 DEF Tenencia
  <1>5. ASSUME AbrirGdt PROVE Tenencia'
    <2>1. PICK p, d : p = un_nodo.un_pcb /\ d = descr["fs"]
      OBVIOUS
    <2>2. /\ pc["fs"] = "abrir_gdt" /\ pc'["fs"] = "tomar" /\ pc'["exit"] = pc["exit"]
          /\ GDT' = Append(GDT, d) /\ descr'["exit"] = descr["exit"]
          /\ tablaArchivos' = [tablaArchivos EXCEPT ![p] = <<d>> \o @]
          /\ UNCHANGED <<descriptores, terminados>>
      BY <1>5, <1>p, <2>1 DEF AbrirGdt
    <2>3. un_nodo \in Nodo
      BY <1>a, <2>2 DEF Manos, Datos, PasosLib
    <2>4. p \in Procesos /\ EnMano(p) /\ p \notin terminados /\ Activo(p)
      BY <1>a, <2>1, <2>2, <2>3, ActivoEs DEF Nodo, EnMano, Lugares, Libre
    <2>5. /\ d \in DOMAIN descriptores /\ d \in Identidades /\ Archivo(d) = un_nodo.archivo
      BY <1>a, <2>1, <2>2 DEF Manos, Datos, Archivo
    <2>6. /\ ~EnGDT(d) /\ descr["exit"] # d
          /\ \A x \in Procesos : ~EnLista(tablaArchivos[x], d)
          /\ \A e : EnGDT(e) => Archivo(e) # Archivo(d)
      BY <1>a, <2>1, <2>2, <2>5 DEF Tenencia, Abriendo
    <2>7. MismaActividad
      BY <1>f, <2>2 DEF PasosLib
    <2>8. pc["fs"] \notin PasosLib
      BY <2>2 DEF PasosLib
    <2> QED
      BY <1>a, <2>2, <2>4, <2>5, <2>6, <2>7, <2>8, TenenciaAlAbrir
  <1>6. ASSUME AbrirTabla PROVE Tenencia'
    <2>1. PICK p, d : p = un_nodo.un_pcb /\ d = descr["fs"]
      OBVIOUS
    <2>2. /\ pc["fs"] = "abrir_tabla" /\ pc'["fs"] = "abrir_encolar" /\ pc'["exit"] = pc["exit"]
          /\ descr'["exit"] = descr["exit"]
          /\ tablaArchivos' = [tablaArchivos EXCEPT ![p] = <<d>> \o @]
          /\ UNCHANGED <<consolasReady, listas, un_nodo, exitPCB, colas, descriptores, GDT>>
      BY <1>6, <1>p, <2>1 DEF AbrirTabla
    <2>3. un_nodo \in Nodo
      BY <1>a, <2>2 DEF Manos, Datos, PasosLib
    <2>4. p \in Procesos /\ EnMano(p) /\ p \notin terminados /\ Activo(p)
      BY <1>a, <2>1, <2>2, <2>3, ActivoEs DEF Nodo, EnMano, Lugares, Libre
    <2>5. PICK l : l = <<d>> \o tablaArchivos[p]
      OBVIOUS
    <2>6. l # <<>> /\ Head(l) = d /\ Tail(l) = tablaArchivos[p]
      <3>1. tablaArchivos[p] \in Seq(Identidades) /\ d \in Identidades
        BY <1>a, <2>1, <2>2, <2>4 DEF Datos, Manos, Identidades
      <3> QED
        BY <2>5, <3>1, AgregarAlFrente
    <2>7. /\ tablaArchivos'[p] = l
          /\ \A x \in Procesos : x # p => tablaArchivos'[x] = tablaArchivos[x]
      BY <1>a, <2>2, <2>4, <2>5 DEF Datos
    <2>8. /\ \A x : /\ EnReady(x)' <=> EnReady(x)
                    /\ EnBlocked(x)' <=> EnBlocked(x)
                    /\ EnExit(x)' <=> EnExit(x)
                    /\ Saliendo(x)' <=> Saliendo(x)
                    /\ EnMano(x)' <=> EnMano(x)
                    /\ EnMano(x) <=> x = p
                    /\ \A q : EnCola(x, q)' <=> EnCola(x, q)
      BY <2>1, <2>2 DEF EnReady, EnBlocked, EnExit, Saliendo, EnMano, EnCola
    <2>9. /\ ~Activo(p)' /\ Espera(p)'
          /\ \A x \in Procesos : x # p => (Activo(x)' <=> Activo(x)) /\ (Espera(x)' <=> Espera(x))
      BY <1>a, <2>2, <2>4, <2>8, ActivoEs, EsperaEs, ActivoEsPrima, EsperaEsPrima DEF Lugares
    <2>10. \A x \in Procesos : Tenidos(x)' = Tenidos(x) /\ \A e : Tiene(x, e)' <=> Tiene(x, e)
      BY <2>4, <2>6, <2>7, <2>9 DEF Tenidos, Tiene
    <2>11. /\ \A t \in Hilos : \A e : Suelta(t, e)' <=> Suelta(t, e)
           /\ \A t \in Hilos : Libera(t) => (Quitado(t)' <=> Quitado(t))
           /\ \A e : (EnGDT(e)' <=> EnGDT(e)) /\ Archivo(e)' = Archivo(e)
      BY <2>2 DEF Suelta, Libera, Quitado, PasosLib, EnGDT, Archivo
    <2>12. UnoPorNombre'
      BY <1>a, <2>2, <2>11 DEF Tenencia, UnoPorNombre
    <2>13. UnoQueLoTiene'
      BY <1>a, <2>10, <2>11 DEF Tenencia, UnoQueLoTiene, Suelta
    <2>14. Esperas'
      BY <1>a, <2>2, <2>4, <2>6, <2>7, <2>9, <2>11 DEF Tenencia, Esperas
    <2>15. Abriendo'
      BY <2>2, AbriendoLejos
    <2> QED
      BY <2>12, <2>13, <2>14, <2>15 DEF Tenencia
  <1>7. ASSUME AbrirEncolar PROVE Tenencia'
    <2>1. CASE Cae
      BY <2>1, <1>c
    <2>2. CASE ~Cae
      <3>1. /\ pc["fs"] = "abrir_encolar" /\ pc'["fs"] = "tomar" /\ pc'["exit"] = pc["exit"]
            /\ descr'["exit"] = descr["exit"]
            /\ UNCHANGED <<tablaArchivos, GDT, terminados, descriptores>>
        BY <1>7, <1>p, <2>2 DEF AbrirEncolar
      <3>2. MismaActividad
        BY <1>f, <3>1 DEF PasosLib
      <3>3. UnoPorNombre' /\ UnoQueLoTiene' /\ Esperas'
        BY <1>a, <1>q, <3>1, <3>2, TenenciaDeFS DEF PasosLib
      <3> QED
        BY <3>1, <3>3, AbriendoLejos DEF Tenencia
    <2> QED
      BY <2>1, <2>2
  <1>8. ASSUME Cerrar PROVE Tenencia'
    <2>1. PICK p, n : p = Llamada.un_pcb /\ n = Llamada.archivo
      OBVIOUS
    <2>2. PICK d : d = Busca(tablaArchivos[p], n)
      OBVIOUS
    <2>3. pc["fs"] = "tomar" /\ pc'["exit"] = pc["exit"] /\ consolasBlocked # <<>>
      BY <1>8, <1>p DEF Cerrar
    <2>4. MismaActividad
      BY <1>f, <2>3 DEF PasosLib
    <2>5. CASE d # NULL
      <3>1. PICK l : l = RemoveFirst(tablaArchivos[p], d)
        OBVIOUS
      <3>2. /\ pc'["fs"] = "lib_cola" /\ descr'["fs"] = d /\ descr'["exit"] = descr["exit"]
            /\ tablaArchivos' = [tablaArchivos EXCEPT ![p] = l]
            /\ UNCHANGED <<GDT, descriptores, terminados, un_nodo>>
        BY <1>8, <1>p, <2>1, <2>2, <2>5, <3>1 DEF Cerrar
      <3>3. p \in Procesos /\ Activo(p)
        BY <1>a, <2>1, <2>3, LaLlamada, ActivoEs
      <3>4. tablaArchivos[p] \in Seq(Identidades) /\ SinRepetidos(tablaArchivos[p])
        BY <1>a, <3>3 DEF Datos, Tenencia, UnoQueLoTiene, Tenidos
      <3>5. /\ EnLista(tablaArchivos[p], d) /\ SinRepetidos(l)
            /\ \A x : EnLista(l, x) <=> EnLista(tablaArchivos[p], x) /\ x # d
        BY <2>2, <2>5, <3>1, <3>4, LoQueHalla, QuitarUno
      <3>6. pc["fs"] \notin PasosLib /\ "fs" \in Hilos /\
            \A u \in Hilos \ {"fs"} : pc'[u] = pc[u] /\ descr'[u] = descr[u]
        BY <2>3, <3>2 DEF PasosLib
      <3> QED
        BY <1>a, <2>4, <3>2, <3>3, <3>5, <3>6, TenenciaAlCerrar
    <2>6. CASE d = NULL
      <3>1. /\ pc'["fs"] = "tomar"
            /\ UNCHANGED <<tablaArchivos, GDT, terminados, descriptores, descr>>
        BY <1>8, <1>p, <2>1, <2>2, <2>6 DEF Cerrar, Falla
      <3>2. UnoPorNombre' /\ UnoQueLoTiene' /\ Esperas'
        BY <1>a, <1>q, <2>3, <2>4, <3>1, TenenciaDeFS DEF PasosLib
      <3> QED
        BY <3>1, <3>2, AbriendoLejos DEF Tenencia
    <2> QED
      BY <2>5, <2>6
  <1>9. ASSUME Posicionar PROVE Tenencia'
    <2>1. CASE Cae
      BY <2>1, <1>c
    <2>2. CASE ~Cae
      <3>1. PICK d, p : /\ pc["fs"] = "tomar" /\ pc'["fs"] = "tomar" /\ pc'["exit"] = pc["exit"]
                        /\ descriptores' = [descriptores EXCEPT ![d].pointer = p]
                        /\ UNCHANGED <<tablaArchivos, GDT, terminados, descr>>
        BY <1>9, <1>p, <2>2 DEF Posicionar
      <3>2. MismaActividad
        BY <1>f, <3>1 DEF PasosLib
      <3>3. \A e \in DOMAIN descriptores :
               e \in DOMAIN descriptores' /\ Archivo(e)' = Archivo(e)
        BY <1>a, <3>1 DEF Archivo, Datos, Descriptor
      <3>4. UnoPorNombre' /\ UnoQueLoTiene' /\ Esperas'
        BY <1>a, <1>g, <3>1, <3>2, <3>3, TenenciaDeFS DEF PasosLib
      <3> QED
        BY <3>1, <3>4, AbriendoLejos DEF Tenencia
    <2> QED
      BY <2>1, <2>2
  <1>10. ASSUME Transferir PROVE Tenencia'
    <2>1. CASE Cae
      BY <2>1, <1>c
    <2>2. CASE ~Cae
      <3>1. /\ pc["fs"] = "tomar" /\ pc'["fs"] = "recibir" /\ pc'["exit"] = pc["exit"]
            /\ descr'["exit"] = descr["exit"]
            /\ UNCHANGED <<tablaArchivos, GDT, terminados, descriptores>>
        BY <1>10, <1>p, <2>2 DEF Transferir
      <3>2. MismaActividad
        BY <1>f, <3>1 DEF PasosLib
      <3>3. UnoPorNombre' /\ UnoQueLoTiene' /\ Esperas'
        BY <1>a, <1>q, <3>1, <3>2, TenenciaDeFS DEF PasosLib
      <3> QED
        BY <3>1, <3>3, AbriendoLejos DEF Tenencia
    <2> QED
      BY <2>1, <2>2
  <1>11. ASSUME Recibir PROVE Tenencia'
    <2>1. CASE Cae
      BY <2>1, <1>c
    <2>2. CASE ~Cae
      <3>1. /\ pc["fs"] = "recibir" /\ pc'["fs"] = "tomar" /\ pc'["exit"] = pc["exit"]
            /\ descr'["exit"] = descr["exit"]
            /\ UNCHANGED <<tablaArchivos, GDT, terminados, descriptores>>
        BY <1>11, <1>p, <2>2 DEF Recibir
      <3>2. MismaActividad
        BY <1>f, <3>1 DEF PasosLib
      <3>3. UnoPorNombre' /\ UnoQueLoTiene' /\ Esperas'
        BY <1>a, <1>q, <3>1, <3>2, TenenciaDeFS DEF PasosLib
      <3> QED
        BY <3>1, <3>3, AbriendoLejos DEF Tenencia
    <2> QED
      BY <2>1, <2>2
  <1>12. ASSUME Truncar PROVE Tenencia'
    <2>1. /\ pc["fs"] = "tomar" /\ pc'["fs"] = "tomar" /\ pc'["exit"] = pc["exit"]
          /\ UNCHANGED <<tablaArchivos, GDT, terminados, descriptores, descr>>
      BY <1>12, <1>p DEF Truncar, Falla
    <2>2. MismaActividad
      BY <1>f, <2>1 DEF PasosLib
    <2>3. UnoPorNombre' /\ UnoQueLoTiene' /\ Esperas'
      BY <1>a, <1>q, <2>1, <2>2, TenenciaDeFS DEF PasosLib
    <2> QED
      BY <2>1, <2>3, AbriendoLejos DEF Tenencia
  <1>l. ASSUME NEW t \in Hilos, pc[t] \in PasosLib \ {"lib_destruir", "lib_quitar"},
               \A u \in Hilos \ {t} : pc'[u] = pc[u]
        PROVE  MismaActividad
    BY <1>d, <1>l, <1>p DEF AbrirTabla, PasosLib
  <1>k. ASSUME NEW t \in Hilos, MismaActividad, pc[t] \in PasosLib, pc'[t] \in PasosLib,
               Quitado(t)' <=> Quitado(t), \A u \in Hilos \ {t} : pc'[u] = pc[u],
               UNCHANGED <<tablaArchivos, GDT, terminados, descriptores, descr, un_nodo>>
        PROVE  Tenencia'
    <2>1. \A u \in Hilos : \A d : Suelta(u, d)' <=> Suelta(u, d)
      BY <1>k DEF Suelta, Libera
    <2>2. \A u \in Hilos : Quitado(u)' <=> Quitado(u)
      BY <1>k DEF Quitado
    <2>3. UnoPorNombre' /\ UnoQueLoTiene' /\ Esperas'
      BY <1>a, <1>k, <1>q, <2>1, <2>2, TenenciaQuieta
    <2>4. \A d : (EnGDT(d)' <=> EnGDT(d)) /\ Archivo(d)' = Archivo(d)
      BY <1>k DEF EnGDT, Archivo
    <2>5. Abriendo'
      <3>1. CASE pc'["fs"] = pc["fs"]
        BY <1>a, <1>k, <2>4, <3>1 DEF Tenencia, Abriendo, EnGDT, Archivo
      <3>2. CASE t = "fs"
        BY <1>a, <1>k, <2>4, <3>2 DEF Tenencia, Abriendo, EnGDT, Archivo, Quitado, PasosLib
      <3> QED
        BY <1>k, <3>1, <3>2
    <2> QED
      BY <2>3, <2>5 DEF Tenencia
  <1>13. ASSUME NEW t \in Hilos, LibCola(t) PROVE Tenencia'
    <2>1. /\ pc[t] = "lib_cola" /\ pc'[t] = "lib_vacia" /\ \A u \in Hilos \ {t} : pc'[u] = pc[u]
          /\ UNCHANGED <<tablaArchivos, GDT, terminados, descriptores, descr, un_nodo>>
      BY <1>13, <1>p DEF LibCola
    <2>2. MismaActividad
      BY <1>l, <2>1 DEF PasosLib
    <2> QED
      BY <1>k, <2>1, <2>2 DEF PasosLib, Quitado
  <1>14. ASSUME NEW t \in Hilos, LibVacia(t) PROVE Tenencia'
    <2>1. CASE Cae
      BY <2>1, <1>c
    <2>2. CASE ~Cae
      <3>1. /\ pc[t] = "lib_vacia" /\ pc'[t] \in {"lib_gdt", "lib_quitar"}
            /\ \A u \in Hilos \ {t} : pc'[u] = pc[u]
            /\ UNCHANGED <<tablaArchivos, GDT, terminados, descriptores, descr, un_nodo>>
        BY <1>14, <1>p, <2>2 DEF LibVacia
      <3>2. MismaActividad
        BY <1>l, <3>1 DEF PasosLib
      <3> QED
        BY <1>k, <3>1, <3>2 DEF PasosLib, Quitado
    <2> QED
      BY <2>1, <2>2
  <1>15. ASSUME NEW t \in Hilos, LibGdt(t) PROVE Tenencia'
    <2>1. PICK d : d = descr[t]
      OBVIOUS
    <2>2. /\ pc[t] = "lib_gdt" /\ pc'[t] = "lib_clave" /\ \A u \in Hilos \ {t} : pc'[u] = pc[u]
          /\ GDT' = RemoveFirst(GDT, d)
          /\ UNCHANGED <<tablaArchivos, descriptores, descr, terminados, un_nodo>>
      BY <1>15, <1>p, <2>1 DEF LibGdt
    <2>3. MismaActividad
      BY <1>l, <2>2 DEF PasosLib
    <2>4. Suelta(t, d) /\ ~Quitado(t)
      BY <2>1, <2>2 DEF Suelta, Libera, Quitado, PasosLib
    <2> QED
      BY <1>a, <2>2, <2>3, <2>4, TenenciaAlQuitar
  <1>16. ASSUME NEW t \in Hilos, LibClave(t) PROVE Tenencia'
    <2>1. /\ pc[t] = "lib_clave" /\ pc'[t] = "lib_destruir"
          /\ \A u \in Hilos \ {t} : pc'[u] = pc[u]
          /\ UNCHANGED <<tablaArchivos, GDT, terminados, descriptores, descr, un_nodo>>
      BY <1>16, <1>p DEF LibClave
    <2>2. MismaActividad
      BY <1>l, <2>1 DEF PasosLib
    <2> QED
      BY <1>k, <2>1, <2>2 DEF PasosLib, Quitado
  <1>17. ASSUME NEW t \in Hilos, LibDestruir(t) PROVE Tenencia'
    <2>1. PICK k, d : k = cola[t] /\ d = descr[t]
      OBVIOUS
    <2>2. /\ pc[t] = "lib_destruir" /\ pc'[t] \in {"tomar", "siguiente"} /\ descr'[t] = NULL
          /\ \A u \in Hilos \ {t} : pc'[u] = pc[u] /\ descr'[u] = descr[u]
          /\ colas' = [q \in DOMAIN colas \ {k} |-> colas[q]]
          /\ descriptores' = [e \in DOMAIN descriptores \ {d} |-> descriptores[e]]
          /\ UNCHANGED <<consolasReady, listas, un_nodo, exitPCB, tablaArchivos, GDT>>
      BY <1>17, <1>p, <2>1 DEF LibDestruir, TrasLiberar, Olvida
    <2>3. Suelta(t, d) /\ Quitado(t) /\ MismoEncolar /\ k # NULL
      BY <1>a, <2>1, <2>2 DEF Suelta, Libera, Quitado, PasosLib, MismoEncolar, Manos
    <2>4. /\ \A p \in Procesos : (Activo(p)' <=> Activo(p)) /\ (Espera(p)' => Espera(p))
          /\ \A p \in Procesos : Espera(p) /\ ~EnCola(p, k) => Espera(p)'
      BY <1>a, <2>2, <2>3, DeColaANinguna
    <2>5. ASSUME NEW p \in Procesos, Espera(p), ~Espera(p)' PROVE d = Head(tablaArchivos[p])
      <3>1. PorEspera(k, Head(tablaArchivos[p])) /\ PorHilo(k, d)
        BY <2>1, <2>3, <2>4, <2>5 DEF PorEspera, PorHilo
      <3> QED
        BY <1>a, <3>1 DEF Parejas, DeSuCola
    <2>6. /\ Libera("fs") => descr["fs"] \in DOMAIN descriptores
          /\ pc["fs"] = "abrir_gdt" => descr["fs"] # NULL
          /\ pc["fs"] = "abrir_gdt" => descr["fs"] # d
      <3>1. pc["fs"] = "abrir_gdt" => t = "exit"
        BY <2>2
      <3> QED
        BY <1>a, <2>1, <3>1 DEF Manos, Tenencia, Abriendo
    <2>7. pc'[t] \notin PasosLib \cup {"abrir_nueva", "abrir_gdt"}
      BY <2>2 DEF PasosLib
    <2> QED
      BY <1>a, <2>2, <2>3, <2>4, <2>5, <2>6, <2>7, TenenciaAlDestruir
  <1>18. ASSUME NEW t \in Hilos, LibQuitar(t) PROVE Tenencia'
    <2>1. PICK k, d, p : k = cola[t] /\ d = descr[t] /\ p = Head(colas[cola[t]])
      OBVIOUS
    <2>2. /\ pc[t] = "lib_quitar" /\ pc'[t] \in {"tomar", "siguiente"} /\ descr'[t] = NULL
          /\ \A u \in Hilos \ {t} : pc'[u] = pc[u] /\ descr'[u] = descr[u]
          /\ colas' = [colas EXCEPT ![k] = Tail(@)]
          /\ consolasReady' = consolasReady \cup {p}
          /\ UNCHANGED <<listas, un_nodo, exitPCB, tablaArchivos, GDT, descriptores>>
      BY <1>18, <1>p, <2>1 DEF LibQuitar, TrasLiberar, Olvida
    <2>3. /\ Suelta(t, d) /\ ~Quitado(t) /\ MismoEncolar /\ k # NULL
          /\ k \in DOMAIN colas /\ colas[k] # <<>> /\ p = Head(colas[k])
      BY <1>a, <2>1, <2>2 DEF Suelta, Libera, Quitado, PasosLib, MismoEncolar, Manos
    <2>4. /\ p \in Procesos /\ EnCola(p, k) /\ Activo(p)' /\ ~Espera(p)'
          /\ \A x \in Procesos \ {p} : (Activo(x)' <=> Activo(x)) /\ (Espera(x)' <=> Espera(x))
      BY <1>a, <2>2, <2>3, DeColaAReady
    <2>5. Espera(p) /\ ~Activo(p) /\ p \notin terminados
      BY <1>a, <2>4, EsperaEs, NoLosDos DEF Lugares
    <2>6. d = Head(tablaArchivos[p])
      <3>1. PorEspera(k, Head(tablaArchivos[p])) /\ PorHilo(k, d)
        BY <2>1, <2>3, <2>4 DEF PorEspera, PorHilo
      <3> QED
        BY <1>a, <3>1 DEF Parejas, DeSuCola
    <2>7. /\ pc["fs"] = "abrir_gdt" => descr["fs"] # NULL
          /\ pc'[t] \notin PasosLib \cup {"abrir_nueva", "abrir_gdt"}
      BY <1>a, <2>2 DEF Manos, PasosLib
    <2> QED
      BY <1>a, <2>2, <2>3, <2>4, <2>5, <2>6, <2>7, TenenciaAlEntregar
  <1>19. ASSUME ExitTomar PROVE Tenencia'
    <2>1. /\ UNCHANGED <<tablaArchivos, GDT, terminados, descriptores, descr, un_nodo>>
          /\ pc["exit"] = "tomar" /\ pc'["exit"] = "siguiente" /\ pc'["fs"] = pc["fs"]
      BY <1>19, <1>p DEF ExitTomar
    <2>2. MismaActividad
      BY <1>19, <1>d, <1>p, <2>1 DEF AbrirTabla
    <2>3. /\ \A t \in Hilos : \A d : Suelta(t, d)' <=> Suelta(t, d)
          /\ \A t \in Hilos : Quitado(t)' <=> Quitado(t)
      BY <2>1 DEF Suelta, Libera, Quitado, PasosLib
    <2>4. UnoPorNombre' /\ UnoQueLoTiene' /\ Esperas'
      BY <1>a, <1>q, <2>1, <2>2, <2>3, TenenciaQuieta
    <2>5. Abriendo'
      BY <1>a, <2>1 DEF Tenencia, Abriendo, EnGDT, Archivo
    <2> QED
      BY <2>4, <2>5 DEF Tenencia
  <1>20. ASSUME ExitCerrarUno PROVE Tenencia'
    <2>1. PICK p, d, l : /\ p = exitPCB /\ d = Head(tablaArchivos[exitPCB])
                         /\ l = Tail(tablaArchivos[exitPCB])
      OBVIOUS
    <2>2. /\ pc["exit"] = "siguiente" /\ pc'["exit"] = "lib_cola" /\ pc'["fs"] = pc["fs"]
          /\ descr'["exit"] = d /\ descr'["fs"] = descr["fs"] /\ tablaArchivos[p] # <<>>
          /\ tablaArchivos' = [tablaArchivos EXCEPT ![p] = l]
          /\ UNCHANGED <<GDT, descriptores, terminados, un_nodo>>
      BY <1>20, <1>p, <2>1 DEF ExitCerrarUno
    <2>3. MismaActividad
      BY <1>d, <1>p, <2>2 DEF AbrirTabla
    <2>4. p \in Procesos /\ Saliendo(p) /\ Activo(p)
      BY <1>a, <2>1, <2>2, ActivoEs DEF Manos, Datos, Saliendo
    <2>5. tablaArchivos[p] \in Seq(Identidades) /\ SinRepetidos(tablaArchivos[p])
      BY <1>a, <2>4 DEF Datos, Tenencia, UnoQueLoTiene, Tenidos
    <2>6. /\ EnLista(tablaArchivos[p], d) /\ SinRepetidos(l)
          /\ \A x : EnLista(l, x) <=> EnLista(tablaArchivos[p], x) /\ x # d
      <3>1. PICK s : s = tablaArchivos[p]
        OBVIOUS
      <3>2. s \in Seq(Identidades) /\ s # <<>> /\ SinRepetidos(s) /\ d = Head(s) /\ l = Tail(s)
        BY <2>1, <2>2, <2>5, <3>1
      <3>3. /\ EnLista(s, d) /\ SinRepetidos(l) /\ ~EnLista(l, d)
            /\ \A x : EnLista(s, x) <=> EnLista(l, x) \/ x = d
        BY <3>2, QuitarElPrimero
      <3> QED
        BY <3>1, <3>3
    <2>7. pc["exit"] \notin PasosLib /\ "exit" \in Hilos /\
          \A u \in Hilos \ {"exit"} : pc'[u] = pc[u] /\ descr'[u] = descr[u]
      BY <2>2 DEF PasosLib
    <2> QED
      BY <1>a, <2>2, <2>3, <2>4, <2>6, <2>7, TenenciaAlCerrar
  <1>21. ASSUME ExitTerminar PROVE Tenencia'
    <2>1. PICK p : p = exitPCB
      OBVIOUS
    <2>2. /\ pc["exit"] = "siguiente" /\ pc'["exit"] = "tomar" /\ pc'["fs"] = pc["fs"]
          /\ tablaArchivos[p] = <<>> /\ MismoEncolar
          /\ exitPCB' = NINGUNO /\ terminados' = terminados \cup {p}
          /\ UNCHANGED <<consolasReady, consolasBlocked, consolasExit, un_nodo, descr>>
          /\ UNCHANGED <<descriptores, GDT, colas, tablaArchivos>>
      BY <1>21, <1>p, <2>1 DEF ExitTerminar, MismoEncolar
    <2>3. p \in Procesos
      BY <1>a, <2>1, <2>2 DEF Manos, Datos
    <2>4. /\ ~Activo(p)' /\ ~Espera(p)'
          /\ \A y \in Procesos \ {p} :
                (Activo(y)' <=> Activo(y)) /\ (Espera(y)' <=> Espera(y))
      BY <1>a, <2>1, <2>2, <2>3, DeSaliendoATerminado
    <2>5. \A x \in Procesos : Tenidos(x)' = Tenidos(x) /\ \A d : Tiene(x, d)' <=> Tiene(x, d)
      BY <2>2, <2>4 DEF Tenidos, Tiene
    <2>6. /\ \A t \in Hilos : \A d : Suelta(t, d)' <=> Suelta(t, d)
          /\ \A t \in Hilos : Quitado(t)' <=> Quitado(t)
          /\ \A d : (EnGDT(d)' <=> EnGDT(d)) /\ Archivo(d)' = Archivo(d)
      BY <2>2 DEF Suelta, Libera, Quitado, PasosLib, EnGDT, Archivo
    <2>7. UnoPorNombre' /\ Abriendo'
      BY <1>a, <2>2, <2>6 DEF Tenencia, UnoPorNombre, Abriendo, EnGDT, Archivo
    <2>8. UnoQueLoTiene'
      BY <1>a, <2>5, <2>6 DEF Tenencia, UnoQueLoTiene
    <2>9. Esperas'
      BY <1>a, <2>2, <2>4, <2>6 DEF Tenencia, Esperas
    <2> QED
      BY <2>7, <2>8, <2>9 DEF Tenencia
  <1>22. CASE UNCHANGED vars
    BY <1>22, SinMoverse DEF vars, Quieto, ArchivosInv, Datos
  <1> QED
    BY <1>1, <1>2, <1>3, <1>4, <1>5, <1>6, <1>7, <1>8, <1>9, <1>10, <1>11, <1>12, <1>13, <1>14,
       <1>15, <1>16, <1>17, <1>18, <1>19, <1>20, <1>21, <1>22
       DEF Next, Proceso, OperarFS, GestionadorExit, Liberar
-----------------------------------------------------------------------------
(* Where the pointers are *)

\* A process loses what it has open only when it closes it, or when it ends.
LEMMA NadieLoPierde ==
    ASSUME ArchivosInv, [Next]_vars, NEW x \in Procesos, NEW e, Tiene(x, e)
    PROVE  \/ Tiene(x, e)'
           \/ /\ Cerrar /\ x = Llamada.un_pcb
              /\ e = Busca(tablaArchivos[x], Llamada.archivo) /\ e # NULL
           \/ ExitCerrarUno /\ x = exitPCB
  <1> USE DEF Hilos, Va, Atiende, Llega, programa, listas, archivos, locales
  <1>a. Datos /\ Manos /\ Lugares /\ Tenencia
    BY DEF ArchivosInv
  <1>p. DOMAIN pc = Hilos
    BY <1>a DEF Manos
  <1>m. MismaActividad \/ Cambia
    BY LugaresEnUnPaso
  <1>t. EnLista(tablaArchivos[x], e)
    BY <1>a, LoTenidoEnTabla
  <1>1. CASE MismaActividad /\ UNCHANGED tablaArchivos
    BY <1>1, MismosTenidos
  <1>2. ASSUME AbrirGdt PROVE Tiene(x, e)'
    <2>1. PICK p, d : p = un_nodo.un_pcb /\ d = descr["fs"]
      OBVIOUS
    <2>2. /\ pc["fs"] = "abrir_gdt"
          /\ tablaArchivos' = [tablaArchivos EXCEPT ![p] = <<d>> \o @]
      BY <1>2, <2>1 DEF AbrirGdt
    <2>3. MismaActividad
      BY <1>2, <1>m, <1>p DEF AbrirGdt, Cambia, AbrirTabla, ExitTerminar, LibDestruir, LibQuitar,
         TrasLiberar
    <2>4. CASE x = p
      <3>1. Activo(p) /\ Activo(p)'
        BY <2>1, <2>2, <2>3, <2>4, ActivoEs DEF EnMano, MismaActividad
      <3>2. PICK l : l = <<d>> \o tablaArchivos[p]
        OBVIOUS
      <3>3. tablaArchivos[p] \in Seq(Identidades) /\ d \in Identidades
        BY <1>a, <2>1, <2>2, <2>4 DEF Datos, Manos, Identidades
      <3>4. EnLista(l, e)
        BY <1>t, <2>4, <3>2, <3>3, AgregarAlFrente
      <3>5. Tenidos(p)' = l
        BY <1>a, <2>2, <2>4, <3>1, <3>2 DEF Tenidos, Datos
      <3> QED
        BY <2>4, <3>4, <3>5 DEF Tiene
    <2>5. CASE x # p
      <3>1. tablaArchivos'[x] = tablaArchivos[x]
        BY <1>a, <2>2, <2>5 DEF Datos
      <3> QED
        BY <2>3, <3>1 DEF MismaActividad, Tenidos, Tiene
    <2> QED
      BY <2>4, <2>5
  <1>3. ASSUME AbrirTabla PROVE Tiene(x, e)'
    <2>1. PICK p, d : p = un_nodo.un_pcb /\ d = descr["fs"]
      OBVIOUS
    <2>2. /\ pc["fs"] = "abrir_tabla" /\ pc'["fs"] = "abrir_encolar"
          /\ tablaArchivos' = [tablaArchivos EXCEPT ![p] = <<d>> \o @]
          /\ UNCHANGED <<consolasReady, listas, un_nodo, exitPCB>>
      BY <1>3, <1>p, <2>1 DEF AbrirTabla
    <2>3. \A y : /\ EnReady(y)' <=> EnReady(y)
                 /\ EnBlocked(y)' <=> EnBlocked(y)
                 /\ EnExit(y)' <=> EnExit(y)
                 /\ Saliendo(y)' <=> Saliendo(y)
                 /\ EnMano(y)' <=> EnMano(y)
                 /\ EnMano(y) <=> y = p
      BY <2>1, <2>2 DEF EnReady, EnBlocked, EnExit, Saliendo, EnMano
    <2>4. CASE x = p
      <3>1. PICK l : l = <<d>> \o tablaArchivos[p]
        OBVIOUS
      <3>2. tablaArchivos[p] \in Seq(Identidades) /\ d \in Identidades
        BY <1>a, <2>1, <2>2, <2>4 DEF Datos, Manos, Identidades
      <3>3. l # <<>> /\ Tail(l) = tablaArchivos[p] /\ EnLista(l, e)
        BY <1>t, <2>4, <3>1, <3>2, AgregarAlFrente
      <3>4. tablaArchivos'[p] = l
        BY <1>a, <2>2, <2>4, <3>1 DEF Datos
      <3> QED
        BY <1>t, <2>4, <3>3, <3>4 DEF Tenidos, Tiene
    <2>5. CASE x # p
      <3>1. tablaArchivos'[x] = tablaArchivos[x]
        BY <1>a, <2>2, <2>5 DEF Datos
      <3>2. Activo(x)' <=> Activo(x)
        BY <2>3, <2>5, ActivoEs, ActivoEsPrima
      <3> QED
        BY <3>1, <3>2 DEF Tenidos, Tiene
    <2> QED
      BY <2>4, <2>5
  <1>4. ASSUME Cerrar, ~Tiene(x, e)'
        PROVE  /\ x = Llamada.un_pcb
               /\ e = Busca(tablaArchivos[x], Llamada.archivo) /\ e # NULL
    <2>1. PICK p, n : p = Llamada.un_pcb /\ n = Llamada.archivo
      OBVIOUS
    <2>2. PICK d : d = Busca(tablaArchivos[p], n)
      OBVIOUS
    <2>3. pc["fs"] = "tomar" /\ consolasBlocked # <<>>
      BY <1>4 DEF Cerrar
    <2>4. MismaActividad
      BY <1>4, <1>m, <1>p DEF Cerrar, Cambia, AbrirTabla, ExitTerminar, LibDestruir, LibQuitar,
         TrasLiberar
    <2>5. d # NULL
      BY <1>4, <2>1, <2>2, <2>4, MismosTenidos DEF Cerrar, Falla
    <2>6. PICK l : l = RemoveFirst(tablaArchivos[p], d)
      OBVIOUS
    <2>7. tablaArchivos' = [tablaArchivos EXCEPT ![p] = l]
      BY <1>4, <2>1, <2>2, <2>5, <2>6 DEF Cerrar
    <2>8. p \in Procesos /\ Activo(p) /\ Activo(p)'
      BY <1>a, <2>1, <2>3, <2>4, LaLlamada, ActivoEs DEF MismaActividad
    <2>9. x = p
      <3>1. x # p => tablaArchivos'[x] = tablaArchivos[x]
        BY <1>a, <2>7 DEF Datos
      <3> QED
        BY <1>4, <2>4, <3>1 DEF MismaActividad, Tenidos, Tiene
    <2>10. tablaArchivos[p] \in Seq(Identidades) /\ SinRepetidos(tablaArchivos[p])
      BY <1>a, <2>8 DEF Datos, Tenencia, UnoQueLoTiene, Tenidos
    <2>11. \A y : EnLista(l, y) <=> EnLista(tablaArchivos[p], y) /\ y # d
      BY <2>6, <2>10, QuitarUno
    <2>12. Tenidos(p)' = l
      BY <1>a, <2>7, <2>8 DEF Datos, Tenidos
    <2>13. e = d
      BY <1>4, <1>t, <2>9, <2>11, <2>12 DEF Tiene
    <2> QED
      BY <2>1, <2>2, <2>5, <2>9, <2>13
  <1>5. ASSUME ExitCerrarUno, x # exitPCB PROVE Tiene(x, e)'
    <2>1. MismaActividad
      BY <1>5, <1>m, <1>p DEF ExitCerrarUno, Cambia, AbrirTabla, ExitTerminar, LibDestruir,
         LibQuitar, TrasLiberar
    <2>2. tablaArchivos'[x] = tablaArchivos[x]
      BY <1>5, <1>a DEF ExitCerrarUno, Datos
    <2> QED
      BY <2>1, <2>2 DEF MismaActividad, Tenidos, Tiene
  <1>6. ASSUME ExitTerminar PROVE Tiene(x, e)'
    <2>1. PICK p : p = exitPCB
      OBVIOUS
    <2>2. /\ tablaArchivos[p] = <<>> /\ MismoEncolar
          /\ exitPCB' = NINGUNO /\ terminados' = terminados \cup {exitPCB}
          /\ UNCHANGED <<consolasReady, consolasBlocked, consolasExit, un_nodo, colas>>
          /\ UNCHANGED tablaArchivos
      BY <1>6, <1>p, <2>1 DEF ExitTerminar, MismoEncolar
    <2>3. p \in Procesos
      BY <1>6, <1>a, <2>1 DEF ExitTerminar, Manos, Datos
    <2>4. \A y \in Procesos \ {p} : Activo(y)' <=> Activo(y)
      BY <1>a, <2>1, <2>2, <2>3, DeSaliendoATerminado
    <2> QED
      BY <2>2, <2>4 DEF Tenidos, Tiene
  <1>7. ASSUME NEW t \in Hilos, LibDestruir(t) PROVE Tiene(x, e)'
    <2>1. PICK k : k = cola[t]
      OBVIOUS
    <2>2. /\ colas' = [q \in DOMAIN colas \ {k} |-> colas[q]] /\ UNCHANGED tablaArchivos
          /\ UNCHANGED <<consolasReady, listas, un_nodo, exitPCB>> /\ MismoEncolar
      BY <1>7, <1>p, <2>1 DEF LibDestruir, TrasLiberar, MismoEncolar
    <2>3. Activo(x)' <=> Activo(x)
      BY <1>a, <2>2, DeColaANinguna
    <2> QED
      BY <2>2, <2>3 DEF Tenidos, Tiene
  <1>8. ASSUME NEW t \in Hilos, LibQuitar(t) PROVE Tiene(x, e)'
    <2>1. PICK k, p : k = cola[t] /\ p = Head(colas[cola[t]])
      OBVIOUS
    <2>2. /\ colas' = [colas EXCEPT ![k] = Tail(@)] /\ UNCHANGED tablaArchivos
          /\ consolasReady' = consolasReady \cup {p}
          /\ UNCHANGED <<listas, un_nodo, exitPCB>> /\ MismoEncolar
      BY <1>8, <1>p, <2>1 DEF LibQuitar, TrasLiberar, MismoEncolar
    <2>3. k \in DOMAIN colas /\ colas[k] # <<>> /\ p = Head(colas[k])
      BY <1>8, <1>a, <2>1 DEF LibQuitar, Manos, Libera, PasosLib
    <2>4. Activo(p)' /\ \A y \in Procesos \ {p} : Activo(y)' <=> Activo(y)
      BY <1>a, <2>2, <2>3, DeColaAReady
    <2> QED
      BY <1>t, <2>2, <2>4 DEF Tenidos, Tiene
  <1>9. \/ AbrirGdt \/ AbrirTabla \/ Cerrar \/ ExitCerrarUno
        \/ UNCHANGED tablaArchivos
    BY DEF Next, vars, Proceso, Pedir, Terminar, OperarFS, AbrirBuscar, AbrirNueva, AbrirEncolar,
       Posicionar, Transferir, Recibir, Truncar, Falla, GestionadorExit, ExitTomar, ExitTerminar,
       Liberar, LibCola, LibVacia, LibGdt, LibClave, LibDestruir, LibQuitar, Cae
  <1> QED
    BY <1>1, <1>2, <1>3, <1>4, <1>5, <1>6, <1>7, <1>8, <1>9, <1>m DEF Cambia

LEMMA PosicionesAlInicio == Init => Posiciones
  BY DEF Init, Posiciones

\* What is left of the positions is where it was.
LEMMA PosicionesQuietas ==
    ASSUME Posiciones, posicionados' \subseteq posicionados, posicionados \subseteq Procesos \X Nat,
           \A p \in Procesos : \A n, d :
               <<p, n>> \in posicionados' /\ Tiene(p, d) /\ Archivo(d) = n => Tiene(p, d)',
           \A p \in Procesos : \A d : Tiene(p, d) =>
               Archivo(d)' = Archivo(d) /\ descriptores'[d].pointer = descriptores[d].pointer
    PROVE  Posiciones'
  <1> SUFFICES ASSUME NEW p \in Procesos, NEW n, <<p, n>> \in posicionados'
               PROVE \E d : Tiene(p, d)' /\ Archivo(d)' = n /\ descriptores'[d].pointer = p
    BY DEF Posiciones
  <1>1. PICK d : Tiene(p, d) /\ Archivo(d) = n /\ descriptores[d].pointer = p
    BY DEF Posiciones
  <1> QED
    BY <1>1

LEMMA PosicionesEnUnPaso == ArchivosInv /\ [Next]_vars => Posiciones'
  <1> SUFFICES ASSUME ArchivosInv, [Next]_vars PROVE Posiciones'
    OBVIOUS
  <1> USE DEF Hilos, Va, Atiende, Llega, programa, listas, archivos, locales
  <1>a. Datos /\ Manos /\ Lugares /\ Tenencia /\ Posiciones
    BY DEF ArchivosInv
  <1>p. posicionados \subseteq Procesos \X Nat
    BY <1>a DEF Datos
  <1>t. \A p \in Procesos : \A d : Tiene(p, d) => EnGDT(d) /\ d \in DOMAIN descriptores
    BY <1>a DEF Tenencia, UnoQueLoTiene, UnoPorNombre
  <1>n. \A p \in Procesos : \A d :
            Tiene(p, d) =>
                \/ Tiene(p, d)'
                \/ /\ Cerrar /\ p = Llamada.un_pcb
                   /\ d = Busca(tablaArchivos[p], Llamada.archivo) /\ d # NULL
                \/ ExitCerrarUno /\ p = exitPCB
    BY NadieLoPierde
  <1>q. ASSUME UNCHANGED descriptores
        PROVE  \A p \in Procesos : \A d : Tiene(p, d) =>
                   Archivo(d)' = Archivo(d) /\ descriptores'[d].pointer = descriptores[d].pointer
    BY <1>q DEF Archivo
  <1>1. ASSUME UNCHANGED <<posicionados, descriptores>>, ~Cerrar, ~ExitCerrarUno PROVE Posiciones'
    BY <1>1, <1>a, <1>n, <1>p, <1>q, PosicionesQuietas
  <1>2. ASSUME AbrirNueva, ~Cerrar, ~ExitCerrarUno PROVE Posiciones'
    <2>1. PICK dn : dn = DescriptorNuevo
      OBVIOUS
    <2>2. dn \notin DOMAIN descriptores
      BY <1>a, <2>1, Frescos
    <2>3. /\ UNCHANGED posicionados
          /\ descriptores' = Con(descriptores, dn,
                                 [file_name |-> un_nodo.archivo, pointer |-> NINGUNO])
      BY <1>2, <2>1 DEF AbrirNueva
    <2>4. \A d \in DOMAIN descriptores : descriptores'[d] = descriptores[d]
      BY <2>2, <2>3 DEF Con
    <2>5. \A p \in Procesos : \A d : Tiene(p, d) =>
              Archivo(d)' = Archivo(d) /\ descriptores'[d].pointer = descriptores[d].pointer
      BY <1>t, <2>4 DEF Archivo
    <2> QED
      BY <1>2, <1>a, <1>n, <1>p, <2>3, <2>5, PosicionesQuietas
  <1>3. ASSUME Cerrar PROVE Posiciones'
    <2>1. PICK p, n : p = Llamada.un_pcb /\ n = Llamada.archivo
      OBVIOUS
    <2>2. PICK d : d = Busca(tablaArchivos[p], n)
      OBVIOUS
    <2>3. /\ UNCHANGED descriptores
          /\ d # NULL => posicionados' = posicionados \ {<<p, n>>}
          /\ d = NULL => UNCHANGED posicionados
      BY <1>3, <2>1, <2>2 DEF Cerrar, Falla
    <2>4. ~ExitCerrarUno
      <3>1. pc["fs"] = "tomar" /\ pc'["fs"] # "siguiente" /\ pc'["exit"] = pc["exit"]
        BY <1>3, <1>a DEF Cerrar, Manos
      <3> QED
        BY <1>a, <3>1 DEF ExitCerrarUno, Manos
    <2>5. \A x \in Procesos : \A m, e :
              <<x, m>> \in posicionados' /\ Tiene(x, e) /\ Archivo(e) = m => Tiene(x, e)'
      <3> SUFFICES ASSUME NEW x \in Procesos, NEW m, NEW e, <<x, m>> \in posicionados',
                          Tiene(x, e), Archivo(e) = m, ~Tiene(x, e)'
                   PROVE  FALSE
        OBVIOUS
      <3>1. x = p /\ e = d /\ d # NULL
        BY <1>n, <2>1, <2>2, <2>4
      <3>2. Archivo(d) = n
        BY <2>2, <3>1, LoQueHalla
      <3> QED
        BY <2>3, <3>1, <3>2
    <2>6. posicionados' \subseteq posicionados
      BY <2>3
    <2> QED
      BY <1>a, <1>p, <1>q, <2>3, <2>5, <2>6, PosicionesQuietas
  <1>4. ASSUME Posicionar, ~Cerrar, ~ExitCerrarUno PROVE Posiciones'
    <2>1. CASE Cae
      BY <1>1, <1>4, <2>1 DEF Cae
    <2>2. CASE ~Cae
      <3>1. PICK p, n : p = Llamada.un_pcb /\ n = Llamada.archivo
        OBVIOUS
      <3>2. PICK d : d = Busca(tablaArchivos[p], n)
        OBVIOUS
      <3>3. /\ d # NULL /\ consolasBlocked # <<>>
            /\ descriptores' = [descriptores EXCEPT ![d].pointer = p]
            /\ posicionados' = posicionados \cup {<<p, n>>}
        BY <1>4, <2>2, <3>1, <3>2 DEF Posicionar
      <3>4. EnLista(tablaArchivos[p], d) /\ d \in DOMAIN descriptores /\ Archivo(d) = n
        BY <3>2, <3>3, LoQueHalla
      <3>5. p \in Procesos /\ Activo(p)
        BY <1>a, <3>1, <3>3, LaLlamada, ActivoEs
      <3>6. Tiene(p, d)
        BY <1>a, <3>4, <3>5, LoTenidoEnTabla
      <3>7. /\ \A e \in DOMAIN descriptores :
                  descriptores'[e].file_name = descriptores[e].file_name
            /\ \A e \in DOMAIN descriptores :
                  e # d => descriptores'[e].pointer = descriptores[e].pointer
            /\ descriptores'[d].pointer = p
        BY <1>a, <3>3, <3>4 DEF Datos, Descriptor
      <3>8. ASSUME NEW x \in Procesos, NEW m, <<x, m>> \in posicionados'
            PROVE  \E e : Tiene(x, e)' /\ Archivo(e)' = m /\ descriptores'[e].pointer = x
        <4>1. CASE <<x, m>> = <<p, n>>
          <5>1. Tiene(p, d)' /\ Archivo(d)' = n
            BY <1>4, <1>n, <3>4, <3>5, <3>6, <3>7 DEF Archivo
          <5> QED
            BY <3>7, <4>1, <5>1
        <4>2. CASE <<x, m>> \in posicionados
          <5>1. PICK e : Tiene(x, e) /\ Archivo(e) = m /\ descriptores[e].pointer = x
            BY <1>a, <4>2 DEF Posiciones
          <5>2. e = d => x = p
            BY <1>a, <3>5, <3>6, <5>1 DEF Tenencia, UnoQueLoTiene
          <5>3. Tiene(x, e)' /\ Archivo(e)' = m /\ descriptores'[e].pointer = x
            BY <1>4, <1>n, <1>t, <3>7, <5>1, <5>2 DEF Archivo
          <5> QED
            BY <5>3
        <4> QED
          BY <3>3, <3>8, <4>1, <4>2
      <3> QED
        BY <3>8 DEF Posiciones
    <2> QED
      BY <2>1, <2>2
  <1>5. ASSUME NEW t \in Hilos, LibDestruir(t), ~Cerrar, ~ExitCerrarUno PROVE Posiciones'
    <2>1. PICK d : d = descr[t]
      OBVIOUS
    <2>2. /\ pc[t] = "lib_destruir" /\ UNCHANGED posicionados
          /\ descriptores' = [e \in DOMAIN descriptores \ {d} |-> descriptores[e]]
      BY <1>5, <2>1 DEF LibDestruir
    <2>3. Suelta(t, d) /\ Quitado(t)
      BY <2>1, <2>2 DEF Suelta, Libera, Quitado, PasosLib
    <2>4. ~EnGDT(d)
      BY <1>a, <2>3 DEF Tenencia, UnoQueLoTiene
    <2>5. \A p \in Procesos : \A e : Tiene(p, e) =>
              Archivo(e)' = Archivo(e) /\ descriptores'[e].pointer = descriptores[e].pointer
      BY <1>t, <2>2, <2>4 DEF Archivo
    <2> QED
      BY <1>5, <1>a, <1>n, <1>p, <2>2, <2>5, PosicionesQuietas
  <1>6. ASSUME ExitCerrarUno, ~Cerrar PROVE Posiciones'
    <2>1. UNCHANGED descriptores /\ posicionados' = {s \in posicionados : s[1] # exitPCB}
      BY <1>6 DEF ExitCerrarUno
    <2>2. /\ posicionados' \subseteq posicionados
          /\ \A x, m : <<x, m>> \in posicionados' => x # exitPCB
      BY <2>1
    <2>3. \A x \in Procesos : \A m, e :
              <<x, m>> \in posicionados' /\ Tiene(x, e) /\ Archivo(e) = m => Tiene(x, e)'
      BY <1>6, <1>n, <2>2
    <2> QED
      BY <1>a, <1>p, <1>q, <2>1, <2>2, <2>3, PosicionesQuietas
  <1>7. \/ AbrirNueva \/ Cerrar \/ Posicionar \/ ExitCerrarUno \/ (\E t \in Hilos : LibDestruir(t))
        \/ UNCHANGED <<posicionados, descriptores>>
    BY DEF Next, vars, Proceso, Pedir, Terminar, OperarFS, AbrirBuscar, AbrirGdt, AbrirTabla,
       AbrirEncolar, Transferir, Recibir, Truncar, Falla, GestionadorExit, ExitTomar, ExitTerminar,
       Liberar, LibCola, LibVacia, LibGdt, LibClave, LibQuitar, Cae
  <1> QED
    BY <1>1, <1>2, <1>3, <1>4, <1>5, <1>6, <1>7
-----------------------------------------------------------------------------
(* The queue of each descriptor *)

LEMMA ParejasAlInicio == Init => Parejas /\ NombresDeCola
  <1> SUFFICES ASSUME Init PROVE Parejas /\ NombresDeCola
    OBVIOUS
  <1>1. DOMAIN <<>> = {}
    OBVIOUS
  <1>2. /\ \A d : ~EnGDT(d)
        /\ \A t \in Hilos : pc[t] = "tomar" /\ ~Libera(t)
        /\ \A p, q : ~EnCola(p, q)
    BY <1>1 DEF Init, EnGDT, EnLista, Libera, PasosLib, EnCola
  <1>3. \A q, d : ~DeSuCola(q, d)
    BY <1>2 DEF DeSuCola, PorNombre, PorHilo, PorEncolar, PorEspera, PorAbrir, Suelta, Hilos
  <1> QED
    BY <1>1, <1>2, <1>3 DEF Parejas, NombresDeCola, Init

\* The step makes nothing the queue of a descriptor that was not.
LEMMA ParejasQuietas ==
    ASSUME Parejas,
           \A d : EnGDT(d)' => EnGDT(d) /\ Archivo(d)' = Archivo(d),
           \A n \in DOMAIN diccionario_colas_archivos' :
               /\ n \in DOMAIN diccionario_colas_archivos
               /\ diccionario_colas_archivos'[n] = diccionario_colas_archivos[n],
           \A p, q : EnCola(p, q)' =>
               DeSuCola(q, Head(tablaArchivos'[p]))
                   \/ (EnCola(p, q) /\ tablaArchivos'[p] = tablaArchivos[p]),
           \A q, d : PorHilo(q, d)' => DeSuCola(q, d),
           \A q, d : PorEncolar(q, d)' => DeSuCola(q, d),
           \A q, d : PorAbrir(q, d)' => DeSuCola(q, d)
    PROVE  Parejas'
  <1>1. \A q, d : PorNombre(q, d)' => PorNombre(q, d)
    BY DEF PorNombre
  <1>2. ASSUME NEW q, NEW d, PorEspera(q, d)' PROVE DeSuCola(q, d)
    <2>1. PICK p \in Procesos : EnCola(p, q)' /\ d = Head(tablaArchivos'[p])
      BY <1>2 DEF PorEspera
    <2>2. CASE DeSuCola(q, Head(tablaArchivos'[p]))
      BY <2>1, <2>2
    <2>3. CASE EnCola(p, q) /\ tablaArchivos'[p] = tablaArchivos[p]
      BY <2>1, <2>3 DEF PorEspera, DeSuCola
    <2> QED
      BY <2>1, <2>2, <2>3
  <1>3. \A q, d : DeSuCola(q, d)' => DeSuCola(q, d)
    BY <1>1, <1>2 DEF DeSuCola
  <1> QED
    BY <1>3 DEF Parejas

\* The step leaves alone the tables, the GDT, the dictionary and the queues.
LEMMA ParejasIguales ==
    ASSUME ArchivosInv,
           UNCHANGED <<colas, diccionario_colas_archivos, tablaArchivos, GDT, cola>>,
           \A d \in DOMAIN descriptores : Archivo(d)' = Archivo(d),
           \A t \in Hilos : Libera(t)' => Libera(t) /\ descr'[t] = descr[t],
           \A t \in Hilos : pc'[t] = "lib_destruir" => pc[t] = "lib_destruir",
           pc'["fs"] = "abrir_encolar" => pc["fs"] = "abrir_encolar" /\ un_nodo' = un_nodo,
           \A q, d : PorAbrir(q, d)' => DeSuCola(q, d)
    PROVE  Parejas' /\ NombresDeCola'
  <1>1. /\ \A d : EnGDT(d)' => EnGDT(d) /\ Archivo(d)' = Archivo(d)
        /\ \A p, q : EnCola(p, q)' => EnCola(p, q) /\ tablaArchivos'[p] = tablaArchivos[p]
    BY DEF ArchivosInv, Tenencia, UnoPorNombre, EnGDT, EnCola
  <1>2. \A q, d : PorHilo(q, d)' => PorHilo(q, d)
    BY DEF PorHilo, Suelta
  <1>3. \A q, d : PorEncolar(q, d)' => PorEncolar(q, d)
    BY DEF PorEncolar
  <1>4. Parejas'
    BY <1>1, <1>2, <1>3, ParejasQuietas DEF ArchivosInv, DeSuCola
  <1>5. \A t \in Hilos : Libera(t)' => Archivo(descr[t])' = Archivo(descr[t])
    <2> SUFFICES ASSUME NEW t \in Hilos, Libera(t)' PROVE Archivo(descr[t])' = Archivo(descr[t])
      OBVIOUS
    <2>1. PICK d : d = descr[t]
      OBVIOUS
    <2>2. d \in DOMAIN descriptores /\ descr'[t] = d
      BY <2>1 DEF ArchivosInv, Manos
    <2>3. Archivo(d)' = Archivo(d)
      BY <2>2
    <2> QED
      BY <2>1, <2>2, <2>3 DEF Archivo
  <1>6. NombresDeCola'
    BY <1>5 DEF ArchivosInv, NombresDeCola
  <1> QED
    BY <1>4, <1>6

\* AbrirNueva: the queue and the descriptor that it makes are of nobody yet.
LEMMA ParejasAlNacer == ArchivosInv /\ AbrirNueva => Parejas' /\ NombresDeCola'
  <1> SUFFICES ASSUME ArchivosInv, AbrirNueva PROVE Parejas' /\ NombresDeCola'
    OBVIOUS
  <1> USE DEF Hilos
  <1>a. Datos /\ Manos /\ Lugares /\ Tenencia /\ Parejas /\ NombresDeCola
    BY DEF ArchivosInv
  <1>p. DOMAIN pc = Hilos /\ DOMAIN descr = Hilos
    BY <1>a DEF Manos, Datos
  <1>1. PICK n, cn, dn : n = un_nodo.archivo /\ cn = ColaNueva /\ dn = DescriptorNuevo
    OBVIOUS
  <1>2. /\ cn \in Identidades /\ cn \notin DOMAIN colas /\ \A t \in Hilos : cn # cola[t]
        /\ dn \notin DOMAIN descriptores /\ \A t \in Hilos : dn # descr[t]
        /\ \A p \in Procesos : ~EnLista(tablaArchivos[p], dn)
    BY <1>a, <1>1, Frescos
  <1>3. /\ pc["fs"] = "abrir_nueva" /\ pc'["fs"] = "abrir_gdt" /\ pc'["exit"] = pc["exit"]
        /\ descr'["fs"] = dn /\ descr'["exit"] = descr["exit"]
        /\ diccionario_colas_archivos' = Con(diccionario_colas_archivos, n, cn)
        /\ colas' = Con(colas, cn, <<>>)
        /\ descriptores' = Con(descriptores, dn, [file_name |-> n, pointer |-> NINGUNO])
        /\ UNCHANGED <<GDT, tablaArchivos, un_nodo, cola>>
    BY <1>1, <1>p DEF AbrirNueva, Va
  <1>4. /\ \A m : m \in DOMAIN diccionario_colas_archivos' <=>
                      m \in DOMAIN diccionario_colas_archivos \/ m = n
        /\ diccionario_colas_archivos'[n] = cn
        /\ \A m \in DOMAIN diccionario_colas_archivos :
              m # n => diccionario_colas_archivos'[m] = diccionario_colas_archivos[m]
        /\ \A m \in DOMAIN diccionario_colas_archivos : diccionario_colas_archivos[m] # cn
    BY <1>a, <1>2, <1>3 DEF Con, Datos
  <1>5. /\ \A d : EnGDT(d)' <=> EnGDT(d)
        /\ \A d \in DOMAIN descriptores : Archivo(d)' = Archivo(d)
        /\ \A d : EnGDT(d) => d \in DOMAIN descriptores /\ Archivo(d) # n
    BY <1>a, <1>1, <1>2, <1>3 DEF EnGDT, Archivo, Con, Tenencia, UnoPorNombre, Abriendo
  <1>6. \A p, q : EnCola(p, q)' <=> EnCola(p, q)
    <2>1. DOMAIN <<>> = {}
      OBVIOUS
    <2> QED
      BY <1>2, <1>3, <2>1 DEF EnCola, Con, EnLista
  <1>7. ASSUME NEW q, NEW d, DeSuCola(q, d) PROVE q # cn /\ d # dn
    <2>1. CASE PorNombre(q, d)
      BY <1>2, <1>4, <1>5, <2>1 DEF PorNombre
    <2>2. CASE PorHilo(q, d)
      BY <1>2, <2>2 DEF PorHilo, Suelta
    <2>3. ~PorEncolar(q, d) /\ ~PorAbrir(q, d)
      BY <1>3 DEF PorEncolar, PorAbrir
    <2>4. CASE PorEspera(q, d)
      <3>1. PICK p \in Procesos : EnCola(p, q) /\ d = Head(tablaArchivos[p])
        BY <2>4 DEF PorEspera
      <3>2. Espera(p)
        BY <3>1, EsperaEs
      <3>3. tablaArchivos[p] \in Seq(Identidades) /\ tablaArchivos[p] # <<>>
        BY <1>a, <3>2 DEF Datos, Tenencia, Esperas
      <3>4. EnLista(tablaArchivos[p], d)
        BY <3>1, <3>3, QuitarElPrimero
      <3> QED
        BY <1>2, <3>1, <3>4 DEF EnCola
    <2> QED
      BY <1>7, <2>1, <2>2, <2>3, <2>4 DEF DeSuCola
  <1>8. ASSUME NEW q, NEW d, DeSuCola(q, d)' PROVE DeSuCola(q, d) \/ (q = cn /\ d = dn)
    <2>1. CASE PorNombre(q, d)'
      <3>1. PorNombre(q, d)
        BY <1>4, <1>5, <2>1 DEF PorNombre
      <3> QED
        BY <3>1 DEF DeSuCola
    <2>2. CASE PorHilo(q, d)'
      <3>1. PorHilo(q, d)
        BY <1>3, <2>2 DEF PorHilo, Suelta, Libera, PasosLib
      <3> QED
        BY <3>1 DEF DeSuCola
    <2>3. CASE PorEspera(q, d)'
      <3>1. PorEspera(q, d)
        BY <1>3, <1>6, <2>3 DEF PorEspera
      <3> QED
        BY <3>1 DEF DeSuCola
    <2>4. CASE PorAbrir(q, d)'
      BY <1>1, <1>3, <1>4, <2>4 DEF PorAbrir
    <2>5. ~PorEncolar(q, d)'
      BY <1>3 DEF PorEncolar
    <2> QED
      BY <1>8, <2>1, <2>2, <2>3, <2>4, <2>5 DEF DeSuCola
  <1>9. Parejas'
    BY <1>a, <1>7, <1>8 DEF Parejas
  <1>10. \A l, m \in DOMAIN diccionario_colas_archivos' :
            diccionario_colas_archivos'[l] = diccionario_colas_archivos'[m] => l = m
    BY <1>a, <1>4 DEF NombresDeCola
  <1>11. ASSUME NEW t \in Hilos, NEW m \in DOMAIN diccionario_colas_archivos',
                Libera(t)', cola'[t] = diccionario_colas_archivos'[m]
         PROVE  m = Archivo(descr[t])' /\ pc'[t] # "lib_destruir"
    <2>1. t = "exit" /\ Libera(t) /\ cola'[t] = cola[t] /\ pc'[t] = pc[t]
      BY <1>3, <1>11 DEF Libera, PasosLib
    <2>2. m \in DOMAIN diccionario_colas_archivos /\ cola[t] = diccionario_colas_archivos[m]
      BY <1>2, <1>4, <1>11, <2>1
    <2>3. m = Archivo(descr[t]) /\ pc[t] # "lib_destruir"
      BY <1>a, <2>1, <2>2 DEF NombresDeCola
    <2>4. PICK d : d = descr[t]
      OBVIOUS
    <2>5. d \in DOMAIN descriptores /\ d = descr'[t]
      BY <1>a, <1>3, <2>1, <2>4 DEF Manos
    <2>6. Archivo(d)' = Archivo(d)
      BY <1>5, <2>5
    <2> QED
      BY <2>1, <2>3, <2>4, <2>5, <2>6 DEF Archivo
  <1> QED
    BY <1>9, <1>10, <1>11 DEF NombresDeCola

LEMMA ParejasEnUnPaso == ArchivosInv /\ [Next]_vars => Parejas' /\ NombresDeCola'
  <1> SUFFICES ASSUME ArchivosInv, [Next]_vars PROVE Parejas' /\ NombresDeCola'
    OBVIOUS
  <1> USE DEF Hilos, Va, Atiende, Llega, programa, listas, archivos, locales
  <1>a. Datos /\ Manos /\ Lugares /\ Tenencia /\ Parejas /\ NombresDeCola
    BY DEF ArchivosInv
  <1>p. DOMAIN pc = Hilos /\ DOMAIN descr = Hilos /\ DOMAIN cola = Hilos
    BY <1>a DEF Manos, Datos
  <1>c. ASSUME Cae PROVE Parejas' /\ NombresDeCola'
    BY <1>c, SinMoverse DEF Cae, Quieto, ArchivosInv
  <1>e. \A p, q : EnCola(p, q) => p \in Procesos /\ Libre(p)
    BY <1>a DEF Lugares, EnCola, EnLista, Datos
  <1>u. ASSUME UNCHANGED <<colas, diccionario_colas_archivos, tablaArchivos, GDT, cola>>,
               \A d \in DOMAIN descriptores : Archivo(d)' = Archivo(d),
               UNCHANGED <<pc, descr, un_nodo>>
        PROVE  Parejas' /\ NombresDeCola'
    <2>1. \A q, d : PorAbrir(q, d)' => DeSuCola(q, d)
      BY <1>u DEF PorAbrir, DeSuCola
    <2>2. \A t \in Hilos : Libera(t)' => Libera(t) /\ descr'[t] = descr[t]
      BY <1>u DEF Libera
    <2> QED
      BY <1>u, <2>1, <2>2, ParejasIguales
  <1>1. ASSUME NEW p \in Procesos, NEW op \in Operaciones, NEW n \in escenario.nombres,
               Pedir(p, op, n)
        PROVE  Parejas' /\ NombresDeCola'
    <2>1. UNCHANGED <<archivos, pc, locales>>
      BY <1>1 DEF Pedir
    <2> QED
      BY <1>u, <2>1 DEF Archivo
  <1>2. ASSUME NEW p \in Procesos, Terminar(p) PROVE Parejas' /\ NombresDeCola'
    <2>1. UNCHANGED <<archivos, pc, locales>>
      BY <1>2 DEF Terminar
    <2> QED
      BY <1>u, <2>1 DEF Archivo
  \* operarFS goes to another place, and not to one where it has a queue at hand.
  <1>f. ASSUME UNCHANGED <<colas, diccionario_colas_archivos, tablaArchivos, GDT, cola>>,
               \A d \in DOMAIN descriptores : Archivo(d)' = Archivo(d),
               pc'["fs"] \notin PasosLib \cup {"abrir_encolar"},
               pc'["exit"] = pc["exit"], descr'["exit"] = descr["exit"],
               \A q, d : PorAbrir(q, d)' => DeSuCola(q, d)
        PROVE  Parejas' /\ NombresDeCola'
    <2>1. \A t \in Hilos : Libera(t)' => Libera(t) /\ descr'[t] = descr[t]
      BY <1>f DEF Libera
    <2>2. \A t \in Hilos : pc'[t] = "lib_destruir" => pc[t] = "lib_destruir"
      BY <1>f DEF PasosLib
    <2> QED
      BY <1>f, <2>1, <2>2, ParejasIguales
  <1>3. ASSUME AbrirBuscar PROVE Parejas' /\ NombresDeCola'
    <2>1. PICK d : d = Busca(GDT, Llamada.archivo)
      OBVIOUS
    <2>2. /\ pc'["exit"] = pc["exit"] /\ descr'["exit"] = descr["exit"] /\ descr'["fs"] = d
          /\ pc'["fs"] = (IF d = NULL THEN "abrir_nueva" ELSE "abrir_tabla")
          /\ un_nodo' = Llamada
          /\ UNCHANGED <<colas, diccionario_colas_archivos, tablaArchivos, GDT, cola, descriptores>>
      BY <1>3, <1>p, <2>1 DEF AbrirBuscar
    <2>3. d # NULL => EnGDT(d) /\ Archivo(d) = Llamada.archivo
      BY <2>1, LoQueHalla DEF EnGDT
    <2>4. \A q, x : PorAbrir(q, x)' => PorNombre(q, x)
      BY <2>2, <2>3 DEF PorAbrir, PorNombre
    <2>5. pc'["fs"] \notin PasosLib \cup {"abrir_encolar"}
      BY <2>2 DEF PasosLib
    <2> QED
      BY <1>f, <2>2, <2>4, <2>5 DEF Archivo, DeSuCola
  <1>4. ASSUME AbrirNueva PROVE Parejas' /\ NombresDeCola'
    BY <1>4, ParejasAlNacer
  <1>5. ASSUME AbrirGdt PROVE Parejas' /\ NombresDeCola'
    <2>1. PICK p, d : p = un_nodo.un_pcb /\ d = descr["fs"]
      OBVIOUS
    <2>2. /\ pc["fs"] = "abrir_gdt" /\ pc'["fs"] = "tomar" /\ pc'["exit"] = pc["exit"]
          /\ GDT' = Append(GDT, d) /\ descr'["exit"] = descr["exit"]
          /\ tablaArchivos' = [tablaArchivos EXCEPT ![p] = <<d>> \o @]
          /\ UNCHANGED <<descriptores, colas, diccionario_colas_archivos, cola>>
      BY <1>5, <1>p, <2>1 DEF AbrirGdt
    <2>3. un_nodo \in Nodo /\ d \in Identidades /\ Archivo(d) = un_nodo.archivo
      BY <1>a, <2>1, <2>2 DEF Manos, Datos, PasosLib, Archivo
    <2>4. /\ \A x : EnGDT(x)' => EnGDT(x) \/ x = d
          /\ \A x : Archivo(x)' = Archivo(x)
      BY <1>a, <2>2, <2>3, AgregarAlFinal DEF Datos, EnGDT, Archivo
    <2>5. \A x, q : EnCola(x, q)' => EnCola(x, q) /\ tablaArchivos'[x] = tablaArchivos[x]
      <3>1. EnMano(p)
        BY <2>1 DEF EnMano
      <3>2. \A x, q : EnCola(x, q) => x # p
        BY <1>e, <3>1 DEF Libre
      <3> QED
        BY <1>a, <1>e, <2>2, <3>2 DEF EnCola, Datos
    <2>6. ASSUME NEW q, NEW x, DeSuCola(q, x)' PROVE DeSuCola(q, x)
      <3>1. CASE PorNombre(q, x)'
        <4>1. PorNombre(q, x) \/ PorAbrir(q, x)
          BY <2>1, <2>2, <2>3, <2>4, <3>1 DEF PorNombre, PorAbrir
        <4> QED
          BY <4>1 DEF DeSuCola
      <3>2. CASE PorHilo(q, x)'
        <4>1. PorHilo(q, x)
          BY <2>2, <3>2 DEF PorHilo, Suelta, Libera, PasosLib
        <4> QED
          BY <4>1 DEF DeSuCola
      <3>3. CASE PorEspera(q, x)'
        <4>1. PorEspera(q, x)
          BY <2>5, <3>3 DEF PorEspera
        <4> QED
          BY <4>1 DEF DeSuCola
      <3>4. ~PorEncolar(q, x)' /\ ~PorAbrir(q, x)'
        BY <2>2 DEF PorEncolar, PorAbrir
      <3> QED
        BY <2>6, <3>1, <3>2, <3>3, <3>4 DEF DeSuCola
    <2>7. Parejas'
      BY <1>a, <2>6 DEF Parejas
    <2>8. NombresDeCola'
      BY <1>a, <2>2 DEF NombresDeCola, Libera, PasosLib, Archivo
    <2> QED
      BY <2>7, <2>8
  <1>6. ASSUME AbrirTabla PROVE Parejas' /\ NombresDeCola'
    <2>1. PICK p, d, n : p = un_nodo.un_pcb /\ d = descr["fs"] /\ n = un_nodo.archivo
      OBVIOUS
    <2>2. /\ pc["fs"] = "abrir_tabla" /\ pc'["fs"] = "abrir_encolar" /\ pc'["exit"] = pc["exit"]
          /\ descr'["exit"] = descr["exit"] /\ cola'["exit"] = cola["exit"]
          /\ cola'["fs"] = (IF n \in DOMAIN diccionario_colas_archivos
                            THEN diccionario_colas_archivos[n] ELSE NULL)
          /\ tablaArchivos' = [tablaArchivos EXCEPT ![p] = <<d>> \o @]
          /\ UNCHANGED <<descriptores, GDT, colas, diccionario_colas_archivos, un_nodo>>
      BY <1>6, <1>p, <2>1 DEF AbrirTabla
    <2>3. un_nodo \in Nodo /\ d \in Identidades /\ p \in Procesos /\ EnMano(p)
      BY <1>a, <2>1, <2>2 DEF Manos, Datos, PasosLib, Nodo, Identidades, EnMano
    <2>4. Head(tablaArchivos'[p]) = d
      <3>1. PICK l : l = <<d>> \o tablaArchivos[p]
        OBVIOUS
      <3>2. tablaArchivos[p] \in Seq(Identidades)
        BY <1>a, <2>3 DEF Datos
      <3>3. Head(l) = d
        BY <2>3, <3>1, <3>2, AgregarAlFrente
      <3> QED
        BY <1>a, <2>2, <2>3, <3>1, <3>3 DEF Datos
    <2>5. \A x, q : EnCola(x, q)' => EnCola(x, q) /\ tablaArchivos'[x] = tablaArchivos[x]
      <3>1. \A x, q : EnCola(x, q) => x # p
        BY <1>e, <2>3 DEF Libre
      <3> QED
        BY <1>a, <1>e, <2>2, <3>1 DEF EnCola, Datos
    <2>6. \A q, x : PorEncolar(q, x)' => PorAbrir(q, x)
      BY <2>1, <2>2, <2>4 DEF PorEncolar, PorAbrir
    <2>7. \A q, x : PorHilo(q, x)' => PorHilo(q, x)
      BY <2>2 DEF PorHilo, Suelta, Libera, PasosLib
    <2>8. \A q, x : ~PorAbrir(q, x)'
      BY <2>2 DEF PorAbrir
    <2>9. \A x : EnGDT(x)' => EnGDT(x) /\ Archivo(x)' = Archivo(x)
      BY <2>2 DEF EnGDT, Archivo
    <2>10. Parejas'
      BY <1>a, <2>2, <2>5, <2>6, <2>7, <2>8, <2>9, ParejasQuietas DEF DeSuCola
    <2>11. NombresDeCola'
      BY <1>a, <2>2 DEF NombresDeCola, Libera, PasosLib, Archivo
    <2> QED
      BY <2>10, <2>11
  <1>7. ASSUME AbrirEncolar PROVE Parejas' /\ NombresDeCola'
    <2>1. CASE Cae
      BY <2>1, <1>c
    <2>2. CASE ~Cae
      <3>1. PICK k, p : k = cola["fs"] /\ p = un_nodo.un_pcb
        OBVIOUS
      <3>2. /\ pc["fs"] = "abrir_encolar" /\ pc'["fs"] = "tomar" /\ un_nodo' = SinNodo
            /\ k \in DOMAIN colas /\ pc'["exit"] = pc["exit"]
            /\ colas' = [colas EXCEPT ![k] = Append(@, un_nodo.un_pcb)]
            /\ cola'["exit"] = cola["exit"]
            /\ UNCHANGED <<consolasReady, listas, exitPCB>>
            /\ UNCHANGED <<descr, descriptores, GDT, diccionario_colas_archivos, tablaArchivos>>
        BY <1>7, <1>p, <2>2, <3>1 DEF AbrirEncolar
      <3>3. un_nodo # SinNodo /\ k # NULL
        BY <1>a, <3>2 DEF Manos, PasosLib, Datos, Identidades
      <3>4. \A y, q : EnCola(y, q)' <=> EnCola(y, q) \/ (y = p /\ q = k)
        BY <1>a, <3>1, <3>2, <3>3, DeManoACola
      <3>5. PorEncolar(k, Head(tablaArchivos[p]))
        BY <3>1, <3>2, <3>3 DEF PorEncolar
      <3>6. \A y, q : EnCola(y, q)' =>
               DeSuCola(q, Head(tablaArchivos'[y]))
                   \/ (EnCola(y, q) /\ tablaArchivos'[y] = tablaArchivos[y])
        BY <3>2, <3>4, <3>5 DEF DeSuCola
      <3>7. \A q, x : PorHilo(q, x)' => PorHilo(q, x)
        BY <3>2 DEF PorHilo, Suelta, Libera, PasosLib
      <3>8. \A q, x : ~PorAbrir(q, x)' /\ ~PorEncolar(q, x)'
        BY <3>2 DEF PorAbrir, PorEncolar
      <3>9. \A x : EnGDT(x)' => EnGDT(x) /\ Archivo(x)' = Archivo(x)
        BY <3>2 DEF EnGDT, Archivo
      <3>10. Parejas'
        BY <1>a, <3>2, <3>6, <3>7, <3>8, <3>9, ParejasQuietas DEF DeSuCola
      <3>11. NombresDeCola'
        BY <1>a, <3>2 DEF NombresDeCola, Libera, PasosLib, Archivo
      <3> QED
        BY <3>10, <3>11
    <2> QED
      BY <2>1, <2>2
  \* Thread t takes d out of the table of p, which waits for nothing, and has no queue at hand yet.
  <1>s. ASSUME NEW t \in Hilos, NEW p \in Procesos, NEW d, NEW l,
               \A q : ~EnCola(p, q),
               pc'[t] = "lib_cola", cola[t] = NULL,
               \A u \in Hilos \ {t} : pc'[u] = pc[u] /\ descr'[u] = descr[u],
               tablaArchivos' = [tablaArchivos EXCEPT ![p] = l],
               pc["fs"] = "abrir_encolar" => un_nodo.un_pcb # p,
               UNCHANGED <<colas, diccionario_colas_archivos, GDT, descriptores, cola, un_nodo>>
        PROVE  Parejas' /\ NombresDeCola'
    <2>1. \A x, q : EnCola(x, q)' => EnCola(x, q) /\ tablaArchivos'[x] = tablaArchivos[x]
      BY <1>a, <1>e, <1>s DEF EnCola, Datos
    <2>2. \A q, x : PorHilo(q, x)' => PorHilo(q, x)
      <3> SUFFICES ASSUME NEW q, NEW x, PorHilo(q, x)' PROVE PorHilo(q, x)
        OBVIOUS
      <3>1. PICK u \in Hilos : Suelta(u, x)' /\ cola'[u] = q /\ q # NULL
        BY DEF PorHilo
      <3>2. u # t /\ Suelta(u, x) /\ cola[u] = q
        BY <1>s, <3>1 DEF Suelta, Libera
      <3> QED
        BY <3>1, <3>2 DEF PorHilo
    <2>3. \A q, x : PorEncolar(q, x)' => PorEncolar(q, x)
      <3> SUFFICES ASSUME NEW q, NEW x, PorEncolar(q, x)' PROVE PorEncolar(q, x)
        OBVIOUS
      <3>1. t # "fs" /\ pc["fs"] = "abrir_encolar" /\ un_nodo.un_pcb # p
        BY <1>s DEF PorEncolar
      <3>2. un_nodo.un_pcb \in Procesos
        BY <1>a, <3>1 DEF Manos, Datos, Nodo, PasosLib
      <3>3. tablaArchivos'[un_nodo.un_pcb] = tablaArchivos[un_nodo.un_pcb]
        BY <1>a, <1>s, <3>1, <3>2 DEF Datos
      <3> QED
        BY <1>s, <3>1, <3>3 DEF PorEncolar
    <2>4. \A q, x : PorAbrir(q, x)' => PorAbrir(q, x)
      <3>1. t = "fs" => \A q, x : ~PorAbrir(q, x)'
        BY <1>s DEF PorAbrir
      <3>2. t # "fs" => pc'["fs"] = pc["fs"] /\ descr'["fs"] = descr["fs"]
        BY <1>s
      <3> QED
        BY <1>s, <3>1, <3>2 DEF PorAbrir
    <2>5. \A x : EnGDT(x)' => EnGDT(x) /\ Archivo(x)' = Archivo(x)
      BY <1>s DEF EnGDT, Archivo
    <2>6. Parejas'
      BY <1>a, <1>s, <2>1, <2>2, <2>3, <2>4, <2>5, ParejasQuietas DEF DeSuCola
    <2>7. ASSUME NEW u \in Hilos, NEW m \in DOMAIN diccionario_colas_archivos',
                 Libera(u)', cola'[u] = diccionario_colas_archivos'[m]
          PROVE  m = Archivo(descr[u])' /\ pc'[u] # "lib_destruir"
      <3>1. diccionario_colas_archivos[m] \in Identidades
        BY <1>a, <1>s, <2>7 DEF Datos
      <3>2. u # t
        BY <1>s, <2>7, <3>1 DEF Identidades
      <3>3. Libera(u) /\ pc'[u] = pc[u] /\ descr'[u] = descr[u]
        BY <1>s, <2>7, <3>2 DEF Libera
      <3> QED
        BY <1>a, <1>s, <2>7, <3>3 DEF NombresDeCola, Archivo
    <2>8. NombresDeCola'
      BY <1>a, <1>s, <2>7 DEF NombresDeCola
    <2> QED
      BY <2>6, <2>8
  <1>8. ASSUME Cerrar PROVE Parejas' /\ NombresDeCola'
    <2>1. PICK p, n : p = Llamada.un_pcb /\ n = Llamada.archivo
      OBVIOUS
    <2>2. PICK d : d = Busca(tablaArchivos[p], n)
      OBVIOUS
    <2>3. /\ pc["fs"] = "tomar" /\ pc'["exit"] = pc["exit"] /\ consolasBlocked # <<>>
          /\ UNCHANGED <<un_nodo, cola>>
      BY <1>8, <1>p DEF Cerrar
    <2>4. CASE d # NULL
      <3>1. PICK l : l = RemoveFirst(tablaArchivos[p], d)
        OBVIOUS
      <3>2. /\ pc'["fs"] = "lib_cola" /\ descr'["exit"] = descr["exit"]
            /\ tablaArchivos' = [tablaArchivos EXCEPT ![p] = l]
            /\ UNCHANGED <<colas, diccionario_colas_archivos, GDT, descriptores>>
        BY <1>8, <1>p, <2>1, <2>2, <2>4, <3>1 DEF Cerrar
      <3>3. p \in Procesos /\ \A q : ~EnCola(p, q)
        BY <1>a, <1>e, <2>1, <2>3, LaLlamada DEF Libre
      <3>4. cola["fs"] = NULL
        BY <1>a, <2>3 DEF Manos
      <3>5. "fs" \in Hilos /\ \A u \in Hilos \ {"fs"} : pc'[u] = pc[u] /\ descr'[u] = descr[u]
        BY <2>3, <3>2
      <3> QED
        BY <1>s, <2>3, <3>2, <3>3, <3>4, <3>5
    <2>5. CASE d = NULL
      <3>1. pc'["fs"] = "tomar" /\ UNCHANGED <<archivos, descr>>
        BY <1>8, <1>p, <2>1, <2>2, <2>5 DEF Cerrar, Falla
      <3>2. pc'["fs"] \notin PasosLib \cup {"abrir_encolar"} /\ \A q, x : ~PorAbrir(q, x)'
        BY <3>1 DEF PasosLib, PorAbrir
      <3> QED
        BY <1>f, <2>3, <3>1, <3>2 DEF Archivo
    <2> QED
      BY <2>4, <2>5
  <1>9. ASSUME Posicionar PROVE Parejas' /\ NombresDeCola'
    <2>1. CASE Cae
      BY <2>1, <1>c
    <2>2. CASE ~Cae
      <3>1. PICK d, p : /\ pc["fs"] = "tomar" /\ pc'["fs"] = "tomar" /\ pc'["exit"] = pc["exit"]
                        /\ descriptores' = [descriptores EXCEPT ![d].pointer = p]
                        /\ UNCHANGED <<tablaArchivos, GDT, colas, diccionario_colas_archivos>>
                        /\ UNCHANGED locales
        BY <1>9, <1>p, <2>2 DEF Posicionar
      <3>2. \A e \in DOMAIN descriptores : Archivo(e)' = Archivo(e)
        BY <1>a, <3>1 DEF Archivo, Datos, Descriptor
      <3>3. pc'["fs"] \notin PasosLib \cup {"abrir_encolar"} /\ \A q, x : ~PorAbrir(q, x)'
        BY <3>1 DEF PasosLib, PorAbrir
      <3> QED
        BY <1>f, <3>1, <3>2, <3>3
    <2> QED
      BY <2>1, <2>2
  <1>10. ASSUME Transferir PROVE Parejas' /\ NombresDeCola'
    <2>1. CASE Cae
      BY <2>1, <1>c
    <2>2. CASE ~Cae
      <3>1. /\ pc["fs"] = "tomar" /\ pc'["fs"] = "recibir" /\ pc'["exit"] = pc["exit"]
            /\ descr'["exit"] = descr["exit"] /\ UNCHANGED <<archivos, cola>>
        BY <1>10, <1>p, <2>2 DEF Transferir
      <3>3. pc'["fs"] \notin PasosLib \cup {"abrir_encolar"} /\ \A q, x : ~PorAbrir(q, x)'
        BY <3>1 DEF PasosLib, PorAbrir
      <3> QED
        BY <1>f, <3>1, <3>3 DEF Archivo
    <2> QED
      BY <2>1, <2>2
  <1>11. ASSUME Recibir PROVE Parejas' /\ NombresDeCola'
    <2>1. CASE Cae
      BY <2>1, <1>c
    <2>2. CASE ~Cae
      <3>1. /\ pc'["fs"] = "tomar" /\ pc'["exit"] = pc["exit"]
            /\ descr'["exit"] = descr["exit"] /\ UNCHANGED <<archivos, cola>>
        BY <1>11, <1>p, <2>2 DEF Recibir
      <3>3. pc'["fs"] \notin PasosLib \cup {"abrir_encolar"} /\ \A q, x : ~PorAbrir(q, x)'
        BY <3>1 DEF PasosLib, PorAbrir
      <3> QED
        BY <1>f, <3>1, <3>3 DEF Archivo
    <2> QED
      BY <2>1, <2>2
  <1>12. ASSUME Truncar PROVE Parejas' /\ NombresDeCola'
    <2>1. /\ pc'["fs"] = "tomar" /\ pc'["exit"] = pc["exit"] /\ UNCHANGED <<archivos, locales>>
      BY <1>12, <1>p DEF Truncar, Falla
    <2>3. pc'["fs"] \notin PasosLib \cup {"abrir_encolar"} /\ \A q, x : ~PorAbrir(q, x)'
      BY <2>1 DEF PasosLib, PorAbrir
    <2> QED
      BY <1>f, <2>1, <2>3 DEF Archivo
  \* Thread t goes on releasing its descriptor and reads no queue.
  <1>l. ASSUME NEW t \in Hilos, Libera(t), pc'[t] # "abrir_encolar",
               pc'[t] \notin {"abrir_gdt", "abrir_tabla"},
               \A u \in Hilos \ {t} : pc'[u] = pc[u] /\ descr'[u] = descr[u] /\ cola'[u] = cola[u],
               Libera(t)' => descr'[t] = descr[t] /\ cola'[t] = cola[t],
               \A x : EnGDT(x)' => EnGDT(x) /\ Archivo(x)' = Archivo(x),
               \A n \in DOMAIN diccionario_colas_archivos' :
                   /\ n \in DOMAIN diccionario_colas_archivos
                   /\ diccionario_colas_archivos'[n] = diccionario_colas_archivos[n],
               \A x, q : EnCola(x, q)' => EnCola(x, q),
               UNCHANGED <<tablaArchivos, un_nodo>>
        PROVE  Parejas'
    <2>1. \A q, x : PorHilo(q, x)' => PorHilo(q, x)
      <3> SUFFICES ASSUME NEW q, NEW x, PorHilo(q, x)' PROVE PorHilo(q, x)
        OBVIOUS
      <3>1. PICK u \in Hilos : Suelta(u, x)' /\ cola'[u] = q /\ q # NULL
        BY DEF PorHilo
      <3>2. Suelta(u, x) /\ cola[u] = q
        BY <1>l, <3>1 DEF Suelta, Libera
      <3> QED
        BY <3>1, <3>2 DEF PorHilo
    <2>2. \A q, x : PorEncolar(q, x)' => PorEncolar(q, x)
      <3>1. t = "fs" => \A q, x : ~PorEncolar(q, x)'
        BY <1>l DEF PorEncolar
      <3>2. t # "fs" => pc'["fs"] = pc["fs"] /\ cola'["fs"] = cola["fs"]
        BY <1>l
      <3> QED
        BY <1>l, <3>1, <3>2 DEF PorEncolar
    <2>3. \A q, x : PorAbrir(q, x)' => PorAbrir(q, x)
      <3>1. t = "fs" => \A q, x : ~PorAbrir(q, x)'
        BY <1>l DEF PorAbrir
      <3>2. t # "fs" => pc'["fs"] = pc["fs"] /\ descr'["fs"] = descr["fs"]
        BY <1>l
      <3> QED
        BY <1>l, <3>1, <3>2 DEF PorAbrir
    <2> QED
      BY <1>a, <1>l, <2>1, <2>2, <2>3, ParejasQuietas DEF DeSuCola
  <1>13. ASSUME NEW t \in Hilos, LibCola(t) PROVE Parejas' /\ NombresDeCola'
    <2>1. PICK d : d = descr[t]
      OBVIOUS
    <2>2. /\ pc[t] = "lib_cola" /\ pc'[t] = "lib_vacia"
          /\ \A u \in Hilos \ {t} : pc'[u] = pc[u] /\ cola'[u] = cola[u]
          /\ cola'[t] = (IF Archivo(d) \in DOMAIN diccionario_colas_archivos
                         THEN diccionario_colas_archivos[Archivo(d)] ELSE NULL)
          /\ UNCHANGED <<archivos, descr, un_nodo>>
      BY <1>13, <1>p, <2>1 DEF LibCola, Nombre, Archivo
    <2>3. Suelta(t, d) /\ EnGDT(d)
      BY <1>a, <2>1, <2>2 DEF Suelta, Libera, PasosLib, Tenencia, UnoQueLoTiene, Quitado
    <2>4. \A q, x : PorHilo(q, x)' => DeSuCola(q, x)
      <3> SUFFICES ASSUME NEW q, NEW x, PorHilo(q, x)' PROVE DeSuCola(q, x)
        OBVIOUS
      <3>1. PICK u \in Hilos : Suelta(u, x)' /\ cola'[u] = q /\ q # NULL
        BY DEF PorHilo
      <3>2. CASE u = t
        <4>1. x = d
          BY <2>1, <2>2, <3>1, <3>2 DEF Suelta
        <4>2. PorNombre(q, x)
          BY <2>2, <2>3, <3>1, <3>2, <4>1 DEF PorNombre
        <4> QED
          BY <4>2 DEF DeSuCola
      <3>3. CASE u # t
        <4>1. PorHilo(q, x)
          BY <2>2, <3>1, <3>3 DEF PorHilo, Suelta, Libera
        <4> QED
          BY <4>1 DEF DeSuCola
      <3> QED
        BY <3>2, <3>3
    <2>5. \A q, x : PorEncolar(q, x)' => PorEncolar(q, x)
      BY <2>2 DEF PorEncolar
    <2>6. \A q, x : PorAbrir(q, x)' => PorAbrir(q, x)
      BY <2>2 DEF PorAbrir
    <2>7. /\ \A x : EnGDT(x)' => EnGDT(x) /\ Archivo(x)' = Archivo(x)
          /\ \A x, q : EnCola(x, q)' => EnCola(x, q) /\ tablaArchivos'[x] = tablaArchivos[x]
      BY <2>2 DEF EnGDT, Archivo, EnCola
    <2>8. Parejas'
      BY <1>a, <2>2, <2>4, <2>5, <2>6, <2>7, ParejasQuietas DEF DeSuCola
    <2>9. ASSUME NEW u \in Hilos, NEW m \in DOMAIN diccionario_colas_archivos',
                 Libera(u)', cola'[u] = diccionario_colas_archivos'[m]
          PROVE  m = Archivo(descr[u])' /\ pc'[u] # "lib_destruir"
      <3>1. CASE u = t
        <4>1. diccionario_colas_archivos[m] \in Identidades
          BY <1>a, <2>2, <2>9 DEF Datos
        <4>2. m = Archivo(d)
          BY <1>a, <2>2, <2>9, <3>1, <4>1 DEF NombresDeCola, Identidades
        <4> QED
          BY <2>1, <2>2, <3>1, <4>2 DEF Archivo
      <3>2. CASE u # t
        BY <1>a, <2>2, <2>9, <3>2 DEF NombresDeCola, Libera, Archivo
      <3> QED
        BY <3>1, <3>2
    <2>10. NombresDeCola'
      BY <1>a, <2>2, <2>9 DEF NombresDeCola
    <2> QED
      BY <2>8, <2>10
  <1>14. ASSUME NEW t \in Hilos, LibVacia(t) PROVE Parejas' /\ NombresDeCola'
    <2>1. CASE Cae
      BY <2>1, <1>c
    <2>2. CASE ~Cae
      <3>1. /\ pc[t] = "lib_vacia" /\ pc'[t] \in {"lib_gdt", "lib_quitar"}
            /\ \A u \in Hilos \ {t} : pc'[u] = pc[u]
            /\ UNCHANGED <<archivos, locales>>
        BY <1>14, <1>p, <2>2 DEF LibVacia
      <3>2. \A q, x : PorAbrir(q, x)' => PorAbrir(q, x)
        BY <3>1 DEF PorAbrir
      <3>3. \A u \in Hilos : Libera(u)' => Libera(u) /\ descr'[u] = descr[u]
        BY <3>1 DEF Libera, PasosLib
      <3>4. \A u \in Hilos : pc'[u] = "lib_destruir" => pc[u] = "lib_destruir"
        BY <3>1
      <3>5. pc'["fs"] = "abrir_encolar" => pc["fs"] = "abrir_encolar" /\ un_nodo' = un_nodo
        BY <3>1
      <3> QED
        BY <3>1, <3>2, <3>3, <3>4, <3>5, ParejasIguales DEF DeSuCola, Archivo
    <2> QED
      BY <2>1, <2>2
  <1>15. ASSUME NEW t \in Hilos, LibGdt(t) PROVE Parejas' /\ NombresDeCola'
    <2>1. PICK d : d = descr[t]
      OBVIOUS
    <2>2. /\ pc[t] = "lib_gdt" /\ pc'[t] = "lib_clave" /\ \A u \in Hilos \ {t} : pc'[u] = pc[u]
          /\ GDT' = RemoveFirst(GDT, d)
          /\ UNCHANGED <<tablaArchivos, descriptores, descr, un_nodo, cola, colas>>
          /\ UNCHANGED diccionario_colas_archivos
      BY <1>15, <1>p, <2>1 DEF LibGdt
    <2>3. \A x : EnGDT(x)' => EnGDT(x) /\ Archivo(x)' = Archivo(x)
      BY <1>a, <2>2, QuitarUno DEF Datos, EnGDT, Archivo, Tenencia, UnoPorNombre
    <2>4. Libera(t) /\ \A x, q : EnCola(x, q)' => EnCola(x, q)
      BY <2>2 DEF Libera, PasosLib, EnCola
    <2>5. Parejas'
      BY <1>l, <2>2, <2>3, <2>4
    <2>6. NombresDeCola'
      BY <1>a, <2>2 DEF NombresDeCola, Libera, PasosLib, Archivo
    <2> QED
      BY <2>5, <2>6
  <1>16. ASSUME NEW t \in Hilos, LibClave(t) PROVE Parejas' /\ NombresDeCola'
    <2>1. PICK a : a = Archivo(descr[t])
      OBVIOUS
    <2>2. /\ pc[t] = "lib_clave" /\ pc'[t] = "lib_destruir" /\ \A u \in Hilos \ {t} : pc'[u] = pc[u]
          /\ diccionario_colas_archivos' =
                [n \in DOMAIN diccionario_colas_archivos \ {a} |-> diccionario_colas_archivos[n]]
          /\ UNCHANGED <<tablaArchivos, descriptores, descr, un_nodo, cola, colas, GDT>>
      BY <1>16, <1>p, <2>1 DEF LibClave, Nombre, Archivo
    <2>3. \A x : EnGDT(x)' => EnGDT(x) /\ Archivo(x)' = Archivo(x)
      BY <2>2 DEF EnGDT, Archivo
    <2>4. Libera(t) /\ \A x, q : EnCola(x, q)' => EnCola(x, q)
      BY <2>2 DEF Libera, PasosLib, EnCola
    <2>5. /\ \A n \in DOMAIN diccionario_colas_archivos' :
                /\ n \in DOMAIN diccionario_colas_archivos /\ n # a
                /\ diccionario_colas_archivos'[n] = diccionario_colas_archivos[n]
      BY <2>2
    <2>6. Parejas'
      BY <1>l, <2>2, <2>3, <2>4, <2>5
    <2>7. ASSUME NEW u \in Hilos, NEW m \in DOMAIN diccionario_colas_archivos',
                 Libera(u)', cola'[u] = diccionario_colas_archivos'[m]
          PROVE  m = Archivo(descr[u])' /\ pc'[u] # "lib_destruir"
      <3>1. Libera(u) /\ cola[u] = diccionario_colas_archivos[m]
        BY <2>2, <2>4, <2>5, <2>7 DEF Libera
      <3>2. m = Archivo(descr[u]) /\ pc[u] # "lib_destruir"
        BY <1>a, <2>5, <3>1 DEF NombresDeCola
      <3>3. u # t
        BY <2>1, <2>5, <3>2
      <3> QED
        BY <2>2, <3>2, <3>3 DEF Archivo
    <2>8. NombresDeCola'
      BY <1>a, <2>5, <2>7 DEF NombresDeCola
    <2> QED
      BY <2>6, <2>8
  <1>17. ASSUME NEW t \in Hilos, LibDestruir(t) PROVE Parejas' /\ NombresDeCola'
    <2>1. PICK k, d : k = cola[t] /\ d = descr[t]
      OBVIOUS
    <2>2. /\ pc[t] = "lib_destruir" /\ pc'[t] \in {"tomar", "siguiente"}
          /\ \A u \in Hilos \ {t} : pc'[u] = pc[u] /\ descr'[u] = descr[u] /\ cola'[u] = cola[u]
          /\ colas' = [q \in DOMAIN colas \ {k} |-> colas[q]]
          /\ descriptores' = [e \in DOMAIN descriptores \ {d} |-> descriptores[e]]
          /\ UNCHANGED <<un_nodo, tablaArchivos, GDT, diccionario_colas_archivos>>
      BY <1>17, <1>p, <2>1 DEF LibDestruir, TrasLiberar, Olvida
    <2>3. Suelta(t, d) /\ Quitado(t)
      BY <2>1, <2>2 DEF Suelta, Libera, Quitado, PasosLib
    <2>4. ~EnGDT(d)
      BY <1>a, <2>3 DEF Tenencia, UnoQueLoTiene
    <2>5. \A x : EnGDT(x)' => EnGDT(x) /\ Archivo(x)' = Archivo(x)
      BY <1>a, <2>2, <2>4 DEF EnGDT, Archivo, Tenencia, UnoPorNombre
    <2>6. ~Libera(t)' /\ Libera(t) /\ \A x, q : EnCola(x, q)' => EnCola(x, q)
      BY <2>2 DEF Libera, PasosLib, EnCola
    <2>7. Parejas'
      BY <1>l, <2>2, <2>5, <2>6
    <2>8. ASSUME NEW u \in Hilos, NEW m \in DOMAIN diccionario_colas_archivos',
                 Libera(u)', cola'[u] = diccionario_colas_archivos'[m]
          PROVE  m = Archivo(descr[u])' /\ pc'[u] # "lib_destruir"
      <3>1. u # t
        BY <2>6, <2>8
      <3>2. Libera(u) /\ cola[u] = diccionario_colas_archivos[m] /\ pc'[u] = pc[u]
        BY <2>2, <2>8, <3>1 DEF Libera
      <3>3. m = Archivo(descr[u]) /\ pc[u] # "lib_destruir"
        BY <1>a, <2>2, <3>2 DEF NombresDeCola
      <3>4. PICK e : e = descr[u]
        OBVIOUS
      <3>5. Suelta(u, e) /\ e \in DOMAIN descriptores /\ e = descr'[u]
        BY <1>a, <2>2, <3>1, <3>2, <3>4 DEF Suelta, Manos
      <3>6. e # d
        BY <1>a, <2>3, <3>1, <3>5 DEF Tenencia, UnoQueLoTiene
      <3>7. Archivo(e)' = Archivo(e)
        BY <2>2, <3>5, <3>6 DEF Archivo
      <3> QED
        BY <3>2, <3>3, <3>4, <3>5, <3>7 DEF Archivo
    <2>9. NombresDeCola'
      BY <1>a, <2>2, <2>8 DEF NombresDeCola
    <2> QED
      BY <2>7, <2>9
  <1>18. ASSUME NEW t \in Hilos, LibQuitar(t) PROVE Parejas' /\ NombresDeCola'
    <2>1. PICK k, p : k = cola[t] /\ p = Head(colas[cola[t]])
      OBVIOUS
    <2>2. /\ pc[t] = "lib_quitar" /\ pc'[t] \in {"tomar", "siguiente"} /\ MismoEncolar
          /\ \A u \in Hilos \ {t} : pc'[u] = pc[u] /\ descr'[u] = descr[u] /\ cola'[u] = cola[u]
          /\ colas' = [colas EXCEPT ![k] = Tail(@)]
          /\ consolasReady' = consolasReady \cup {p}
          /\ UNCHANGED <<listas, un_nodo, exitPCB>>
          /\ UNCHANGED <<tablaArchivos, GDT, descriptores, diccionario_colas_archivos>>
      BY <1>18, <1>p, <2>1 DEF LibQuitar, TrasLiberar, Olvida, MismoEncolar
    <2>3. k \in DOMAIN colas /\ colas[k] # <<>> /\ p = Head(colas[k])
      BY <1>a, <2>1, <2>2 DEF Libera, PasosLib, Manos
    <2>4. \A x, q : EnCola(x, q)' => EnCola(x, q)
      BY <1>a, <2>2, <2>3, DeColaAReady
    <2>5. ~Libera(t)' /\ Libera(t) /\ \A x : EnGDT(x)' => EnGDT(x) /\ Archivo(x)' = Archivo(x)
      BY <2>2 DEF Libera, PasosLib, EnGDT, Archivo
    <2>6. Parejas'
      BY <1>l, <2>2, <2>4, <2>5
    <2>7. NombresDeCola'
      BY <1>a, <2>2, <2>5 DEF NombresDeCola, Libera, Archivo
    <2> QED
      BY <2>6, <2>7
  <1>x. ASSUME UNCHANGED <<archivos, cola, descr, un_nodo>>, pc'["fs"] = pc["fs"],
               pc'["exit"] \notin PasosLib
        PROVE  Parejas' /\ NombresDeCola'
    <2>1. \A q, d : PorAbrir(q, d)' => PorAbrir(q, d)
      BY <1>x DEF PorAbrir
    <2>2. \A t \in Hilos : Libera(t)' => Libera(t) /\ descr'[t] = descr[t]
      BY <1>x DEF Libera
    <2>3. \A t \in Hilos : pc'[t] = "lib_destruir" => pc[t] = "lib_destruir"
      BY <1>x DEF PasosLib
    <2> QED
      BY <1>x, <2>1, <2>2, <2>3, ParejasIguales DEF DeSuCola, Archivo
  <1>19. ASSUME ExitTomar PROVE Parejas' /\ NombresDeCola'
    BY <1>19, <1>p, <1>x DEF ExitTomar, PasosLib
  <1>20. ASSUME ExitCerrarUno PROVE Parejas' /\ NombresDeCola'
    <2>1. PICK p, l : p = exitPCB /\ l = Tail(tablaArchivos[exitPCB])
      OBVIOUS
    <2>2. /\ pc["exit"] = "siguiente" /\ pc'["exit"] = "lib_cola" /\ pc'["fs"] = pc["fs"]
          /\ descr'["fs"] = descr["fs"]
          /\ tablaArchivos' = [tablaArchivos EXCEPT ![p] = l]
          /\ UNCHANGED <<colas, diccionario_colas_archivos, GDT, descriptores, cola, un_nodo>>
      BY <1>20, <1>p, <2>1 DEF ExitCerrarUno
    <2>3. p \in Procesos /\ Saliendo(p)
      BY <1>a, <2>1, <2>2 DEF Manos, Datos, Saliendo
    <2>4. (\A q : ~EnCola(p, q)) /\ un_nodo.un_pcb # p
      BY <1>a, <1>e, <2>3 DEF Libre, Lugares, EnMano
    <2>5. cola["exit"] = NULL /\ "exit" \in Hilos
      BY <1>a, <2>2 DEF Manos
    <2>6. \A u \in Hilos \ {"exit"} : pc'[u] = pc[u] /\ descr'[u] = descr[u]
      BY <2>2
    <2> QED
      BY <1>s, <2>2, <2>3, <2>4, <2>5, <2>6
  <1>21. ASSUME ExitTerminar PROVE Parejas' /\ NombresDeCola'
    BY <1>21, <1>p, <1>x DEF ExitTerminar, PasosLib
  <1>22. CASE UNCHANGED vars
    BY <1>22, SinMoverse DEF vars, Quieto, ArchivosInv, Datos
  <1> QED
    BY <1>1, <1>2, <1>3, <1>4, <1>5, <1>6, <1>7, <1>8, <1>9, <1>10, <1>11, <1>12, <1>13, <1>14,
       <1>15, <1>16, <1>17, <1>18, <1>19, <1>20, <1>21, <1>22
       DEF Next, Proceso, OperarFS, GestionadorExit, Liberar
-----------------------------------------------------------------------------
(* The inductive invariant, and what follows from it *)

LEMMA SiempreArchivos == Spec => []ArchivosInv
  <1>1. Init => ArchivosInv
    BY DatosAlInicio, ManosAlInicio, LugaresAlInicio, TenenciaAlInicio, ParejasAlInicio,
       PosicionesAlInicio DEF ArchivosInv
  <1>2. ArchivosInv /\ [Next]_vars => ArchivosInv'
    BY DatosEnUnPaso, ManosEnUnPaso, LugaresEnUnPaso, TenenciaEnUnPaso, ParejasEnUnPaso,
       PosicionesEnUnPaso DEF ArchivosInv
  <1> QED
    BY <1>1, <1>2, PTL DEF Spec

\* Every variable keeps its type, and neither the GDT nor the dictionary names what was freed
\* (kernel.h 577-700, liberar_archivo, process_f_close, process_f_open).
THEOREM Tipos == Spec => []TypeOK
  <1>1. ArchivosInv => TypeOK
    <2> SUFFICES ASSUME ArchivosInv PROVE TypeOK
      OBVIOUS
    <2>1. Datos
      BY DEF ArchivosInv
    <2>2. GDT \in Seq(DOMAIN descriptores)
      <3>1. GDT \in Seq(Identidades) /\ \A i \in DOMAIN GDT : GDT[i] \in DOMAIN descriptores
        <4>1. \A i \in DOMAIN GDT : EnGDT(GDT[i])
          BY DEF EnGDT, EnLista
        <4> QED
          BY <2>1, <4>1 DEF ArchivosInv, Datos, Tenencia, UnoPorNombre
      <3>2. Len(GDT) \in Nat /\ DOMAIN GDT = 1 .. Len(GDT) /\ GDT \in [1 .. Len(GDT) -> Identidades]
        BY <3>1, LenProperties
      <3>3. GDT \in [1 .. Len(GDT) -> DOMAIN descriptores]
        BY <3>1, <3>2
      <3> QED
        BY <3>2, <3>3, SeqDef
    <2>3. Range(diccionario_colas_archivos) \subseteq DOMAIN colas
      BY <2>1 DEF Datos, Range
    <2>4. \A p \in Procesos : tablaArchivos[p] \in Seq(Nat \ {NULL})
      BY <2>1 DEF Datos, Identidades
    <2> QED
      BY <2>1, <2>2, <2>3, <2>4 DEF TypeOK, Datos, Descriptor
  <1> QED
    BY <1>1, SiempreArchivos, PTL

\* A list that repeats nothing but its head has d twice when it is the head and follows it.
LEMMA DosVeces ==
    ASSUME NEW S, NEW s \in Seq(S), s # <<>>, SinRepetidos(Tail(s)), NEW d
    PROVE  Cardinality({i \in DOMAIN s : s[i] = d}) > 1 <=> d = Head(s) /\ EnLista(Tail(s), d)
  <1> DEFINE I == {i \in DOMAIN s : s[i] = d}
             t == Tail(s)
  <1>1. /\ t \in Seq(S) /\ Len(t) = Len(s) - 1 /\ Len(s) \in Nat /\ Len(s) > 0
        /\ DOMAIN t = 1 .. Len(s) - 1 /\ DOMAIN s = 1 .. Len(s)
        /\ Head(s) = s[1] /\ 1 \in DOMAIN s
        /\ (\A i \in 1 .. Len(s) - 1 : t[i] = s[i + 1])
    BY HeadTailProperties, EmptySeq, LenProperties
  <1>2. IsFiniteSet(I)
    <2>1. IsFiniteSet(1 .. Len(s))
      BY <1>1, FS_Interval
    <2> QED
      BY <1>1, <2>1, FS_Subset
  <1> HIDE DEF t
  <1>3. ASSUME NEW i \in I, NEW j \in I, i # j, i # 1, j # 1 PROVE FALSE
    <2>1. /\ i - 1 \in DOMAIN t /\ (i - 1) + 1 = i /\ j - 1 \in DOMAIN t /\ (j - 1) + 1 = j
      BY <1>1, <1>3
    <2>2. t[i - 1] = d /\ t[j - 1] = d
      BY <1>1, <2>1
    <2>3. i - 1 = j - 1
      BY <2>1, <2>2 DEF SinRepetidos, t
    <2> QED
      BY <1>1, <1>3, <2>1, <2>3
  <1>4. ASSUME d = Head(s), EnLista(t, d) PROVE Cardinality(I) > 1
    <2>1. PICK i \in DOMAIN t : t[i] = d
      BY <1>4 DEF EnLista
    <2>2. i + 1 \in DOMAIN s /\ s[i + 1] = d /\ i + 1 # 1
      BY <1>1, <2>1
    <2>3. 1 \in I /\ i + 1 \in I
      BY <1>1, <1>4, <2>2
    <2>4. {1, i + 1} \subseteq I
      BY <2>3
    <2>5. Cardinality({1, i + 1}) = 2
      <3>1. PICK A, B : A = {1} /\ B = {1, i + 1}
        OBVIOUS
      <3>2. IsFiniteSet(A) /\ Cardinality(A) = 1
        BY <3>1, FS_Singleton
      <3>3. i + 1 \notin A /\ B = A \cup {i + 1}
        BY <2>2, <3>1
      <3>4. Cardinality(B) = Cardinality(A) + 1
        BY <3>2, <3>3, FS_AddElement
      <3>5. Cardinality(B) = 2
        BY <3>2, <3>4
      <3> QED
        BY <3>1, <3>5, Zenon
    <2> HIDE DEF I
    <2>6. Cardinality({1, i + 1}) <= Cardinality(I) /\ Cardinality(I) \in Nat
      BY <1>2, <2>4, FS_Subset, FS_CardinalityType
    <2> QED
      BY <2>5, <2>6
  <1>5. ASSUME Cardinality(I) > 1 PROVE d = Head(s) /\ EnLista(t, d)
    <2>1. PICK i, j : i \in I /\ j \in I /\ i # j
      <3> SUFFICES ASSUME \A i, j : i \in I /\ j \in I => i = j PROVE FALSE
        OBVIOUS
      <3>1. CASE I = {}
        <4>1. Cardinality(I) = 0
          BY <3>1, FS_EmptySet, Zenon
        <4> HIDE DEF I
        <4> QED
          BY <1>5, <4>1
      <3>2. CASE I # {}
        <4>1. PICK i : i \in I
          BY <3>2
        <4>2. I = {i}
          BY <4>1
        <4>3. Cardinality({i}) = 1
          BY FS_Singleton
        <4> HIDE DEF I
        <4> QED
          BY <1>5, <4>2, <4>3
      <3> QED
        BY <3>1, <3>2
    <2>2. 1 \in I
      BY <1>3, <2>1
    <2>3. PICK k \in I : k # 1
      BY <2>1
    <2>4. k - 1 \in DOMAIN t /\ (k - 1) + 1 = k
      BY <1>1, <2>3
    <2>5. t[k - 1] = d
      BY <1>1, <2>3, <2>4
    <2> QED
      BY <1>1, <2>2, <2>4, <2>5 DEF EnLista
  <1> QED
    BY <1>4, <1>5 DEF t

\* Who uses a descriptor of the GDT is who has it, unless it waits for itself.
LEMMA QuienLoUsa ==
    ASSUME ArchivosInv, NEW d, EnGDT(d), NEW p \in Procesos
    PROVE  /\ p \in Usuarios(d) <=> Tiene(p, d) /\ ~EsperaDeSiMismo(p, d)
           /\ EsperaDeSiMismo(p, d) => Tiene(p, d)
  <1>a. Datos /\ Lugares /\ Tenencia
    BY DEF ArchivosInv
  <1>1. PICK l : l = tablaArchivos[p]
    OBVIOUS
  <1>2. l \in Seq(Identidades) /\ SinRepetidos(Tenidos(p))
    BY <1>a, <1>1 DEF Datos, Tenencia, UnoQueLoTiene
  <1>3. /\ p \in Usuarios(d) <=> EnLista(l, d) /\ ~(Espera(p) /\ d = Head(l))
        /\ EsperaDeSiMismo(p, d) <=> Cardinality({i \in DOMAIN l : l[i] = d}) > 1
    BY <1>1 DEF Usuarios, EsperaDeSiMismo, EnLista, Range
  <1>4. CASE l = <<>>
    <2>1. DOMAIN l = {}
      BY <1>4
    <2>2. {i \in DOMAIN l : l[i] = d} = {} /\ ~EnLista(l, d)
      BY <2>1 DEF EnLista
    <2>3. Cardinality({i \in DOMAIN l : l[i] = d}) = 0
      BY <2>2, FS_EmptySet, Zenon
    <2>4. ~Tiene(p, d)
      BY <1>1, <1>4, <2>2 DEF Tiene, Tenidos
    <2> QED
      BY <1>3, <2>2, <2>3, <2>4
  <1>5. CASE l # <<>>
    <2>1. /\ EnLista(l, d) <=> EnLista(Tail(l), d) \/ d = Head(l)
          /\ SinRepetidos(l) => SinRepetidos(Tail(l)) /\ ~EnLista(Tail(l), Head(l))
      BY <1>2, <1>5, QuitarElPrimero
    <2>2. SinRepetidos(Tail(l))
      BY <1>1, <1>2, <1>5, <2>1 DEF Tenidos
    <2>3. EsperaDeSiMismo(p, d) <=> d = Head(l) /\ EnLista(Tail(l), d)
      BY <1>2, <1>3, <1>5, <2>2, DosVeces
    <2>4. CASE Activo(p)
      <3>1. Tenidos(p) = l /\ ~Espera(p)
        BY <1>a, <1>1, <2>4, NoLosDos DEF Tenidos
      <3>2. ~EsperaDeSiMismo(p, d)
        BY <1>2, <2>1, <2>3, <3>1
      <3> QED
        BY <1>3, <3>1, <3>2 DEF Tiene
    <2>5. CASE ~Activo(p)
      <3>1. Tenidos(p) = Tail(l)
        BY <1>1, <1>5, <2>5 DEF Tenidos
      <3>2. Espera(p) \/ d # Head(l)
        BY <1>a, <1>1, <1>5, <2>5 DEF Tenencia, Esperas
      <3> QED
        BY <1>3, <2>1, <2>3, <3>1, <3>2 DEF Tiene
    <2> QED
      BY <2>4, <2>5
  <1> QED
    BY <1>4, <1>5

\* A file has one descriptor, and it is in the hands of exactly one process that does not wait
\* for it or of one thread that releases it, although operarFS and gestionadorExit change the
\* GDT, the dictionary and the queues with no lock (kernel.h 577-700, 1212-1220).
THEOREM UnoPorArchivo == Spec => []UnUsuarioPorArchivo
  <1> SUFFICES ASSUME ArchivosInv PROVE UnUsuarioPorArchivo
    BY SiempreArchivos, PTL
  <1>a. Datos /\ Lugares /\ Tenencia
    BY DEF ArchivosInv
  <1>1. ASSUME NEW n \in escenario.nombres PROVE Cardinality(Hallados(GDT, n)) <= 1
    <2>1. \A d, e \in Hallados(GDT, n) : d = e
      BY <1>a DEF Hallados, Range, Tenencia, UnoPorNombre, EnGDT, EnLista, Archivo
    <2>2. CASE Hallados(GDT, n) = {}
      BY <2>2, FS_EmptySet
    <2>3. CASE Hallados(GDT, n) # {}
      <3>1. PICK d : Hallados(GDT, n) = {d}
        BY <2>1, <2>3
      <3>2. Cardinality({d}) = 1
        BY FS_Singleton
      <3> QED
        BY <3>1, <3>2
    <2> QED
      BY <2>2, <2>3
  <1>2. ASSUME NEW p \in Procesos, Activo(p)
        PROVE  Range(tablaArchivos[p]) \subseteq DOMAIN descriptores
    BY <1>2, <1>a DEF Tenencia, UnoQueLoTiene, UnoPorNombre, Tiene, Tenidos, EnLista, Range
  <1>3. ASSUME NEW d \in Range(GDT)
        PROVE  Cardinality(Usuarios(d)) + Cardinality(Liberando(d))
                   = IF \E p \in Procesos : EsperaDeSiMismo(p, d) THEN 0 ELSE 1
    <2>1. EnGDT(d)
      BY DEF EnGDT, EnLista, Range
    <2>2. \A p \in Procesos : /\ p \in Usuarios(d) <=> Tiene(p, d) /\ ~EsperaDeSiMismo(p, d)
                              /\ EsperaDeSiMismo(p, d) => Tiene(p, d)
      BY <2>1, QuienLoUsa
    <2>3. Usuarios(d) \subseteq Procesos
      BY DEF Usuarios
    <2>4. \A t : t \in Liberando(d) <=> t \in Hilos /\ Suelta(t, d)
      BY DEF Liberando, Suelta, Libera, PasosLib
    <2>5. /\ Usuarios(d) = {} => Cardinality(Usuarios(d)) = 0
          /\ Liberando(d) = {} => Cardinality(Liberando(d)) = 0
          /\ \A x : Cardinality({x}) = 1
      BY FS_EmptySet, FS_Singleton
    <2>6. CASE \E p \in Procesos : EsperaDeSiMismo(p, d)
      <3>1. PICK p \in Procesos : EsperaDeSiMismo(p, d)
        BY <2>6
      <3>2. Tiene(p, d)
        BY <2>2, <3>1
      <3>3. (\A x \in Procesos : Tiene(x, d) => x = p) /\ \A t \in Hilos : ~Suelta(t, d)
        BY <1>a, <3>2 DEF Tenencia, UnoQueLoTiene
      <3>4. Usuarios(d) = {}
        BY <2>2, <2>3, <3>1, <3>3
      <3>5. Liberando(d) = {}
        BY <2>4, <3>3
      <3> QED
        BY <2>5, <2>6, <3>4, <3>5
    <2>7. CASE ~ \E p \in Procesos : EsperaDeSiMismo(p, d)
      <3>1. CASE \E p \in Procesos : Tiene(p, d)
        <4>1. PICK p \in Procesos : Tiene(p, d)
          BY <3>1
        <4>2. (\A x \in Procesos : Tiene(x, d) => x = p) /\ \A t \in Hilos : ~Suelta(t, d)
          BY <1>a, <4>1 DEF Tenencia, UnoQueLoTiene
        <4>3. Usuarios(d) = {p}
          BY <2>2, <2>3, <2>7, <4>1, <4>2
        <4>4. Liberando(d) = {}
          BY <2>4, <4>2
        <4> QED
          BY <2>5, <2>7, <4>3, <4>4
      <3>2. CASE ~ \E p \in Procesos : Tiene(p, d)
        <4>1. PICK t \in Hilos : Suelta(t, d)
          BY <1>a, <2>1, <3>2 DEF Tenencia, UnoQueLoTiene
        <4>2. \A u \in Hilos : Suelta(u, d) => u = t
          BY <1>a, <4>1 DEF Tenencia, UnoQueLoTiene, Hilos
        <4>3. Usuarios(d) = {}
          BY <2>2, <2>3, <3>2
        <4>4. Liberando(d) = {t}
          BY <2>4, <4>1, <4>2
        <4>5. Cardinality(Liberando(d)) = 1
          BY <2>5, <4>4
        <4> QED
          BY <2>5, <2>7, <4>3, <4>5
      <3> QED
        BY <3>1, <3>2
    <2> QED
      BY <2>6, <2>7
  <1> QED
    BY <1>1, <1>2, <1>3 DEF UnUsuarioPorArchivo

\* Where a process that is at work did F_SEEK, the pointer is still its own, although F_SEEK takes
\* the descriptor from the table and F_READ and F_WRITE take it from the GDT (kernel.h 804-930).
THEOREM PunteroIntacto == Spec => []PunteroDelUsuario
  <1>1. ArchivosInv => PunteroDelUsuario
    <2> SUFFICES ASSUME ArchivosInv, NEW p \in Procesos, NEW d \in Range(tablaArchivos[p]),
                        Activo(p), <<p, descriptores[d].file_name>> \in posicionados
                 PROVE  descriptores[d].pointer = p
      BY DEF PunteroDelUsuario
    <2>1. Tiene(p, d)
      BY DEF Tiene, Tenidos, EnLista, Range
    <2>2. PICK e : Tiene(p, e) /\ Archivo(e) = Archivo(d) /\ descriptores[e].pointer = p
      BY DEF ArchivosInv, Posiciones, Archivo
    <2>3. d = e
      BY <2>1, <2>2 DEF ArchivosInv, Tenencia, UnoQueLoTiene, UnoPorNombre
    <2> QED
      BY <2>2, <2>3
  <1> QED
    BY <1>1, SiempreArchivos, PTL
-----------------------------------------------------------------------------
(* Programs that close what they open *)

\* gestionadorExit finds nothing to close.
Salida ==
    /\ pc["exit"] \in {"tomar", "siguiente"}
    /\ \A p \in Procesos : EnExit(p) \/ Saliendo(p) => tablaArchivos[p] = <<>>

\* Nobody is lost, and what a process waits for is still open.
Ubicados ==
    \A p \in Procesos :
        /\ Activo(p) \/ p \in terminados \/ Espera(p)
        /\ Espera(p) => EnGDT(Head(tablaArchivos[p]))

\* An open file has a queue.
ConCola == \A d : EnGDT(d) => Archivo(d) \in DOMAIN diccionario_colas_archivos

\* What operarFS is going to be asked can be done.
PedidoPosible(x) ==
    /\ x.cod_op # "F_TRUNCATE"
    /\ x.cod_op # "F_OPEN" =>
          \E d : EnLista(tablaArchivos[x.un_pcb], d) /\ Archivo(d) = x.archivo
Pedidos == \A x : EnLista(consolasBlocked, x) => PedidoPosible(x)

\* What operarFS has at hand is still there.
EnCurso ==
    /\ pc["fs"] \in {"abrir_tabla", "recibir", "lib_cola", "lib_vacia", "lib_gdt", "lib_quitar"}
          => EnGDT(descr["fs"])
    /\ pc["fs"] = "abrir_tabla" => Archivo(descr["fs"]) = un_nodo.archivo
    /\ pc["fs"] = "abrir_encolar" => cola["fs"] \in DOMAIN colas
    /\ pc["fs"] = "abrir_gdt" => un_nodo.archivo \in DOMAIN diccionario_colas_archivos
    /\ pc["fs"] \in PasosLib \ {"lib_cola"} => cola["fs"] # NULL
    /\ pc["fs"] \in {"lib_gdt", "lib_clave", "lib_destruir"} => colas[cola["fs"]] = <<>>

Calma == ~caido /\ Salida /\ Ubicados /\ ConCola /\ Pedidos /\ EnCurso

Disciplina == escenario.cierran => Calma

LEMMA DisciplinaAlInicio == Init => Disciplina
  <1> SUFFICES ASSUME Init PROVE Calma
    BY DEF Disciplina
  <1>1. /\ \A t \in Hilos : pc[t] = "tomar"
        /\ \A p \in Procesos : EnReady(p) /\ tablaArchivos[p] = <<>>
        /\ DOMAIN <<>> = {} /\ ~caido
    BY DEF Init, EnReady
  <1>2. (\A p, q : ~EnCola(p, q)) /\ (\A d : ~EnGDT(d)) /\ \A x : ~EnLista(consolasBlocked, x)
    BY <1>1 DEF Init, EnCola, EnGDT, EnLista
  <1>3. Ubicados
    BY <1>1, <1>2, ActivoEs, EsperaEs DEF Ubicados, Hilos
  <1> QED
    BY <1>1, <1>2, <1>3 DEF Calma, Salida, ConCola, Pedidos, EnCurso, PasosLib, Hilos

LEMMA SalidaQuieta ==
    ASSUME Salida, pc'["exit"] = pc["exit"],
           \A p \in Procesos : EnExit(p)' \/ Saliendo(p)' =>
               (EnExit(p) \/ Saliendo(p)) /\ tablaArchivos'[p] = tablaArchivos[p]
    PROVE  Salida'
  BY DEF Salida

LEMMA UbicadosQuietos ==
    ASSUME Ubicados, MismaActividad, terminados \subseteq terminados',
           \A p \in Procesos : Espera(p) => tablaArchivos'[p] = tablaArchivos[p],
           \A d : EnGDT(d) => EnGDT(d)'
    PROVE  Ubicados'
  BY DEF Ubicados, MismaActividad

LEMMA ConColaQuieta ==
    ASSUME ConCola,
           \A d : EnGDT(d)' => EnGDT(d) /\ Archivo(d)' = Archivo(d),
           DOMAIN diccionario_colas_archivos \subseteq DOMAIN diccionario_colas_archivos'
    PROVE  ConCola'
  BY DEF ConCola

LEMMA QuienPide ==
    ASSUME Datos, NEW x, EnLista(consolasBlocked, x)
    PROVE  x.un_pcb \in Procesos /\ EnBlocked(x.un_pcb)
  <1>1. PICK i \in DOMAIN consolasBlocked : consolasBlocked[i] = x
    BY DEF EnLista
  <1>2. consolasBlocked[i] \in Nodo
    BY DEF Datos
  <1>3. x.un_pcb \in Procesos
    BY <1>1, <1>2 DEF Nodo
  <1> QED
    BY <1>1, <1>3 DEF EnBlocked, EnNodos

LEMMA PedidosQuietos ==
    ASSUME ArchivosInv, Pedidos,
           \A x : EnLista(consolasBlocked', x) =>
               EnLista(consolasBlocked, x) /\ tablaArchivos'[x.un_pcb] = tablaArchivos[x.un_pcb],
           \A d : EnGDT(d) => Archivo(d)' = Archivo(d)
    PROVE  Pedidos'
  <1> SUFFICES ASSUME NEW x, EnLista(consolasBlocked', x) PROVE PedidoPosible(x)'
    BY DEF Pedidos
  <1>1. PedidoPosible(x) /\ EnLista(consolasBlocked, x)
    BY DEF Pedidos
  <1>2. x.un_pcb \in Procesos /\ EnBlocked(x.un_pcb)
    BY <1>1, QuienPide DEF ArchivosInv
  <1>3. \A d : EnLista(tablaArchivos[x.un_pcb], d) => EnGDT(d)
    <2>1. Activo(x.un_pcb)
      BY <1>2, ActivoEs
    <2>2. Tenidos(x.un_pcb) = tablaArchivos[x.un_pcb]
      BY <2>1 DEF Tenidos
    <2> QED
      BY <1>2, <2>2 DEF ArchivosInv, Tenencia, UnoQueLoTiene, Tiene
  <1>4. CASE x.cod_op # "F_OPEN"
    <2>1. PICK d : EnLista(tablaArchivos[x.un_pcb], d) /\ Archivo(d) = x.archivo
      BY <1>1, <1>4 DEF PedidoPosible
    <2>2. EnLista(tablaArchivos'[x.un_pcb], d) /\ Archivo(d)' = x.archivo
      BY <1>3, <2>1
    <2> QED
      BY <1>1, <2>2 DEF PedidoPosible
  <1> QED
    BY <1>1, <1>4 DEF PedidoPosible

LEMMA EnCursoQuieto ==
    ASSUME ArchivosInv, EnCurso, UNCHANGED <<un_nodo, GDT, diccionario_colas_archivos, colas>>,
           pc'["fs"] = pc["fs"], descr'["fs"] = descr["fs"], cola'["fs"] = cola["fs"],
           UNCHANGED descriptores
    PROVE  EnCurso'
  BY DEF EnCurso, EnGDT, Archivo

\* The call that operarFS takes, and those that stay.
LEMMA PedidoTomado ==
    ASSUME ArchivosInv, consolasBlocked # <<>>, consolasBlocked' = Tail(consolasBlocked)
    PROVE  /\ EnLista(consolasBlocked, Llamada)
           /\ \A x : EnLista(consolasBlocked', x) =>
                 EnLista(consolasBlocked, x) /\ x.un_pcb # Llamada.un_pcb
  <1>1. consolasBlocked \in Seq(Nodo) /\ NodosDistintos(consolasBlocked)
    BY DEF ArchivosInv, Datos, Lugares
  <1>2. /\ \A x : EnLista(consolasBlocked, x) <=>
                      EnLista(Tail(consolasBlocked), x) \/ x = Llamada
        /\ ~EnNodos(Tail(consolasBlocked), Llamada.un_pcb)
    BY <1>1, QuitarElPrimero DEF Llamada
  <1> QED
    BY <1>2 DEF EnNodos, EnLista

\* The file of a call other than F_OPEN is found in the table of its process and in the GDT.
LEMMA PedidoHallado ==
    ASSUME ArchivosInv, Pedidos, consolasBlocked # <<>>, Llamada.cod_op # "F_OPEN"
    PROVE  /\ Llamada.cod_op # "F_TRUNCATE"
           /\ Busca(tablaArchivos[Llamada.un_pcb], Llamada.archivo) # NULL
           /\ Busca(GDT, Llamada.archivo) # NULL
  <1>1. PICK x : x = Llamada
    OBVIOUS
  <1>2. consolasBlocked \in Seq(Nodo) /\ EnLista(consolasBlocked, x)
    BY <1>1, QuitarElPrimero DEF ArchivosInv, Datos, Llamada
  <1>3. PedidoPosible(x)
    BY <1>2 DEF Pedidos
  <1>4. PICK d : EnLista(tablaArchivos[x.un_pcb], d) /\ Archivo(d) = x.archivo
    BY <1>1, <1>3 DEF PedidoPosible
  <1>5. x.un_pcb \in Procesos /\ EnBlocked(x.un_pcb)
    BY <1>2, QuienPide DEF ArchivosInv
  <1>6. EnGDT(d) /\ d \in DOMAIN descriptores
    <2>1. Activo(x.un_pcb)
      BY <1>5, ActivoEs
    <2>2. Tenidos(x.un_pcb) = tablaArchivos[x.un_pcb]
      BY <2>1 DEF Tenidos
    <2> QED
      BY <1>4, <1>5, <2>2 DEF ArchivosInv, Tenencia, UnoPorNombre, UnoQueLoTiene, Tiene
  <1>7. DOMAIN descriptores \subseteq Identidades
    BY DEF ArchivosInv, Datos
  <1>8. Busca(tablaArchivos[x.un_pcb], x.archivo) # NULL /\ Busca(GDT, x.archivo) # NULL
    BY <1>4, <1>6, <1>7, LoQueNoHalla DEF EnGDT
  <1> QED
    BY <1>1, <1>3, <1>8 DEF PedidoPosible

\* The programs considered never change.
LEMMA EscenarioFijo == [Next]_vars => escenario' = escenario
  <1> SUFFICES ASSUME [Next]_vars PROVE escenario' = escenario
    OBVIOUS
  <1> USE DEF programa, Cae
  <1>1. ASSUME NEW p \in Procesos, Proceso(p) PROVE escenario' = escenario
    BY <1>1 DEF Proceso, Terminar, Pedir
  <1>2. ASSUME NEW t \in Hilos, Liberar(t) PROVE escenario' = escenario
    BY <1>2 DEF Liberar, LibCola, LibVacia, LibGdt, LibClave, LibDestruir, LibQuitar
  <1>3. ASSUME AbrirBuscar \/ AbrirNueva \/ AbrirGdt \/ AbrirTabla \/ AbrirEncolar
        PROVE  escenario' = escenario
    BY <1>3 DEF AbrirBuscar, AbrirNueva, AbrirGdt, AbrirTabla, AbrirEncolar
  <1>4. ASSUME Cerrar \/ Posicionar \/ Transferir \/ Recibir \/ Truncar
        PROVE  escenario' = escenario
    BY <1>4 DEF Cerrar, Posicionar, Transferir, Recibir, Truncar
  <1>5. ASSUME ExitTomar \/ ExitCerrarUno \/ ExitTerminar PROVE escenario' = escenario
    BY <1>5 DEF ExitTomar, ExitCerrarUno, ExitTerminar
  <1>6. ASSUME UNCHANGED vars PROVE escenario' = escenario
    BY <1>6 DEF vars
  <1> QED
    BY <1>1, <1>2, <1>3, <1>4, <1>5, <1>6 DEF Next, OperarFS, GestionadorExit, Hilos

LEMMA DisciplinaEnUnPaso == ArchivosInv /\ ArchivosInv' /\ Disciplina /\ [Next]_vars => Disciplina'
  <1> SUFFICES ASSUME ArchivosInv, ArchivosInv', Calma, escenario.cierran, [Next]_vars
               PROVE  Calma'
    BY EscenarioFijo DEF Disciplina
  <1> USE DEF Hilos, Va, Atiende, Llega, programa, listas, archivos, locales
  <1>a. /\ Datos /\ Manos /\ Lugares /\ Tenencia /\ Parejas
        /\ ~caido /\ Salida /\ Ubicados /\ ConCola /\ Pedidos /\ EnCurso
    BY DEF ArchivosInv, Calma
  <1>p. DOMAIN pc = Hilos /\ DOMAIN descr = Hilos /\ DOMAIN cola = Hilos
    BY <1>a DEF Manos, Datos
  <1>m. MismaActividad \/ Cambia
    BY LugaresEnUnPaso
  <1>d. ASSUME pc["fs"] # "abrir_tabla", pc["exit"] # "siguiente" \/ pc'["exit"] # "tomar",
               \A t \in Hilos : pc[t] \notin {"lib_destruir", "lib_quitar"} \/ pc'[t] = pc[t]
        PROVE  MismaActividad
    BY <1>d, <1>m, <1>p DEF Cambia, AbrirTabla, ExitTerminar, LibDestruir, LibQuitar, TrasLiberar
  <1>f. ASSUME pc["fs"] \notin {"abrir_tabla", "lib_destruir", "lib_quitar"},
               pc'["exit"] = pc["exit"]
        PROVE  MismaActividad
    <2>1. pc["exit"] \in {"tomar", "siguiente"}
      BY <1>a DEF Salida
    <2> QED
      BY <1>f, <1>d, <2>1
  <1>e. ASSUME UNCHANGED <<descriptores, GDT>>
        PROVE  \A d : (EnGDT(d)' <=> EnGDT(d)) /\ Archivo(d)' = Archivo(d)
    BY <1>e DEF EnGDT, Archivo
  <1>b. ASSUME UNCHANGED <<consolasBlocked, tablaArchivos>>
        PROVE  \A x : EnLista(consolasBlocked', x) =>
                   EnLista(consolasBlocked, x) /\ tablaArchivos'[x.un_pcb] = tablaArchivos[x.un_pcb]
    BY <1>b
  <1>x. ASSUME UNCHANGED <<consolasExit, exitPCB, tablaArchivos>>
        PROVE  \A p \in Procesos : EnExit(p)' \/ Saliendo(p)' =>
                   (EnExit(p) \/ Saliendo(p)) /\ tablaArchivos'[p] = tablaArchivos[p]
    BY <1>x DEF EnExit, Saliendo
  \* Steps of operarFS that leave the tables and the files alone.
  <1>q. ASSUME UNCHANGED <<consolasExit, exitPCB, tablaArchivos, GDT, terminados>>,
               UNCHANGED caido, pc'["exit"] = pc["exit"], MismaActividad,
               \A d : EnGDT(d) => Archivo(d)' = Archivo(d),
               DOMAIN diccionario_colas_archivos \subseteq DOMAIN diccionario_colas_archivos',
               consolasBlocked' = consolasBlocked
                   \/ (consolasBlocked # <<>> /\ consolasBlocked' = Tail(consolasBlocked)),
               EnCurso'
        PROVE  Calma'
    <2>1. Salida'
      BY <1>a, <1>q, <1>x, SalidaQuieta
    <2>2. \A d : EnGDT(d)' <=> EnGDT(d)
      BY <1>q DEF EnGDT
    <2>3. Ubicados'
      BY <1>a, <1>q, <2>2, UbicadosQuietos
    <2>4. ConCola'
      BY <1>a, <1>q, <2>2, ConColaQuieta
    <2>5. Pedidos'
      BY <1>a, <1>q, PedidoTomado, PedidosQuietos
    <2> QED
      BY <1>a, <1>q, <2>1, <2>3, <2>4, <2>5 DEF Calma
  <1>1. ASSUME NEW p \in Procesos, NEW op \in Operaciones, NEW n \in escenario.nombres,
               Pedir(p, op, n)
        PROVE  Calma'
    <2>1. PICK y : y = [un_pcb |-> p, cod_op |-> op, archivo |-> n]
      OBVIOUS
    <2>2. /\ p \in consolasReady /\ Permitida(p, op, n) /\ consolasReady' = consolasReady \ {p}
          /\ consolasBlocked' = Append(consolasBlocked, y)
          /\ UNCHANGED <<consolasExit, terminados, archivos, pc, locales, caido>>
      BY <1>1, <2>1 DEF Pedir
    <2>3. y \in Nodo /\ consolasBlocked \in Seq(Nodo)
      BY <1>a, <2>1 DEF Nodo, Datos
    <2>4. \A x : EnLista(consolasBlocked', x) <=> EnLista(consolasBlocked, x) \/ x = y
      BY <2>2, <2>3, AgregarAlFinal
    <2>5. PedidoPosible(y)
      <3>1. op # "F_TRUNCATE" /\ (op # "F_OPEN" => n \in Abiertos(p))
        BY <2>2 DEF Permitida, Operaciones
      <3>2. op # "F_OPEN" => \E d : EnLista(tablaArchivos[p], d) /\ Archivo(d) = n
        BY <3>1 DEF Abiertos, Range, EnLista, Archivo
      <3> QED
        BY <2>1, <3>1, <3>2 DEF PedidoPosible
    <2>6. Pedidos'
      BY <1>a, <2>2, <2>4, <2>5 DEF Pedidos, PedidoPosible, Archivo
    <2>7. MismaActividad
      <3>1. UNCHANGED pc /\ consolasReady' # consolasReady
        BY <2>2
      <3> QED
        BY <1>m, <1>p, <3>1
           DEF Cambia, AbrirTabla, ExitTerminar, LibDestruir, LibQuitar, TrasLiberar
    <2>8. Salida' /\ Ubicados' /\ ConCola' /\ EnCurso'
      BY <1>a, <1>e, <1>x, <2>2, <2>7, SalidaQuieta, UbicadosQuietos, ConColaQuieta, EnCursoQuieto
    <2> QED
      BY <1>a, <2>2, <2>6, <2>8 DEF Calma
  <1>2. ASSUME NEW p \in Procesos, Terminar(p) PROVE Calma'
    <2>1. /\ p \in consolasReady /\ tablaArchivos[p] = <<>>
          /\ consolasReady' = consolasReady \ {p}
          /\ consolasExit' = Append(consolasExit, p)
          /\ UNCHANGED <<consolasBlocked, terminados, archivos, pc, locales, caido>>
      BY <1>2 DEF Terminar
    <2>2. \A x \in Procesos : EnExit(x)' \/ Saliendo(x)' => EnExit(x) \/ Saliendo(x) \/ x = p
      BY <1>a, <2>1, AgregarAlFinal DEF Datos, EnExit, Saliendo
    <2>3. Salida'
      BY <1>a, <2>1, <2>2 DEF Salida
    <2>4. MismaActividad
      <3>1. UNCHANGED pc /\ consolasReady' # consolasReady
        BY <2>1
      <3> QED
        BY <1>m, <1>p, <3>1
           DEF Cambia, AbrirTabla, ExitTerminar, LibDestruir, LibQuitar, TrasLiberar
    <2>5. Ubicados' /\ ConCola' /\ EnCurso' /\ Pedidos'
      BY <1>a, <1>b, <1>e, <2>1, <2>4, UbicadosQuietos, ConColaQuieta, EnCursoQuieto, PedidosQuietos
    <2> QED
      BY <1>a, <2>1, <2>3, <2>5 DEF Calma
  <1>3. ASSUME AbrirBuscar PROVE Calma'
    <2>1. PICK d : d = Busca(GDT, Llamada.archivo)
      OBVIOUS
    <2>2. /\ pc["fs"] = "tomar" /\ consolasBlocked # <<>> /\ pc'["exit"] = pc["exit"]
          /\ consolasBlocked' = Tail(consolasBlocked)
          /\ pc'["fs"] = (IF d = NULL THEN "abrir_nueva" ELSE "abrir_tabla")
          /\ un_nodo' = Llamada /\ descr'["fs"] = d
          /\ UNCHANGED <<consolasReady, consolasExit, terminados, archivos, exitPCB, caido>>
      BY <1>3, <1>p, <2>1 DEF AbrirBuscar
    <2>3. d # NULL => EnGDT(d) /\ Archivo(d) = Llamada.archivo
      BY <2>1, LoQueHalla DEF EnGDT
    <2>4. EnCurso'
      BY <2>2, <2>3 DEF EnCurso, EnGDT, Archivo, PasosLib
    <2>5. MismaActividad
      BY <1>f, <2>2
    <2> QED
      BY <1>e, <1>q, <2>2, <2>4, <2>5
  <1>4. ASSUME AbrirNueva PROVE Calma'
    <2>1. PICK cn, dn : cn = ColaNueva /\ dn = DescriptorNuevo
      OBVIOUS
    <2>2. /\ pc["fs"] = "abrir_nueva" /\ pc'["exit"] = pc["exit"] /\ pc'["fs"] = "abrir_gdt"
          /\ diccionario_colas_archivos' = Con(diccionario_colas_archivos, un_nodo.archivo, cn)
          /\ descriptores' = Con(descriptores, dn,
                                 [file_name |-> un_nodo.archivo, pointer |-> NINGUNO])
          /\ UNCHANGED <<listas, GDT, tablaArchivos, un_nodo, exitPCB, caido>>
      BY <1>4, <1>p, <2>1 DEF AbrirNueva
    <2>3. \A d : EnGDT(d) => Archivo(d)' = Archivo(d)
      <3>1. dn \notin DOMAIN descriptores
        BY <1>a, <2>1, Frescos
      <3> QED
        BY <1>a, <2>2, <3>1 DEF Tenencia, UnoPorNombre, Con, Archivo
    <2>4. /\ DOMAIN diccionario_colas_archivos \subseteq DOMAIN diccionario_colas_archivos'
          /\ un_nodo'.archivo \in DOMAIN diccionario_colas_archivos'
      BY <2>2 DEF Con
    <2>5. EnCurso'
      BY <2>2, <2>4 DEF EnCurso, PasosLib
    <2>6. MismaActividad
      BY <1>f, <2>2
    <2> QED
      BY <1>q, <2>2, <2>3, <2>4, <2>5, <2>6
  <1>5. ASSUME AbrirGdt PROVE Calma'
    <2>1. PICK p, d : p = un_nodo.un_pcb /\ d = descr["fs"]
      OBVIOUS
    <2>2. /\ pc["fs"] = "abrir_gdt" /\ pc'["fs"] = "tomar" /\ pc'["exit"] = pc["exit"]
          /\ GDT' = Append(GDT, d)
          /\ tablaArchivos' = [tablaArchivos EXCEPT ![p] = <<d>> \o @]
          /\ UNCHANGED <<listas, exitPCB, descriptores, diccionario_colas_archivos, caido>>
      BY <1>5, <1>p, <2>1 DEF AbrirGdt
    <2>3. d \in Identidades /\ Archivo(d) = un_nodo.archivo
      BY <1>a, <2>1, <2>2 DEF Manos, Datos, PasosLib, Archivo
    <2>4. /\ \A x : EnGDT(x)' <=> EnGDT(x) \/ x = d
          /\ \A x : Archivo(x)' = Archivo(x)
      BY <1>a, <2>2, <2>3, AgregarAlFinal DEF Datos, EnGDT, Archivo
    <2>5. EnMano(p) /\ \A x \in Procesos : x # p => tablaArchivos'[x] = tablaArchivos[x]
      BY <1>a, <2>1, <2>2 DEF EnMano, Datos
    <2>6. MismaActividad
      BY <1>f, <2>2
    <2>7. Salida'
      <3>1. \A x \in Procesos : EnExit(x)' \/ Saliendo(x)' => (EnExit(x) \/ Saliendo(x)) /\ x # p
        BY <1>a, <2>2, <2>5 DEF Lugares, EnExit, Saliendo
      <3> QED
        BY <1>a, <2>2, <2>5, <3>1, SalidaQuieta
    <2>8. Ubicados'
      <3>1. \A x \in Procesos : Espera(x) => x # p
        BY <1>a, <2>2, <2>5, EsperaEs DEF Lugares, Libre
      <3> QED
        BY <1>a, <2>2, <2>4, <2>5, <2>6, <3>1, UbicadosQuietos
    <2>9. ConCola'
      <3>1. un_nodo.archivo \in DOMAIN diccionario_colas_archivos
        BY <1>a, <2>2 DEF EnCurso
      <3> QED
        BY <1>a, <2>2, <2>3, <2>4, <3>1 DEF ConCola
    <2>10. Pedidos'
      <3>1. \A x : EnLista(consolasBlocked, x) => x.un_pcb \in Procesos /\ x.un_pcb # p
        BY <1>a, <2>5, QuienPide DEF Lugares
      <3> QED
        BY <1>a, <2>2, <2>4, <2>5, <3>1, PedidosQuietos
    <2>11. EnCurso'
      BY <2>2 DEF EnCurso, PasosLib
    <2> QED
      BY <1>a, <2>2, <2>7, <2>8, <2>9, <2>10, <2>11 DEF Calma
  <1>6. ASSUME AbrirTabla PROVE Calma'
    <2>1. PICK p, d, n : p = un_nodo.un_pcb /\ d = descr["fs"] /\ n = un_nodo.archivo
      OBVIOUS
    <2>2. /\ pc["fs"] = "abrir_tabla" /\ pc'["fs"] = "abrir_encolar" /\ pc'["exit"] = pc["exit"]
          /\ tablaArchivos' = [tablaArchivos EXCEPT ![p] = <<d>> \o @]
          /\ cola'["fs"] = (IF n \in DOMAIN diccionario_colas_archivos
                            THEN diccionario_colas_archivos[n] ELSE NULL)
          /\ UNCHANGED <<consolasReady, listas, un_nodo, exitPCB, colas, descriptores, GDT>>
          /\ UNCHANGED <<diccionario_colas_archivos, caido>>
      BY <1>6, <1>p, <2>1 DEF AbrirTabla
    <2>3. un_nodo \in Nodo
      BY <1>a, <2>2 DEF Manos, Datos, PasosLib
    <2>4. p \in Procesos /\ EnMano(p)
      BY <2>1, <2>3 DEF Nodo, EnMano
    <2>5. EnGDT(d) /\ Archivo(d) = n /\ d \in Identidades
      BY <1>a, <2>1, <2>2 DEF EnCurso, Manos, Datos, Identidades
    <2>6. /\ Head(tablaArchivos'[p]) = d
          /\ \A x \in Procesos : x # p => tablaArchivos'[x] = tablaArchivos[x]
      <3>1. PICK l : l = <<d>> \o tablaArchivos[p]
        OBVIOUS
      <3>2. tablaArchivos[p] \in Seq(Identidades)
        BY <1>a, <2>4 DEF Datos
      <3>3. Head(l) = d
        BY <2>5, <3>1, <3>2, AgregarAlFrente
      <3> QED
        BY <1>a, <2>2, <2>4, <3>1, <3>3 DEF Datos
    <2>7. /\ \A x : /\ EnReady(x)' <=> EnReady(x)
                    /\ EnBlocked(x)' <=> EnBlocked(x)
                    /\ EnExit(x)' <=> EnExit(x)
                    /\ Saliendo(x)' <=> Saliendo(x)
                    /\ EnMano(x)' <=> EnMano(x)
                    /\ EnMano(x) <=> x = p
                    /\ \A q : EnCola(x, q)' <=> EnCola(x, q)
      BY <2>1, <2>2 DEF EnReady, EnBlocked, EnExit, Saliendo, EnMano, EnCola
    <2>8. /\ Espera(p)'
          /\ \A x \in Procesos : x # p => (Activo(x)' <=> Activo(x)) /\ (Espera(x)' <=> Espera(x))
      BY <1>a, <2>2, <2>4, <2>7, ActivoEs, EsperaEs, ActivoEsPrima, EsperaEsPrima DEF Lugares
    <2>9. Ubicados'
      BY <1>a, <1>e, <2>2, <2>5, <2>6, <2>8 DEF Ubicados
    <2>10. Salida'
      <3>1. \A x \in Procesos : EnExit(x) \/ Saliendo(x) => x # p
        BY <1>a, <2>4 DEF Lugares
      <3> QED
        BY <1>a, <2>2, <2>6, <2>7, <3>1, SalidaQuieta
    <2>11. ConCola'
      BY <1>a, <1>e, <2>2, ConColaQuieta
    <2>12. Pedidos'
      <3>1. \A x : EnLista(consolasBlocked, x) => x.un_pcb \in Procesos /\ x.un_pcb # p
        BY <1>a, <2>4, QuienPide DEF Lugares
      <3> QED
        BY <1>a, <1>e, <2>2, <2>6, <3>1, PedidosQuietos
    <2>13. EnCurso'
      <3>1. n \in DOMAIN diccionario_colas_archivos
        BY <1>a, <2>5 DEF ConCola
      <3>2. cola'["fs"] \in DOMAIN colas'
        BY <1>a, <2>2, <3>1 DEF Datos
      <3> QED
        BY <2>2, <3>2 DEF EnCurso, PasosLib
    <2> QED
      BY <1>a, <2>2, <2>9, <2>10, <2>11, <2>12, <2>13 DEF Calma
  <1>7. ASSUME AbrirEncolar PROVE Calma'
    <2>1. /\ pc["fs"] = "abrir_encolar" /\ pc'["fs"] = "tomar" /\ pc'["exit"] = pc["exit"]
          /\ UNCHANGED <<listas, exitPCB, descriptores, GDT, diccionario_colas_archivos>>
          /\ UNCHANGED <<tablaArchivos, caido>>
      BY <1>7, <1>a, <1>p DEF AbrirEncolar, EnCurso
    <2>2. EnCurso'
      BY <2>1 DEF EnCurso, PasosLib
    <2>3. MismaActividad
      BY <1>f, <2>1
    <2> QED
      BY <1>e, <1>q, <2>1, <2>2, <2>3
  <1>8. ASSUME Cerrar PROVE Calma'
    <2>1. PICK p, n : p = Llamada.un_pcb /\ n = Llamada.archivo
      OBVIOUS
    <2>2. PICK d : d = Busca(tablaArchivos[p], n)
      OBVIOUS
    <2>3. pc["fs"] = "tomar" /\ consolasBlocked # <<>> /\ Llamada.cod_op = "F_CLOSE"
      BY <1>8 DEF Cerrar, Llamada
    <2>4. d # NULL /\ EnLista(tablaArchivos[p], d)
      BY <1>a, <2>1, <2>2, <2>3, PedidoHallado, LoQueHalla
    <2>5. PICK l : l = RemoveFirst(tablaArchivos[p], d)
      OBVIOUS
    <2>6. /\ pc'["fs"] = "lib_cola" /\ pc'["exit"] = pc["exit"] /\ descr'["fs"] = d
          /\ consolasBlocked' = Tail(consolasBlocked)
          /\ tablaArchivos' = [tablaArchivos EXCEPT ![p] = l]
          /\ UNCHANGED <<consolasExit, terminados, exitPCB, caido>>
          /\ UNCHANGED <<descriptores, GDT, colas, diccionario_colas_archivos>>
      BY <1>8, <1>p, <2>1, <2>2, <2>4, <2>5 DEF Cerrar, Sigue
    <2>7. p \in Procesos /\ EnBlocked(p)
      BY <1>a, <2>1, <2>3, LaLlamada
    <2>8. \A x \in Procesos : x # p => tablaArchivos'[x] = tablaArchivos[x]
      BY <1>a, <2>6, <2>7 DEF Datos
    <2>9. MismaActividad
      BY <1>f, <2>3, <2>6
    <2>10. Salida'
      <3>1. \A x \in Procesos : EnExit(x)' \/ Saliendo(x)' => (EnExit(x) \/ Saliendo(x)) /\ x # p
        BY <1>a, <2>6, <2>7 DEF Lugares, EnExit, Saliendo
      <3> QED
        BY <1>a, <2>6, <2>8, <3>1, SalidaQuieta
    <2>11. Ubicados'
      <3>1. \A x \in Procesos : Espera(x) => x # p
        BY <1>a, <2>7, NoLosDos, ActivoEs
      <3> QED
        BY <1>a, <1>e, <2>6, <2>8, <2>9, <3>1, UbicadosQuietos
    <2>12. ConCola'
      BY <1>a, <1>e, <2>6, ConColaQuieta
    <2>13. Pedidos'
      <3>1. \A x : EnLista(consolasBlocked', x) =>
               EnLista(consolasBlocked, x) /\ x.un_pcb \in Procesos /\ x.un_pcb # p
        BY <1>a, <2>1, <2>3, <2>6, PedidoTomado, QuienPide
      <3> QED
        BY <1>a, <1>e, <2>6, <2>8, <3>1, PedidosQuietos
    <2>14. EnCurso'
      <3>1. Tiene(p, d)
        BY <1>a, <2>4, <2>7, LoTenidoEnTabla, ActivoEs
      <3>2. EnGDT(d)'
        BY <1>a, <1>e, <2>6, <2>7, <3>1 DEF Tenencia, UnoQueLoTiene
      <3> QED
        BY <2>6, <3>2 DEF EnCurso, PasosLib, EnGDT
    <2> QED
      BY <1>a, <2>6, <2>10, <2>11, <2>12, <2>13, <2>14 DEF Calma
  <1>9. ASSUME Posicionar PROVE Calma'
    <2>1. pc["fs"] = "tomar" /\ consolasBlocked # <<>> /\ Llamada.cod_op = "F_SEEK"
      BY <1>9 DEF Posicionar, Llamada
    <2>2. Busca(tablaArchivos[Llamada.un_pcb], Llamada.archivo) # NULL
      BY <1>a, <2>1, PedidoHallado
    <2>3. PICK d, p : /\ pc'["fs"] = "tomar" /\ pc'["exit"] = pc["exit"]
                      /\ consolasBlocked' = Tail(consolasBlocked)
                      /\ descriptores' = [descriptores EXCEPT ![d].pointer = p]
                      /\ UNCHANGED <<consolasExit, exitPCB, tablaArchivos, GDT, terminados>>
                      /\ UNCHANGED <<diccionario_colas_archivos, caido>>
      BY <1>9, <1>p, <2>2 DEF Posicionar, Sigue
    <2>4. \A e : EnGDT(e) => Archivo(e)' = Archivo(e)
      BY <1>a, <2>3 DEF Archivo, Datos, Descriptor, Tenencia, UnoPorNombre
    <2>5. EnCurso'
      BY <2>3 DEF EnCurso, PasosLib
    <2>6. MismaActividad
      BY <1>f, <2>1, <2>3
    <2> QED
      BY <1>q, <2>1, <2>3, <2>4, <2>5, <2>6
  <1>10. ASSUME Transferir PROVE Calma'
    <2>1. PICK d : d = Busca(GDT, Llamada.archivo)
      OBVIOUS
    <2>2. pc["fs"] = "tomar" /\ consolasBlocked # <<>> /\ Llamada.cod_op = "F_READ"
      BY <1>10 DEF Transferir, Llamada
    <2>3. d # NULL /\ EnGDT(d)
      BY <1>a, <2>1, <2>2, PedidoHallado, LoQueHalla DEF EnGDT
    <2>4. /\ pc'["fs"] = "recibir" /\ pc'["exit"] = pc["exit"] /\ descr'["fs"] = d
          /\ consolasBlocked' = Tail(consolasBlocked)
          /\ UNCHANGED <<consolasExit, exitPCB, terminados, archivos, caido>>
      BY <1>10, <1>p, <2>1, <2>3 DEF Transferir
    <2>5. EnCurso'
      BY <2>3, <2>4 DEF EnCurso, PasosLib, EnGDT
    <2>6. MismaActividad
      BY <1>f, <2>2, <2>4
    <2> QED
      BY <1>e, <1>q, <2>2, <2>4, <2>5, <2>6
  <1>11. ASSUME Recibir PROVE Calma'
    <2>1. pc["fs"] = "recibir"
      BY <1>11 DEF Recibir
    <2>2. descr["fs"] \in DOMAIN descriptores
      BY <1>a, <2>1 DEF EnCurso, Tenencia, UnoPorNombre
    <2>3. /\ pc'["fs"] = "tomar" /\ pc'["exit"] = pc["exit"]
          /\ UNCHANGED <<listas, exitPCB, archivos, caido>>
      BY <1>11, <1>p, <2>2 DEF Recibir
    <2>4. EnCurso'
      BY <2>3 DEF EnCurso, PasosLib
    <2>5. MismaActividad
      BY <1>f, <2>1, <2>3
    <2> QED
      BY <1>e, <1>q, <2>3, <2>4, <2>5
  <1>12. ASSUME Truncar PROVE Calma'
    <2>1. consolasBlocked # <<>> /\ Llamada.cod_op = "F_TRUNCATE"
      BY <1>12 DEF Truncar, Llamada
    <2> QED
      BY <1>a, <2>1, PedidoHallado
  \* Only operarFS releases descriptors.
  <1>t. ASSUME NEW t \in Hilos, Libera(t) PROVE t = "fs"
    BY <1>a, <1>t DEF Salida, Libera, PasosLib
  <1>13. ASSUME NEW t \in Hilos, LibCola(t) PROVE Calma'
    <2>1. t = "fs"
      BY <1>13, <1>t DEF LibCola, Libera, PasosLib
    <2>2. PICK d : d = descr["fs"]
      OBVIOUS
    <2>3. /\ pc["fs"] = "lib_cola" /\ pc'["fs"] = "lib_vacia" /\ pc'["exit"] = pc["exit"]
          /\ cola'["fs"] = (IF Archivo(d) \in DOMAIN diccionario_colas_archivos
                            THEN diccionario_colas_archivos[Archivo(d)] ELSE NULL)
          /\ UNCHANGED <<listas, exitPCB, archivos, descr, caido>>
      BY <1>13, <1>p, <2>1, <2>2 DEF LibCola, Nombre, Archivo
    <2>4. EnGDT(d) /\ Archivo(d) \in DOMAIN diccionario_colas_archivos
      BY <1>a, <2>2, <2>3 DEF EnCurso, ConCola
    <2>5. EnCurso'
      <3>1. cola'["fs"] # NULL
        BY <1>a, <2>3, <2>4 DEF Datos, Identidades
      <3> QED
        BY <2>2, <2>3, <2>4, <3>1 DEF EnCurso, PasosLib, EnGDT
    <2>6. MismaActividad
      BY <1>f, <2>3
    <2> QED
      BY <1>e, <1>q, <2>3, <2>5, <2>6
  <1>14. ASSUME NEW t \in Hilos, LibVacia(t) PROVE Calma'
    <2>1. t = "fs" /\ pc["fs"] = "lib_vacia"
      BY <1>14, <1>t DEF LibVacia, Libera, PasosLib
    <2>2. cola["fs"] \in DOMAIN colas /\ EnGDT(descr["fs"]) /\ cola["fs"] # NULL
      BY <1>a, <2>1 DEF EnCurso, Manos, Libera, PasosLib
    <2>3. /\ pc'["fs"] = (IF colas[cola["fs"]] = <<>> THEN "lib_gdt" ELSE "lib_quitar")
          /\ pc'["exit"] = pc["exit"]
          /\ UNCHANGED <<listas, archivos, locales, caido>>
      BY <1>14, <1>p, <2>1, <2>2 DEF LibVacia
    <2>4. EnCurso'
      BY <2>2, <2>3 DEF EnCurso, PasosLib, EnGDT
    <2>5. MismaActividad
      BY <1>f, <2>1, <2>3
    <2> QED
      BY <1>e, <1>q, <2>3, <2>4, <2>5
  \* Nobody waits in the queue of the descriptor that is taken out of the GDT.
  <1>15. ASSUME NEW t \in Hilos, LibGdt(t) PROVE Calma'
    <2>1. t = "fs"
      BY <1>15, <1>t DEF LibGdt, Libera, PasosLib
    <2>2. PICK d, k : d = descr["fs"] /\ k = cola["fs"]
      OBVIOUS
    <2>3. /\ pc["fs"] = "lib_gdt" /\ pc'["fs"] = "lib_clave" /\ pc'["exit"] = pc["exit"]
          /\ GDT' = RemoveFirst(GDT, d)
          /\ UNCHANGED <<listas, exitPCB, tablaArchivos, descriptores, descr, cola, colas>>
          /\ UNCHANGED <<diccionario_colas_archivos, caido>>
      BY <1>15, <1>p, <2>1, <2>2 DEF LibGdt
    <2>4. \A x : (EnGDT(x)' <=> EnGDT(x) /\ x # d) /\ Archivo(x)' = Archivo(x)
      BY <1>a, <2>3, QuitarUno DEF Datos, EnGDT, Archivo, Tenencia, UnoPorNombre
    <2>5. k # NULL /\ colas[k] = <<>> /\ PorHilo(k, d)
      BY <1>a, <2>2, <2>3 DEF EnCurso, PasosLib, PorHilo, Suelta, Libera
    <2>6. ASSUME NEW p \in Procesos, Espera(p) PROVE Head(tablaArchivos[p]) # d
      <3>1. PICK q : EnCola(p, q)
        BY <2>3, <2>6, EsperaEs
      <3>2. q # k
        <4>1. DOMAIN <<>> = {}
          OBVIOUS
        <4> QED
          BY <2>5, <3>1, <4>1 DEF EnCola, EnLista
      <3>3. PorEspera(q, Head(tablaArchivos[p]))
        BY <3>1 DEF PorEspera
      <3> QED
        BY <1>a, <2>5, <3>2, <3>3 DEF Parejas, DeSuCola
    <2>7. MismaActividad
      BY <1>f, <2>3
    <2>8. Ubicados'
      BY <1>a, <2>3, <2>4, <2>6, <2>7 DEF Ubicados, MismaActividad
    <2>9. Salida' /\ ConCola' /\ Pedidos'
      BY <1>a, <1>b, <1>x, <2>3, <2>4, SalidaQuieta, ConColaQuieta, PedidosQuietos
    <2>10. EnCurso'
      BY <2>2, <2>3, <2>5 DEF EnCurso, PasosLib
    <2> QED
      BY <1>a, <2>3, <2>8, <2>9, <2>10 DEF Calma
  <1>16. ASSUME NEW t \in Hilos, LibClave(t) PROVE Calma'
    <2>1. t = "fs"
      BY <1>16, <1>t DEF LibClave, Libera, PasosLib
    <2>2. PICK a : a = Archivo(descr["fs"])
      OBVIOUS
    <2>3. /\ pc["fs"] = "lib_clave" /\ pc'["fs"] = "lib_destruir" /\ pc'["exit"] = pc["exit"]
          /\ diccionario_colas_archivos' =
                [n \in DOMAIN diccionario_colas_archivos \ {a} |-> diccionario_colas_archivos[n]]
          /\ UNCHANGED <<listas, exitPCB, tablaArchivos, descriptores, GDT, descr, cola, colas>>
          /\ UNCHANGED caido
      BY <1>16, <1>p, <2>1, <2>2 DEF LibClave, Nombre, Archivo
    <2>4. ConCola'
      <3>1. \A d : EnGDT(d) => Archivo(d) # a
        BY <1>a, <2>2, <2>3 DEF Tenencia, Abriendo
      <3> QED
        BY <1>a, <1>e, <2>3, <3>1 DEF ConCola
    <2>5. MismaActividad
      BY <1>f, <2>3
    <2>6. Salida' /\ Ubicados' /\ Pedidos'
      BY <1>a, <1>b, <1>e, <1>x, <2>3, <2>5, SalidaQuieta, UbicadosQuietos, PedidosQuietos
    <2>7. EnCurso'
      BY <1>a, <2>3 DEF EnCurso, PasosLib
    <2> QED
      BY <1>a, <2>3, <2>4, <2>6, <2>7 DEF Calma
  <1>17. ASSUME NEW t \in Hilos, LibDestruir(t) PROVE Calma'
    <2>1. t = "fs"
      BY <1>17, <1>t DEF LibDestruir, Libera, PasosLib
    <2>2. PICK d, k : d = descr["fs"] /\ k = cola["fs"]
      OBVIOUS
    <2>3. /\ pc["fs"] = "lib_destruir" /\ pc'["fs"] = "tomar" /\ pc'["exit"] = pc["exit"]
          /\ colas' = [q \in DOMAIN colas \ {k} |-> colas[q]]
          /\ descriptores' = [e \in DOMAIN descriptores \ {d} |-> descriptores[e]]
          /\ UNCHANGED <<consolasReady, listas, un_nodo, exitPCB, tablaArchivos, GDT>>
          /\ UNCHANGED <<diccionario_colas_archivos, caido>>
      BY <1>17, <1>p, <2>1, <2>2 DEF LibDestruir, TrasLiberar, Olvida
    <2>4. MismoEncolar /\ colas[k] = <<>>
      BY <1>a, <2>2, <2>3 DEF MismoEncolar, EnCurso
    <2>5. MismaActividad
      <3>1. \A y : ~EnCola(y, k)
        <4>1. DOMAIN <<>> = {}
          OBVIOUS
        <4> QED
          BY <2>4, <4>1 DEF EnCola, EnLista
      <3>2. /\ \A y \in Procesos : (Activo(y)' <=> Activo(y)) /\ (Espera(y)' => Espera(y))
            /\ \A y \in Procesos : Espera(y) /\ ~EnCola(y, k) => Espera(y)'
        BY <1>a, <2>3, <2>4, DeColaANinguna
      <3> QED
        BY <3>1, <3>2 DEF MismaActividad
    <2>6. \A e : EnGDT(e) => Archivo(e)' = Archivo(e)
      <3>1. ~EnGDT(d)
        BY <1>a, <2>2, <2>3 DEF Tenencia, UnoQueLoTiene, Suelta, Libera, PasosLib, Quitado
      <3> QED
        BY <1>a, <2>3, <3>1 DEF Tenencia, UnoPorNombre, Archivo
    <2>7. EnCurso'
      BY <2>3 DEF EnCurso, PasosLib
    <2> QED
      BY <1>q, <2>3, <2>5, <2>6, <2>7
  <1>18. ASSUME NEW t \in Hilos, LibQuitar(t) PROVE Calma'
    <2>1. t = "fs"
      BY <1>18, <1>t DEF LibQuitar, Libera, PasosLib
    <2>2. PICK k, p : k = cola["fs"] /\ p = Head(colas[cola["fs"]])
      OBVIOUS
    <2>3. /\ pc["fs"] = "lib_quitar" /\ pc'["fs"] = "tomar" /\ pc'["exit"] = pc["exit"]
          /\ colas' = [colas EXCEPT ![k] = Tail(@)]
          /\ consolasReady' = consolasReady \cup {p}
          /\ UNCHANGED <<listas, un_nodo, exitPCB>>
          /\ UNCHANGED <<tablaArchivos, GDT, descriptores, diccionario_colas_archivos, caido>>
      BY <1>18, <1>p, <2>1, <2>2 DEF LibQuitar, TrasLiberar, Olvida
    <2>4. k \in DOMAIN colas /\ colas[k] # <<>> /\ p = Head(colas[k]) /\ MismoEncolar
      BY <1>a, <2>2, <2>3 DEF Libera, PasosLib, Manos, MismoEncolar
    <2>5. /\ Activo(p)' /\ ~Espera(p)'
          /\ \A x \in Procesos \ {p} : (Activo(x)' <=> Activo(x)) /\ (Espera(x)' <=> Espera(x))
      BY <1>a, <2>3, <2>4, DeColaAReady
    <2>6. Ubicados'
      BY <1>a, <1>e, <2>3, <2>5 DEF Ubicados
    <2>7. Salida' /\ ConCola' /\ Pedidos'
      BY <1>a, <1>b, <1>e, <1>x, <2>3, SalidaQuieta, ConColaQuieta, PedidosQuietos
    <2>8. EnCurso'
      BY <2>3 DEF EnCurso, PasosLib
    <2> QED
      BY <1>a, <2>3, <2>6, <2>7, <2>8 DEF Calma
  <1>19. ASSUME ExitTomar PROVE Calma'
    <2>1. /\ consolasExit # <<>> /\ pc["exit"] = "tomar" /\ pc'["exit"] = "siguiente"
          /\ pc'["fs"] = pc["fs"]
          /\ exitPCB' = Head(consolasExit) /\ consolasExit' = Tail(consolasExit)
          /\ UNCHANGED <<consolasBlocked, terminados, archivos, un_nodo, descr, cola, caido>>
      BY <1>19, <1>p DEF ExitTomar
    <2>2. \A x \in Procesos : EnExit(x)' \/ Saliendo(x)' => EnExit(x)
      BY <1>a, <2>1, QuitarElPrimero DEF Datos, EnExit, Saliendo
    <2>3. Salida'
      BY <1>a, <2>1, <2>2 DEF Salida
    <2>4. MismaActividad
      BY <1>19, <1>m, <1>p, <2>1
         DEF Cambia, AbrirTabla, ExitTerminar, LibDestruir, LibQuitar, TrasLiberar
    <2>5. Ubicados' /\ ConCola' /\ EnCurso' /\ Pedidos'
      BY <1>a, <1>b, <1>e, <2>1, <2>4, UbicadosQuietos, ConColaQuieta, EnCursoQuieto, PedidosQuietos
    <2> QED
      BY <1>a, <2>1, <2>3, <2>5 DEF Calma
  <1>20. ASSUME ExitCerrarUno PROVE Calma'
    <2>1. pc["exit"] = "siguiente" /\ tablaArchivos[exitPCB] # <<>>
      BY <1>20 DEF ExitCerrarUno
    <2>2. exitPCB \in Procesos /\ Saliendo(exitPCB)
      BY <1>a, <2>1 DEF Manos, Datos, Saliendo
    <2> QED
      BY <1>a, <2>1, <2>2 DEF Salida
  <1>21. ASSUME ExitTerminar PROVE Calma'
    <2>1. PICK p : p = exitPCB
      OBVIOUS
    <2>2. /\ pc["exit"] = "siguiente" /\ pc'["exit"] = "tomar" /\ pc'["fs"] = pc["fs"]
          /\ exitPCB' = NINGUNO /\ terminados' = terminados \cup {p} /\ MismoEncolar
          /\ UNCHANGED <<consolasReady, consolasBlocked, consolasExit, archivos, un_nodo>>
          /\ UNCHANGED <<descr, cola, caido>>
      BY <1>21, <1>p, <2>1 DEF ExitTerminar, MismoEncolar
    <2>3. p \in Procesos
      BY <1>a, <2>1, <2>2 DEF Manos, Datos
    <2>4. /\ ~Activo(p)' /\ ~Espera(p)'
          /\ \A y \in Procesos \ {p} :
                (Activo(y)' <=> Activo(y)) /\ (Espera(y)' <=> Espera(y))
      BY <1>a, <2>1, <2>2, <2>3, DeSaliendoATerminado
    <2>5. Ubicados'
      BY <1>a, <1>e, <2>2, <2>4 DEF Ubicados
    <2>6. Salida'
      <3>1. \A x \in Procesos : EnExit(x)' \/ Saliendo(x)' => EnExit(x)
        BY <2>2, ArchivosAssumption DEF EnExit, Saliendo
      <3> QED
        BY <1>a, <2>2, <3>1 DEF Salida
    <2>7. ConCola' /\ EnCurso' /\ Pedidos'
      BY <1>a, <1>b, <1>e, <2>2, ConColaQuieta, EnCursoQuieto, PedidosQuietos
    <2> QED
      BY <1>a, <2>2, <2>5, <2>6, <2>7 DEF Calma
  <1>22. CASE UNCHANGED vars
    <2>1. UNCHANGED <<consolasReady, listas, archivos, pc, locales, caido>>
      BY <1>22 DEF vars
    <2>2. MismaActividad
      BY <1>a, <2>1, NadieSeMueve DEF MismoEncolar
    <2>3. Salida' /\ Ubicados' /\ ConCola' /\ EnCurso' /\ Pedidos'
      BY <1>a, <1>b, <1>e, <1>x, <2>1, <2>2, SalidaQuieta, UbicadosQuietos, ConColaQuieta,
         EnCursoQuieto, PedidosQuietos
    <2> QED
      BY <1>a, <2>1, <2>3 DEF Calma
  <1> QED
    BY <1>1, <1>2, <1>3, <1>4, <1>5, <1>6, <1>7, <1>8, <1>9, <1>10, <1>11, <1>12, <1>13, <1>14,
       <1>15, <1>16, <1>17, <1>18, <1>19, <1>20, <1>21, <1>22
       DEF Next, Proceso, OperarFS, GestionadorExit, Liberar

\* When programs close what they open, the kernel uses no descriptor or queue that is NULL or was
\* freed, and whoever is not at work has ended or waits for a file that somebody has: a descriptor
\* leaves the GDT and its queue is destroyed only with nobody in it (kernel.h 577-596, 686-697).
THEOREM NadieAfuera == Spec => []NadieQuedaAfuera
  <1>1. Init => Disciplina
    BY DisciplinaAlInicio
  <1>2. ArchivosInv /\ ArchivosInv' /\ Disciplina /\ [Next]_vars => Disciplina'
    BY DisciplinaEnUnPaso
  <1>3. Disciplina => NadieQuedaAfuera
    BY DEF Disciplina, Calma, Ubicados, NadieQuedaAfuera, EnGDT, EnLista, Range
  <1> QED
    BY <1>1, <1>2, <1>3, SiempreArchivos, PTL DEF Spec
=============================================================================
