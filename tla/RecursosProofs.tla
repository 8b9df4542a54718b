---------------------------- MODULE RecursosProofs ----------------------------
(***************************************************************************)
(* What holds of Recursos for every set of processes and resources, every *)
(* number of instances and every program.                                 *)
(***************************************************************************)
EXTENDS Recursos, TLAPS, SequenceTheorems, FiniteSetTheorems, WellFoundedInduction

\* Where each thread may be.
PasosWait == {"wait_leer", "wait_cargar", "wait_guardar", "wait_clave", "wait_lista",
              "wait_agregar", "wait_nueva"}
PasosLib == {"lib_clave", "lib_lista", "lib_quitar", "lib_tamano", "lib_destruir", "lib_cargar",
             "lib_guardar"}

\* The two threads have a process and a resource at hand while they work on them, and a pointer
\* to a list only between its dictionary_get and the last use of it.
Manos ==
    /\ pc \in [Hilos -> {"tomar", "cpu", "siguiente"} \cup PasosWait \cup PasosLib]
    /\ pc["run"] # "siguiente" /\ pc["exit"] \notin {"cpu"} \cup PasosWait
    /\ \A t \in Hilos :
          /\ pc[t] # "tomar" => pcb[t] \in Procesos
          /\ pc[t] \in PasosWait \cup PasosLib => recurso[t] \in Recursos
          /\ lista[t] # "ninguna" <=>
                pc[t] \in {"wait_agregar", "lib_quitar", "lib_tamano", "lib_destruir"}
          /\ lista[t] = "viva" => HayClave(recurso[t])

\* Only the scheduler thread takes instances: what it saw is still there, whatever the exit
\* thread gives back meanwhile.
VistoSigueAhi ==
    /\ pc["run"] = "wait_cargar" => recursosDisponibles[recurso["run"]] >= 1
    /\ pc["run"] = "wait_guardar" =>
          leido["run"] >= 1 /\ recursosDisponibles[recurso["run"]] >= 1

\* A list holds nobody twice.
SinRepetidos(l) == \A i, j \in DOMAIN l : l[i] = l[j] => i = j

\* ... and x at most once.
UnaVez(l, x) == \A i, j \in DOMAIN l : l[i] = x /\ l[j] = x => i = j

EnReady(p) == EnLista(consolasReady, p)
EnExit(p) == EnLista(consolasExit, p)
EnRun(p) == pc["run"] \in {"cpu"} \cup PasosWait /\ pcb["run"] = p
Saliendo(p) == pc["exit"] # "tomar" /\ pcb["exit"] = p
Acabado(p) == EnExit(p) \/ Saliendo(p) \/ p \in terminados

\* A process is in one place at most (it may be in none: in a list that was destroyed).
Lugares ==
    /\ SinRepetidos(consolasReady) /\ SinRepetidos(consolasExit)
    /\ \A r \in DOMAIN recursosEnUso : SinRepetidos(recursosEnUso[r])
    /\ \A p \in Procesos :
          /\ p \in fuera => ~EnReady(p) /\ ~EnRun(p) /\ ~Acabado(p)
          /\ EnReady(p) => ~EnRun(p) /\ ~Acabado(p)
          /\ EnRun(p) => ~Acabado(p)
          /\ EnExit(p) => ~Saliendo(p) /\ p \notin terminados
          /\ Saliendo(p) => p \notin terminados
          /\ \A r \in Recursos : Bloqueado(p, r) =>
                /\ p \notin fuera /\ ~EnReady(p) /\ ~EnRun(p) /\ ~Acabado(p)
                /\ \A s \in Recursos : Bloqueado(p, s) => s = r

\* recursos_por_proceso follows the program: whoever has not ended has what it holds in its
\* list, and the last of the list is what it waits for.
Registros ==
    \A p \in Procesos :
        /\ ~Acabado(p) =>
              /\ program_counter[p] \in 1 .. Len(escenario.programas[p])
              /\ \A r \in Recursos :
                    Retenido(escenario.programas[p], program_counter[p] - 1, r) =>
                        EnLista(Registrados(p), r)
        /\ p \in fuera => program_counter[p] = 1
        /\ p \in fuera \/ p \in terminados => Registrados(p) = <<>>
        /\ \A r \in Recursos : Pidiendo(p, r) \/ Bloqueado(p, r) =>
              Registrados(p) # <<>> /\ Registrados(p)[Len(Registrados(p))] = r

\* With programs that return what they take the list is exactly what a process holds, and the
\* exit thread has nothing to release.
NadaQueLiberar ==
    TodosDisciplinados =>
        /\ pc["exit"] \in {"tomar", "siguiente"}
        /\ \A p \in Procesos :
              /\ SinRepetidos(Registrados(p))
              /\ Acabado(p) => Registrados(p) = <<>>
              /\ ~Acabado(p) => \A r \in Recursos : EnLista(Registrados(p), r) =>
                    Retenido(escenario.programas[p], program_counter[p] - 1, r)

\* The first resources of its list are those p was granted: all but the one it waits for.
Asignados(p) == IF Activo(p) THEN Len(Registrados(p)) ELSE Len(Registrados(p)) - 1
Tiene(p, r) == \E i \in 1 .. Asignados(p) : Registrados(p)[i] = r
Unico(r) == \A p \in Procesos : \A i, j \in 1 .. Asignados(p) :
                Registrados(p)[i] = r /\ Registrados(p)[j] = r => i = j
Tienen(r) == {p \in Procesos : Tiene(p, r)}

\* A thread took an instance of r from a process and has not handed it over yet.
EnTransito(t, r) ==
    /\ recurso[t] = r
    /\ pc[t] \in {"lib_clave", "lib_lista", "lib_quitar", "lib_cargar", "lib_guardar"}

\* The resources whose instances are never too many.
Seguro(r) == TodosDisciplinados \/ (TodosSenialanLoSuyo /\ escenario.instancias[r] <= 1)

\* An instance of such a resource is available, in the list of one process, or in transit; no
\* process was granted two; and neither thread writes an old value of *instancias.
CuentaDe(r) ==
    /\ recursosDisponibles[r] + Cardinality(Tienen(r))
         + Cuenta(EnTransito("run", r)) + Cuenta(EnTransito("exit", r)) <= escenario.instancias[r]
    /\ Unico(r)
    /\ pc["run"] = "wait_guardar" /\ recurso["run"] = r => leido["run"] = recursosDisponibles[r]
    /\ \A t \in Hilos : pc[t] = "lib_guardar" /\ recurso[t] = r =>
          leido[t] = recursosDisponibles[r]

Instancias == \A r \in Recursos : Seguro(r) => CuentaDe(r)

\* With programs that return what they take, the scheduler thread works alone: whoever waits
\* is in a list that is alive, and of a resource with no instance.
EnCalma ==
    /\ ~caido
    /\ \A t \in Hilos : lista[t] # "destruida"
    /\ \A r \in DOMAIN recursosEnUso :
          /\ recursosDisponibles[r] = 0
          /\ recursosEnUso[r] = <<>> =>
                pc["run"] \in {"lib_tamano", "lib_destruir"} /\ recurso["run"] = r
    /\ pc["run"] = "lib_destruir" => recursosEnUso[recurso["run"]] = <<>>
    /\ pc["run"] \in {"wait_clave", "wait_lista", "wait_agregar", "wait_nueva"} =>
          recursosDisponibles[recurso["run"]] = 0
    /\ pc["run"] \in {"wait_lista", "wait_agregar", "lib_lista", "lib_quitar"} =>
          HayClave(recurso["run"])
    /\ pc["run"] \in {"wait_cargar", "wait_guardar", "wait_nueva", "lib_cargar", "lib_guardar"} =>
          ~HayClave(recurso["run"])

\* p is somewhere.
Ubicado(p) ==
    \/ p \in fuera \/ EnReady(p) \/ EnRun(p) \/ Acabado(p)
    \/ \E r \in Recursos : Bloqueado(p, r)

Calma == TodosDisciplinados => EnCalma /\ \A p \in Procesos : Ubicado(p)
-----------------------------------------------------------------------------
(* Lists and dictionaries *)

\* list_add.
LEMMA AgregarAlFinal ==
    ASSUME NEW S, NEW s \in Seq(S), NEW e \in S
    PROVE  /\ Append(s, e) \in Seq(S) /\ Len(Append(s, e)) = Len(s) + 1
           /\ \A i \in 1 .. Len(s) : Append(s, e)[i] = s[i]
           /\ Append(s, e)[Len(s) + 1] = e
           /\ EnLista(Append(s, e), e)
           /\ \A q : EnLista(s, q) => EnLista(Append(s, e), q)
           /\ \A q : EnLista(Append(s, e), q) /\ q # e => EnLista(s, q)
           /\ SinRepetidos(s) /\ ~EnLista(s, e) => SinRepetidos(Append(s, e))
  <1> DEFINE t == Append(s, e)
  <1>1. /\ t \in Seq(S) /\ Len(t) = Len(s) + 1 /\ Len(s) \in Nat
        /\ DOMAIN t = 1 .. Len(s) + 1 /\ DOMAIN s = 1 .. Len(s)
        /\ (\A i \in 1 .. Len(s) : t[i] = s[i])
        /\ t[Len(s) + 1] = e
    BY AppendProperties, LenProperties
  <1> HIDE DEF t
  <1> QED
    BY <1>1 DEF EnLista, SinRepetidos, t

\* list_add_in_index(lista, 0).
LEMMA AgregarAlFrente ==
    ASSUME NEW S, NEW s \in Seq(S), NEW e \in S
    PROVE  /\ <<e>> \o s \in Seq(S)
           /\ EnLista(<<e>> \o s, e)
           /\ \A q : EnLista(s, q) => EnLista(<<e>> \o s, q)
           /\ \A q : EnLista(<<e>> \o s, q) /\ q # e => EnLista(s, q)
           /\ SinRepetidos(s) /\ ~EnLista(s, e) => SinRepetidos(<<e>> \o s)
  <1> DEFINE t == <<e>> \o s
  <1>1. /\ t \in Seq(S) /\ Len(t) = Len(s) + 1 /\ Len(s) \in Nat
        /\ DOMAIN t = 1 .. Len(s) + 1 /\ DOMAIN s = 1 .. Len(s)
        /\ (\A i \in 1 .. Len(s) : t[i + 1] = s[i])
        /\ t[1] = e
    BY ConcatProperties, LenProperties
  <1> HIDE DEF t
  <1>2. ASSUME NEW i \in DOMAIN t PROVE i = 1 \/ (i - 1 \in DOMAIN s /\ t[i] = s[i - 1])
    <2>1. i = 1 \/ i - 1 \in 1 .. Len(s)
      BY <1>1
    <2> QED
      BY <1>1, <2>1
  <1>3. \A q : EnLista(s, q) => EnLista(t, q)
    BY <1>1 DEF EnLista
  <1>4. \A q : EnLista(t, q) /\ q # e => EnLista(s, q)
    BY <1>1, <1>2 DEF EnLista
  <1>5. EnLista(t, e)
    BY <1>1 DEF EnLista
  <1>6. ASSUME SinRepetidos(s), ~EnLista(s, e) PROVE SinRepetidos(t)
    <2>1. ASSUME NEW i \in DOMAIN t, NEW j \in DOMAIN t, t[i] = t[j] PROVE i = j
      <3>1. i \in Nat /\ j \in Nat
        BY <1>1
      <3> QED
        BY <1>1, <1>2, <1>6, <2>1, <3>1 DEF EnLista, SinRepetidos
    <2> QED
      BY <2>1 DEF SinRepetidos
  <1> QED
    BY <1>1, <1>3, <1>4, <1>5, <1>6 DEF t

\* list_remove(lista, 0).
LEMMA QuitarElPrimero ==
    ASSUME NEW S, NEW s \in Seq(S), s # <<>>
    PROVE  /\ Head(s) \in S /\ Tail(s) \in Seq(S) /\ Len(Tail(s)) = Len(s) - 1
           /\ Len(s) \in Nat /\ Len(s) > 0
           /\ Head(s) = s[1] /\ EnLista(s, Head(s))
           /\ \A i \in 1 .. Len(s) - 1 : Tail(s)[i] = s[i + 1]
           /\ \A q : EnLista(Tail(s), q) => EnLista(s, q)
           /\ \A q : EnLista(s, q) /\ q # Head(s) => EnLista(Tail(s), q)
           /\ SinRepetidos(s) => SinRepetidos(Tail(s)) /\ ~EnLista(Tail(s), Head(s))
           /\ UnaVez(s, Head(s)) => ~EnLista(Tail(s), Head(s))
           /\ \A x : UnaVez(s, x) => UnaVez(Tail(s), x)
  <1> DEFINE t == Tail(s)
  <1>1. /\ t \in Seq(S) /\ Len(t) = Len(s) - 1 /\ Len(s) \in Nat /\ Len(s) > 0
        /\ DOMAIN t = 1 .. Len(s) - 1 /\ DOMAIN s = 1 .. Len(s)
        /\ Head(s) \in S /\ Head(s) = s[1]
        /\ (\A i \in 1 .. Len(s) - 1 : t[i] = s[i + 1])
    BY HeadTailProperties, EmptySeq, LenProperties
  <1> HIDE DEF t
  <1>2. EnLista(s, Head(s))
    BY <1>1 DEF EnLista
  <1>3. ASSUME NEW i \in DOMAIN t PROVE i + 1 \in DOMAIN s /\ t[i] = s[i + 1] /\ i \in Nat
    BY <1>1
  <1>4. \A q : EnLista(t, q) => EnLista(s, q)
    BY <1>3 DEF EnLista
  <1>5. ASSUME NEW q, EnLista(s, q), q # Head(s) PROVE EnLista(t, q)
    <2>1. PICK i \in 1 .. Len(s) : s[i] = q
      BY <1>1, <1>5 DEF EnLista
    <2>2. i # 1
      BY <1>1, <1>5, <2>1
    <2>3. i - 1 \in 1 .. Len(s) - 1 /\ (i - 1) + 1 = i
      BY <1>1, <2>2
    <2>4. t[i - 1] = q
      BY <1>1, <2>1, <2>3
    <2> QED
      BY <1>1, <2>3, <2>4 DEF EnLista
  <1>6. ASSUME SinRepetidos(s) PROVE SinRepetidos(t) /\ ~EnLista(t, Head(s))
    <2>1. ASSUME NEW i \in DOMAIN t, NEW j \in DOMAIN t, t[i] = t[j] PROVE i = j
      <3>1. i + 1 = j + 1
        BY <1>3, <1>6, <2>1 DEF SinRepetidos
      <3> QED
        BY <1>3, <3>1
    <2>2. ASSUME NEW i \in DOMAIN t, t[i] = Head(s) PROVE FALSE
      <3>1. i + 1 = 1
        BY <1>1, <1>3, <1>6, <2>2 DEF SinRepetidos
      <3> QED
        BY <1>3, <3>1
    <2> QED
      BY <2>1, <2>2 DEF SinRepetidos, EnLista
  <1>7. ASSUME UnaVez(s, Head(s)), NEW i \in DOMAIN t, t[i] = Head(s) PROVE FALSE
    <2>1. i + 1 = 1
      BY <1>1, <1>3, <1>7 DEF UnaVez
    <2> QED
      BY <1>3, <2>1
  <1>8. ASSUME NEW x, UnaVez(s, x), NEW i \in DOMAIN t, NEW j \in DOMAIN t, t[i] = x, t[j] = x
        PROVE  i = j
    <2>1. i + 1 = j + 1
      BY <1>3, <1>8 DEF UnaVez
    <2> QED
      BY <1>3, <2>1
  <1>9. UnaVez(s, Head(s)) => ~EnLista(t, Head(s))
    BY <1>7 DEF EnLista
  <1>10. \A x : UnaVez(s, x) => UnaVez(t, x)
    BY <1>8 DEF UnaVez
  <1> QED
    BY <1>1, <1>2, <1>4, <1>5, <1>6, <1>9, <1>10 DEF t

\* The least of a set of numbers.
LEMMA HayMinimo ==
    ASSUME NEW S \in SUBSET Nat, S # {}
    PROVE  Min(S) \in S /\ \A x \in S : Min(S) <= x
  <1> DEFINE R == OpToRel(<, Nat)
  <1>1. IsWellFoundedOn(R, Nat)
    BY NatLessThanWellFounded
  <1>2. \A x, y \in Nat : <<y, x>> \in R <=> y < x
    BY DEF OpToRel
  <1> HIDE DEF R
  <1>3. \E x \in S : \A y \in S : ~ (<<y, x>> \in R)
    BY <1>1, WFMin
  <1>4. \E x \in S : \A y \in S : x =< y
    <2>1. PICK x \in S : \A y \in S : ~ (<<y, x>> \in R)
      BY <1>3
    <2>2. ASSUME NEW y \in S PROVE x =< y
      <3>1. x \in Nat /\ y \in Nat /\ ~ (<<y, x>> \in R)
        BY <2>1
      <3>2. ~ (y < x)
        BY <1>2, <3>1
      <3> QED
        BY <3>1, <3>2
    <2> QED
      BY <2>2
  <1> QED
    BY <1>4 DEF Min

\* list_remove_element(lista, list_find(lista, r)): the first r of the list, if there is one.
LEMMA QuitarUno ==
    ASSUME NEW S, NEW s \in Seq(S), NEW r
    PROVE  /\ RemoveFirst(s, r) \in Seq(S)
           /\ \A q : EnLista(RemoveFirst(s, r), q) => EnLista(s, q)
           /\ \A q : EnLista(s, q) /\ q # r => EnLista(RemoveFirst(s, r), q)
           /\ SinRepetidos(s) => SinRepetidos(RemoveFirst(s, r))
           /\ UnaVez(s, r) => ~EnLista(RemoveFirst(s, r), r)
           /\ \A x : UnaVez(s, x) => UnaVez(RemoveFirst(s, r), x)
  <1> DEFINE t == RemoveFirst(s, r)
  <1>1. Len(s) \in Nat /\ DOMAIN s = 1 .. Len(s)
    BY LenProperties
  <1>2. CASE ~ \E i \in 1 .. Len(s) : s[i] = r
    BY <1>1, <1>2 DEF RemoveFirst, EnLista
  <1>3. CASE \E i \in 1 .. Len(s) : s[i] = r
    <2>1. PICK k : k = SelectInSeq(s, LAMBDA v : v = r)
      OBVIOUS
    <2>2. k \in 1 .. Len(s) /\ s[k] = r
      <3>1. PICK I : I = {i \in 1 .. Len(s) : s[i] = r}
        OBVIOUS
      <3>2. I \in SUBSET Nat /\ I # {}
        BY <1>1, <1>3, <3>1
      <3>3. k = Min(I)
        BY <2>1, <3>1, <3>2 DEF SelectInSeq
      <3>4. k \in I
        BY <3>2, <3>3, HayMinimo
      <3> QED
        BY <3>1, <3>4
    <2>3. t = SubSeq(s, 1, k - 1) \o SubSeq(s, k + 1, Len(s))
      BY <1>3, <2>1 DEF RemoveFirst, RemoveAt
    <2>4. PICK a : a = SubSeq(s, 1, k - 1)
      OBVIOUS
    <2>5. PICK b : b = SubSeq(s, k + 1, Len(s))
      OBVIOUS
    <2>6. k - 1 \in Int /\ k + 1 \in Int /\ Len(s) \in Int /\ k \in Nat
      BY <1>1, <2>2
    <2>7. a \in Seq(S) /\ Len(a) = k - 1 /\ \A i \in 1 .. k - 1 : a[i] = s[i]
      BY <1>1, <2>2, <2>4, <2>6, SubSeqProperties
    <2>8. b \in Seq(S) /\ Len(b) = Len(s) - k /\ \A i \in 1 .. Len(s) - k : b[i] = s[i + k]
      <3>1. \A i \in k + 1 .. Len(s) : s[i] \in S
        BY <1>1, <2>2, <2>6
      <3> DEFINE m == k + 1
                 n == Len(s)
      <3>2. /\ b \in Seq(S)
            /\ Len(b) = IF m <= n THEN n - m + 1 ELSE 0
            /\ \A i \in 1 .. n - m + 1 : b[i] = s[m + i - 1]
        <4>1. m \in Int /\ n \in Int /\ (\A i \in m .. n : s[i] \in S) /\ b = SubSeq(s, m, n)
          BY <2>5, <2>6, <3>1
        <4> HIDE DEF m, n
        <4>2. /\ SubSeq(s, m, n) \in Seq(S)
              /\ Len(SubSeq(s, m, n)) = IF m <= n THEN n - m + 1 ELSE 0
              /\ \A i \in 1 .. n - m + 1 : SubSeq(s, m, n)[i] = s[m + i - 1]
          BY <4>1, SubSeqProperties
        <4>3. b \in Seq(S) /\ Len(b) = IF m <= n THEN n - m + 1 ELSE 0
          BY <4>1, <4>2
        <4>4. \A i \in 1 .. n - m + 1 : b[i] = s[m + i - 1]
          BY <4>1, <4>2
        <4> QED
          BY <4>3, <4>4
      <3>3. Len(b) = Len(s) - k
        <4>1. Len(b) = IF m <= n THEN n - m + 1 ELSE 0
          BY <3>2
        <4>2. k \in Int /\ Len(s) \in Int /\ k <= Len(s)
          BY <1>1, <2>2, <2>6
        <4>3. m <= n => n - m + 1 = Len(s) - k
          BY <4>2
        <4>4. ~(m <= n) => 0 = Len(s) - k
          BY <4>2
        <4> HIDE DEF m, n
        <4> QED
          BY <4>1, <4>3, <4>4
      <3>4. ASSUME NEW i \in 1 .. Len(s) - k PROVE b[i] = s[i + k]
        <4>1. i \in 1 .. n - m + 1 /\ m + i - 1 = i + k
          BY <2>6
        <4> QED
          BY <3>2, <4>1
      <3> QED
        BY <3>2, <3>3, <3>4
    <2>9. /\ t \in Seq(S) /\ Len(t) = Len(s) - 1
          /\ \A i \in 1 .. k - 1 : t[i] = s[i]
          /\ \A i \in k .. Len(s) - 1 : t[i] = s[i + 1]
      <3>1. t = a \o b
        BY <2>3, <2>4, <2>5
      <3>2. /\ t \in Seq(S) /\ Len(t) = Len(a) + Len(b)
            /\ \A i \in 1 .. Len(a) + Len(b) :
                  t[i] = IF i <= Len(a) THEN a[i] ELSE b[i - Len(a)]
        <4>1. /\ a \o b \in Seq(S) /\ Len(a \o b) = Len(a) + Len(b)
              /\ \A i \in 1 .. Len(a) + Len(b) :
                    (a \o b)[i] = IF i <= Len(a) THEN a[i] ELSE b[i - Len(a)]
          BY <2>7, <2>8, ConcatProperties
        <4> HIDE DEF t
        <4> QED
          BY <3>1, <4>1
      <3> HIDE DEF t
      <3>3. ASSUME NEW i \in 1 .. k - 1 PROVE t[i] = s[i]
        <4>1. i \in 1 .. Len(a) + Len(b) /\ i <= Len(a)
          BY <1>1, <2>2, <2>6, <2>7, <2>8
        <4> QED
          BY <4>1, <2>7, <3>2
      <3>4. ASSUME NEW i \in k .. Len(s) - 1 PROVE t[i] = s[i + 1]
        <4>1. i \in 1 .. Len(a) + Len(b) /\ ~(i <= Len(a)) /\ i - Len(a) = i - k + 1
              /\ i - k + 1 \in 1 .. Len(s) - k /\ i - k + 1 + k = i + 1
          BY <1>1, <2>2, <2>6, <2>7, <2>8
        <4>2. t[i] = b[i - k + 1]
          BY <4>1, <3>2
        <4> QED
          BY <4>1, <4>2, <2>8
      <3> QED
        BY <1>1, <2>2, <2>6, <2>7, <2>8, <3>2, <3>3, <3>4
    <2> HIDE DEF t
    <2>10. DOMAIN t = 1 .. Len(s) - 1
      BY <2>9, LenProperties
    <2>11. ASSUME NEW i \in DOMAIN t
           PROVE  /\ i \in Nat /\ (i < k \/ i >= k)
                  /\ i < k => i \in DOMAIN s /\ t[i] = s[i]
                  /\ i >= k => i + 1 \in DOMAIN s /\ t[i] = s[i + 1]
      <3>1. PICK n : n = Len(s)
        OBVIOUS
      <3>2. n \in Nat /\ DOMAIN s = 1 .. n /\ i \in 1 .. n - 1 /\ k \in 1 .. n
        BY <1>1, <2>2, <2>6, <2>10, <3>1
      <3>3. /\ i \in Nat /\ (i < k \/ i >= k) /\ i \in 1 .. n /\ i + 1 \in 1 .. n
            /\ i < k => i \in 1 .. k - 1
            /\ i >= k => i \in k .. n - 1
        BY <3>2
      <3> QED
        BY <2>9, <3>1, <3>2, <3>3
    <2>12. \A q : EnLista(t, q) => EnLista(s, q)
      BY <2>11 DEF EnLista
    <2>13. ASSUME NEW q, EnLista(s, q), q # r PROVE EnLista(t, q)
      <3>1. PICK i \in 1 .. Len(s) : s[i] = q
        BY <1>1, <2>13 DEF EnLista
      <3>2. i # k
        BY <2>2, <2>13, <3>1
      <3>3. CASE i < k
        <4>1. i \in 1 .. k - 1 /\ i \in DOMAIN t
          BY <1>1, <2>2, <2>6, <2>10, <3>1, <3>3
        <4> QED
          BY <4>1, <2>9, <3>1 DEF EnLista
      <3>4. CASE i > k
        <4>1. i - 1 \in k .. Len(s) - 1 /\ i - 1 \in DOMAIN t /\ (i - 1) + 1 = i
          BY <1>1, <2>2, <2>6, <2>10, <3>1, <3>4
        <4> QED
          BY <4>1, <2>9, <3>1 DEF EnLista
      <3> QED
        BY <2>6, <3>1, <3>2, <3>3, <3>4
    <2>14. ASSUME NEW i \in DOMAIN t, NEW j \in DOMAIN t, t[i] = t[j], UnaVez(s, t[i])
           PROVE  i = j
      <3>1. \A x, y \in DOMAIN s : s[x] = t[i] /\ s[y] = t[i] => x = y
        BY <2>14 DEF UnaVez
      <3>2. CASE i < k /\ j < k
        BY <2>11, <2>14, <3>1, <3>2
      <3>3. CASE i >= k /\ j >= k
        <4>1. i + 1 = j + 1
          BY <2>11, <2>14, <3>1, <3>3
        <4> QED
          BY <2>11, <4>1
      <3>4. CASE i < k /\ j >= k
        <4>1. i = j + 1
          BY <2>11, <2>14, <3>1, <3>4
        <4> QED
          BY <2>6, <2>11, <3>4, <4>1
      <3>5. CASE i >= k /\ j < k
        <4>1. i + 1 = j
          BY <2>11, <2>14, <3>1, <3>5
        <4> QED
          BY <2>6, <2>11, <3>5, <4>1
      <3> QED
        BY <2>11, <3>2, <3>3, <3>4, <3>5
    <2>15. ASSUME UnaVez(s, r), EnLista(t, r) PROVE FALSE
      <3>1. \A x, y \in DOMAIN s : s[x] = r /\ s[y] = r => x = y
        BY <2>15 DEF UnaVez
      <3>2. PICK i \in DOMAIN t : t[i] = r
        BY <2>15 DEF EnLista
      <3>3. i < k => i = k
        BY <1>1, <2>2, <2>11, <3>1, <3>2
      <3>4. i >= k => i + 1 = k
        BY <1>1, <2>2, <2>11, <3>1, <3>2
      <3> QED
        BY <2>6, <2>11, <3>2, <3>3, <3>4
    <2>16. SinRepetidos(s) => SinRepetidos(t)
      <3>1. SinRepetidos(s) => \A x : UnaVez(s, x)
        BY DEF SinRepetidos, UnaVez
      <3> QED
        BY <2>14, <3>1 DEF SinRepetidos
    <2>17. \A x : UnaVez(s, x) => UnaVez(t, x)
      BY <2>14 DEF UnaVez
    <2> QED
      BY <2>9, <2>12, <2>13, <2>15, <2>16, <2>17 DEF t
  <1> QED
    BY <1>2, <1>3
-----------------------------------------------------------------------------
(* Types, and what each thread has at hand *)

Tipado == TypeOK /\ Manos /\ VistoSigueAhi

\* The programs and the number of instances do not change.
LEMMA MismoEscenario == [Next]_vars => escenario' = escenario
  BY DEF Next, vars, Admitir, HiloRun, HiloExit, Wait, Liberar, Despachar, RunYield, RunExit,
         RunWait, WaitLeer, WaitCargar, WaitGuardar, WaitClave, WaitLista, WaitAgregar,
         WaitNueva, RunSignal, RunSignalSinWait, LibClave, LibLista, LibQuitar, LibTamano,
         LibDestruir, LibCae, LibCargar, LibGuardar, ExitTomar, ExitLiberarUno, ExitTerminar, Cae

LEMMA TipadoAlInicio == Init => Tipado
  <1> SUFFICES ASSUME Init PROVE Tipado
    OBVIOUS
  <1>1. escenario.instancias \in [Recursos -> Nat]
    BY RecursosAssumption DEF Init
  <1>2. <<>> \in Seq(Procesos) /\ DOMAIN <<>> = {}
    OBVIOUS
  <1> QED
    BY <1>1, <1>2 DEF Init, Tipado, TypeOK, Manos, VistoSigueAhi, Hilos, NINGUNO, INEXISTENTE,
                      PasosWait, PasosLib

LEMMA TipadoEnUnPaso == Tipado /\ [Next]_vars => Tipado'
  <1> SUFFICES ASSUME Tipado, [Next]_vars PROVE Tipado'
    OBVIOUS
  <1> USE DEF Hilos, PasosWait, PasosLib, Va, Cae, colas, dicts, locales, Retorna, ElRecurso,
              HayClave,
              TrasLiberar, dictionary_put, Registrados

  <1>1. ASSUME NEW p \in Procesos, Admitir(p) PROVE Tipado'
    <2>1. TypeOK'
      BY <1>1, AgregarAlFinal DEF Admitir, Tipado, TypeOK, Manos, VistoSigueAhi
    <2>2. Manos'
      BY <1>1, AgregarAlFinal DEF Admitir, Tipado, TypeOK, Manos
    <2>3. VistoSigueAhi'
      BY <1>1 DEF Admitir, Tipado, TypeOK, Manos, VistoSigueAhi
    <2> QED
      BY <2>1, <2>2, <2>3 DEF Tipado
  <1>2. ASSUME Despachar PROVE Tipado'
    <2>1. TypeOK'
      BY <1>2, QuitarElPrimero DEF Despachar, Tipado, TypeOK, Manos, VistoSigueAhi
    <2>2. Manos'
      BY <1>2, QuitarElPrimero DEF Despachar, Tipado, TypeOK, Manos
    <2>3. VistoSigueAhi'
      BY <1>2 DEF Despachar, Tipado, TypeOK, Manos, VistoSigueAhi
    <2> QED
      BY <2>1, <2>2, <2>3 DEF Tipado
  <1>3. ASSUME RunYield PROVE Tipado'
    <2>1. TypeOK'
      BY <1>3, AgregarAlFinal DEF RunYield, Tipado, TypeOK, Manos, VistoSigueAhi
    <2>2. Manos'
      BY <1>3, AgregarAlFinal DEF RunYield, Tipado, TypeOK, Manos
    <2>3. VistoSigueAhi'
      BY <1>3 DEF RunYield, Tipado, TypeOK, Manos, VistoSigueAhi
    <2> QED
      BY <2>1, <2>2, <2>3 DEF Tipado
  <1>4. ASSUME RunExit PROVE Tipado'
    <2>1. TypeOK'
      BY <1>4, AgregarAlFinal DEF RunExit, Tipado, TypeOK, Manos, VistoSigueAhi
    <2>2. Manos'
      BY <1>4, AgregarAlFinal DEF RunExit, Tipado, TypeOK, Manos
    <2>3. VistoSigueAhi'
      BY <1>4 DEF RunExit, Tipado, TypeOK, Manos, VistoSigueAhi
    <2> QED
      BY <2>1, <2>2, <2>3 DEF Tipado
  <1>5. ASSUME RunWait PROVE Tipado'
    <2>1. TypeOK'
      BY <1>5, AgregarAlFinal DEF RunWait, Tipado, TypeOK, Manos, VistoSigueAhi
    <2>2. Manos'
      BY <1>5, AgregarAlFinal DEF RunWait, Tipado, TypeOK, Manos
    <2>3. VistoSigueAhi'
      BY <1>5 DEF RunWait, Tipado, TypeOK, Manos, VistoSigueAhi
    <2> QED
      BY <2>1, <2>2, <2>3 DEF Tipado
  <1>6. ASSUME WaitLeer PROVE Tipado'
    <2>1. TypeOK'
      BY <1>6 DEF WaitLeer, Tipado, TypeOK, Manos, VistoSigueAhi
    <2>2. Manos'
      BY <1>6 DEF WaitLeer, Tipado, TypeOK, Manos
    <2>3. VistoSigueAhi'
      BY <1>6 DEF WaitLeer, Tipado, TypeOK, Manos, VistoSigueAhi
    <2> QED
      BY <2>1, <2>2, <2>3 DEF Tipado
  <1>7. ASSUME WaitCargar PROVE Tipado'
    <2>1. TypeOK'
      BY <1>7 DEF WaitCargar, Tipado, TypeOK, Manos, VistoSigueAhi
    <2>2. Manos'
      BY <1>7 DEF WaitCargar, Tipado, TypeOK, Manos
    <2>3. VistoSigueAhi'
      BY <1>7 DEF WaitCargar, Tipado, TypeOK, Manos, VistoSigueAhi
    <2> QED
      BY <2>1, <2>2, <2>3 DEF Tipado
  <1>8. ASSUME WaitGuardar PROVE Tipado'
    <2>1. TypeOK'
      BY <1>8, AgregarAlFrente DEF WaitGuardar, Tipado, TypeOK, Manos, VistoSigueAhi
    <2>2. Manos'
      BY <1>8, AgregarAlFrente DEF WaitGuardar, Tipado, TypeOK, Manos
    <2>3. VistoSigueAhi'
      BY <1>8 DEF WaitGuardar, Tipado, TypeOK, Manos, VistoSigueAhi
    <2> QED
      BY <2>1, <2>2, <2>3 DEF Tipado
  <1>9. ASSUME WaitClave PROVE Tipado'
    <2>1. TypeOK'
      BY <1>9 DEF WaitClave, Tipado, TypeOK, Manos, VistoSigueAhi
    <2>2. Manos'
      BY <1>9 DEF WaitClave, Tipado, TypeOK, Manos
    <2>3. VistoSigueAhi'
      BY <1>9 DEF WaitClave, Tipado, TypeOK, Manos, VistoSigueAhi
    <2> QED
      BY <2>1, <2>2, <2>3 DEF Tipado
  <1>10. ASSUME WaitLista PROVE Tipado'
    <2>1. TypeOK'
      BY <1>10 DEF WaitLista, Tipado, TypeOK, Manos, VistoSigueAhi
    <2>2. Manos'
      BY <1>10 DEF WaitLista, Tipado, TypeOK, Manos
    <2>3. VistoSigueAhi'
      BY <1>10 DEF WaitLista, Tipado, TypeOK, Manos, VistoSigueAhi
    <2> QED
      BY <2>1, <2>2, <2>3 DEF Tipado
  <1>11. ASSUME WaitAgregar PROVE Tipado'
    <2>1. TypeOK'
      <3>1. CASE Cae
        BY <1>11, <3>1 DEF Tipado, TypeOK
      <3>2. CASE ~Cae
        <4>1. PICK r : r = recurso["run"]
          OBVIOUS
        <4>2. r \in DOMAIN recursosEnUso /\ pcb["run"] \in Procesos
              /\ recursosEnUso[r] \in Seq(Procesos)
          BY <1>11, <3>2, <4>1 DEF WaitAgregar, Tipado, TypeOK, Manos
        <4>3. Append(recursosEnUso[r], pcb["run"]) \in Seq(Procesos)
          BY <4>2, AgregarAlFinal
        <4>4. recursosEnUso' = [recursosEnUso EXCEPT ![r] = Append(@, pcb["run"])]
          BY <1>11, <3>2, <4>1 DEF WaitAgregar
        <4>5. DOMAIN recursosEnUso' = DOMAIN recursosEnUso
              /\ \A s \in DOMAIN recursosEnUso' : recursosEnUso'[s] \in Seq(Procesos)
          BY <4>2, <4>3, <4>4 DEF Tipado, TypeOK
        <4> QED
          BY <1>11, <3>2, <4>5 DEF WaitAgregar, Tipado, TypeOK
      <3> QED
        BY <3>1, <3>2
    <2>2. Manos'
      BY <1>11, AgregarAlFinal DEF WaitAgregar, Tipado, TypeOK, Manos
    <2>3. VistoSigueAhi'
      BY <1>11 DEF WaitAgregar, Tipado, TypeOK, Manos, VistoSigueAhi
    <2> QED
      BY <2>1, <2>2, <2>3 DEF Tipado
  <1>12. ASSUME WaitNueva PROVE Tipado'
    <2>1. TypeOK'
      BY <1>12 DEF WaitNueva, Tipado, TypeOK, Manos, VistoSigueAhi
    <2>2. Manos'
      BY <1>12 DEF WaitNueva, Tipado, TypeOK, Manos
    <2>3. VistoSigueAhi'
      BY <1>12 DEF WaitNueva, Tipado, TypeOK, Manos, VistoSigueAhi
    <2> QED
      BY <2>1, <2>2, <2>3 DEF Tipado
  <1>13. ASSUME RunSignal PROVE Tipado'
    <2>1. TypeOK'
      <3>1. PICK p, r : p = pcb["run"] /\ r = Instruccion(p).recurso
        OBVIOUS
      <3>2. p \in Procesos /\ consolasReady' \in Seq(Procesos)
        BY <1>13, <3>1, AgregarAlFrente DEF RunSignal, Tipado, TypeOK, Manos
      <3>3. /\ DOMAIN recursos_por_proceso' \subseteq Procesos
            /\ \A q \in DOMAIN recursos_por_proceso' : recursos_por_proceso'[q] \in Seq(Recursos)
        BY <1>13, <3>1, QuitarUno DEF RunSignal, Tipado, TypeOK
      <3>4. /\ program_counter' \in [Procesos -> Nat]
            /\ recurso' \in [Hilos -> Recursos \cup {INEXISTENTE}]
        BY <1>13 DEF RunSignal, Tipado, TypeOK
      <3> QED
        BY <1>13, <3>2, <3>3, <3>4 DEF RunSignal, Tipado, TypeOK
    <2>2. Manos'
      BY <1>13, AgregarAlFrente, QuitarUno DEF RunSignal, Tipado, TypeOK, Manos
    <2>3. VistoSigueAhi'
      BY <1>13 DEF RunSignal, Tipado, TypeOK, Manos, VistoSigueAhi
    <2> QED
      BY <2>1, <2>2, <2>3 DEF Tipado
  <1>14. ASSUME RunSignalSinWait PROVE Tipado'
    <2>1. TypeOK'
      BY <1>14 DEF RunSignalSinWait, Tipado, TypeOK, Manos, VistoSigueAhi
    <2>2. Manos'
      BY <1>14 DEF RunSignalSinWait, Tipado, TypeOK, Manos
    <2>3. VistoSigueAhi'
      BY <1>14 DEF RunSignalSinWait, Tipado, TypeOK, Manos, VistoSigueAhi
    <2> QED
      BY <2>1, <2>2, <2>3 DEF Tipado
  <1>15. ASSUME ExitTomar PROVE Tipado'
    <2>1. TypeOK'
      BY <1>15, QuitarElPrimero DEF ExitTomar, Tipado, TypeOK, Manos, VistoSigueAhi
    <2>2. Manos'
      BY <1>15, QuitarElPrimero DEF ExitTomar, Tipado, TypeOK, Manos
    <2>3. VistoSigueAhi'
      BY <1>15 DEF ExitTomar, Tipado, TypeOK, Manos, VistoSigueAhi
    <2> QED
      BY <2>1, <2>2, <2>3 DEF Tipado
  <1>16. ASSUME ExitLiberarUno PROVE Tipado'
    <2>1. TypeOK'
      BY <1>16, QuitarElPrimero DEF ExitLiberarUno, Tipado, TypeOK, Manos, VistoSigueAhi
    <2>2. Manos'
      BY <1>16, QuitarElPrimero DEF ExitLiberarUno, Tipado, TypeOK, Manos
    <2>3. VistoSigueAhi'
      BY <1>16 DEF ExitLiberarUno, Tipado, TypeOK, Manos, VistoSigueAhi
    <2> QED
      BY <2>1, <2>2, <2>3 DEF Tipado
  <1>17. ASSUME ExitTerminar PROVE Tipado'
    <2>1. TypeOK'
      BY <1>17 DEF ExitTerminar, Tipado, TypeOK, Manos, VistoSigueAhi
    <2>2. Manos'
      BY <1>17 DEF ExitTerminar, Tipado, TypeOK, Manos
    <2>3. VistoSigueAhi'
      BY <1>17 DEF ExitTerminar, Tipado, TypeOK, Manos, VistoSigueAhi
    <2> QED
      BY <2>1, <2>2, <2>3 DEF Tipado
  <1>18. ASSUME NEW t \in Hilos, LibClave(t) PROVE Tipado'
    <2>1. TypeOK'
      BY <1>18 DEF LibClave, Tipado, TypeOK, Manos, VistoSigueAhi
    <2>2. Manos'
      BY <1>18 DEF LibClave, Tipado, TypeOK, Manos
    <2>3. VistoSigueAhi'
      BY <1>18 DEF LibClave, Tipado, TypeOK, Manos, VistoSigueAhi
    <2> QED
      BY <2>1, <2>2, <2>3 DEF Tipado
  <1>19. ASSUME NEW t \in Hilos, LibLista(t) PROVE Tipado'
    <2>1. TypeOK'
      BY <1>19 DEF LibLista, Tipado, TypeOK, Manos, VistoSigueAhi
    <2>2. Manos'
      BY <1>19 DEF LibLista, Tipado, TypeOK, Manos
    <2>3. VistoSigueAhi'
      BY <1>19 DEF LibLista, Tipado, TypeOK, Manos, VistoSigueAhi
    <2> QED
      BY <2>1, <2>2, <2>3 DEF Tipado
  <1>20. ASSUME NEW t \in Hilos, LibQuitar(t) PROVE Tipado'
    <2>1. TypeOK'
      BY <1>20, QuitarElPrimero, AgregarAlFinal DEF LibQuitar, Tipado, TypeOK, Manos, VistoSigueAhi
    <2>2. Manos'
      BY <1>20, QuitarElPrimero, AgregarAlFinal DEF LibQuitar, Tipado, TypeOK, Manos
    <2>3. VistoSigueAhi'
      BY <1>20 DEF LibQuitar, Tipado, TypeOK, Manos, VistoSigueAhi
    <2> QED
      BY <2>1, <2>2, <2>3 DEF Tipado
  <1>21. ASSUME NEW t \in Hilos, LibTamano(t) PROVE Tipado'
    <2>1. TypeOK'
      BY <1>21 DEF LibTamano, Tipado, TypeOK, Manos, VistoSigueAhi
    <2>2. Manos'
      BY <1>21 DEF LibTamano, Tipado, TypeOK, Manos
    <2>3. VistoSigueAhi'
      BY <1>21 DEF LibTamano, Tipado, TypeOK, Manos, VistoSigueAhi
    <2> QED
      BY <2>1, <2>2, <2>3 DEF Tipado
  <1>22. ASSUME NEW t \in Hilos, LibDestruir(t) PROVE Tipado'
    <2>1. TypeOK'
      BY <1>22 DEF LibDestruir, Tipado, TypeOK, Manos, VistoSigueAhi
    <2>2. Manos'
      BY <1>22 DEF LibDestruir, Tipado, TypeOK, Manos
    <2>3. VistoSigueAhi'
      BY <1>22 DEF LibDestruir, Tipado, TypeOK, Manos, VistoSigueAhi
    <2> QED
      BY <2>1, <2>2, <2>3 DEF Tipado
  <1>23. ASSUME NEW t \in Hilos, LibCae(t) PROVE Tipado'
    <2>1. TypeOK'
      BY <1>23 DEF LibCae, Tipado, TypeOK, Manos, VistoSigueAhi
    <2>2. Manos'
      BY <1>23 DEF LibCae, Tipado, TypeOK, Manos
    <2>3. VistoSigueAhi'
      BY <1>23 DEF LibCae, Tipado, TypeOK, Manos, VistoSigueAhi
    <2> QED
      BY <2>1, <2>2, <2>3 DEF Tipado
  <1>24. ASSUME NEW t \in Hilos, LibCargar(t) PROVE Tipado'
    <2>1. TypeOK'
      BY <1>24 DEF LibCargar, Tipado, TypeOK, Manos, VistoSigueAhi
    <2>2. Manos'
      BY <1>24 DEF LibCargar, Tipado, TypeOK, Manos
    <2>3. VistoSigueAhi'
      BY <1>24 DEF LibCargar, Tipado, TypeOK, Manos, VistoSigueAhi
    <2> QED
      BY <2>1, <2>2, <2>3 DEF Tipado
  <1>25. ASSUME NEW t \in Hilos, LibGuardar(t) PROVE Tipado'
    <2>1. TypeOK'
      BY <1>25 DEF LibGuardar, Tipado, TypeOK, Manos, VistoSigueAhi
    <2>2. Manos'
      BY <1>25 DEF LibGuardar, Tipado, TypeOK, Manos
    <2>3. VistoSigueAhi'
      BY <1>25 DEF LibGuardar, Tipado, TypeOK, Manos, VistoSigueAhi
    <2> QED
      BY <2>1, <2>2, <2>3 DEF Tipado
  <1>26. CASE UNCHANGED vars
    BY <1>26 DEF vars, Tipado, TypeOK, Manos, VistoSigueAhi
  <1> QED
    BY <1>1, <1>2, <1>3, <1>4, <1>5, <1>6, <1>7, <1>8, <1>9, <1>10, <1>11, <1>12, <1>13, <1>14,
       <1>15, <1>16, <1>17, <1>18, <1>19, <1>20, <1>21, <1>22, <1>23, <1>24, <1>25, <1>26
       DEF Next, HiloRun, HiloExit, Wait, Liberar

LEMMA SiempreTipado == Spec => []Tipado
  BY TipadoAlInicio, TipadoEnUnPaso, PTL DEF Spec

\* Every variable of the resources keeps its type (kernel.h 314-435, 1192-1210): no instance
\* count goes below zero, however the two threads interleave on it.
THEOREM Tipos == Spec => []TypeOK
  <1>1. Tipado => TypeOK
    BY DEF Tipado
  <1> QED
    BY <1>1, SiempreTipado, PTL
-----------------------------------------------------------------------------
(* A process is in one place at most *)

LEMMA LugaresAlInicio == Init => Lugares
  <1> SUFFICES ASSUME Init PROVE Lugares
    OBVIOUS
  <1>1. DOMAIN <<>> = {}
    OBVIOUS
  <1> QED
    BY <1>1 DEF Init, Lugares, SinRepetidos, EnLista, EnReady, EnExit, EnRun, Saliendo, Acabado,
                Bloqueado, HayClave, Hilos, PasosWait

\* The steps that move nobody.
LEMMA NadieSeMueve ==
    ASSUME Lugares,
           UNCHANGED <<fuera, terminados, consolasReady, consolasExit, recursosEnUso, pcb>>,
           pc'["exit"] = "tomar" <=> pc["exit"] = "tomar",
           pc'["run"] \in {"cpu"} \cup PasosWait <=> pc["run"] \in {"cpu"} \cup PasosWait
    PROVE  Lugares'
  BY DEF Lugares, EnReady, EnExit, EnRun, Saliendo, Acabado, Bloqueado, HayClave

LEMMA LugaresEnUnPaso == Tipado /\ Lugares /\ [Next]_vars => Lugares'
  <1> SUFFICES ASSUME Tipado, Lugares, [Next]_vars PROVE Lugares'
    OBVIOUS
  <1> USE DEF Hilos, Va, Cae, colas, dicts, locales, Retorna, ElRecurso, HayClave, TrasLiberar,
              dictionary_put
  <1>a. /\ consolasReady \in Seq(Procesos) /\ consolasExit \in Seq(Procesos)
        /\ SinRepetidos(consolasReady) /\ SinRepetidos(consolasExit)
    BY DEF Tipado, TypeOK, Lugares
  <1>b. /\ DOMAIN pc = Hilos /\ DOMAIN pcb = Hilos
        /\ pc["run"] # "siguiente" /\ pc["exit"] \notin {"cpu"} \cup PasosWait
        /\ \A t \in Hilos : pc[t] # "tomar" => pcb[t] \in Procesos
        /\ \A t \in Hilos : pc[t] \in PasosWait \cup PasosLib => recurso[t] \in Recursos
        /\ \A t \in Hilos : lista[t] = "viva" => recurso[t] \in DOMAIN recursosEnUso
    BY DEF Tipado, TypeOK, Manos
  <1>c. \A r \in DOMAIN recursosEnUso :
           r \in Recursos /\ recursosEnUso[r] \in Seq(Procesos) /\ SinRepetidos(recursosEnUso[r])
    BY DEF Tipado, TypeOK, Lugares
  <1>1. ASSUME NEW p \in Procesos, Admitir(p) PROVE Lugares'
    <2>1. /\ p \in fuera /\ ~EnLista(consolasReady, p)
          /\ UNCHANGED <<terminados, consolasExit, recursosEnUso, pc, pcb>> /\ fuera' = fuera \ {p}
          /\ consolasReady' = Append(consolasReady, p)
      BY <1>1 DEF Admitir, Lugares, EnReady
    <2>2. /\ SinRepetidos(consolasReady')
          /\ \A q : EnLista(consolasReady', q) /\ q # p => EnLista(consolasReady, q)
      BY <1>a, <2>1, AgregarAlFinal
    <2> QED
      BY <1>1, <2>1, <2>2 DEF Lugares, EnReady, EnExit, EnRun, Saliendo, Acabado, Bloqueado
  <1>2. ASSUME Despachar PROVE Lugares'
    <2>1. PICK h : h = Head(consolasReady)
      OBVIOUS
    <2>2. /\ SinRepetidos(consolasReady') /\ ~EnLista(consolasReady', h)
          /\ EnLista(consolasReady, h) /\ h \in Procesos
          /\ \A q : EnLista(consolasReady', q) => EnLista(consolasReady, q)
      BY <1>2, <1>a, <2>1, QuitarElPrimero DEF Despachar
    <2>3. /\ UNCHANGED <<fuera, terminados, consolasExit, recursosEnUso>>
          /\ pcb'["run"] = h /\ pcb'["exit"] = pcb["exit"] /\ pc'["exit"] = pc["exit"]
          /\ pc["run"] = "tomar"
      BY <1>2, <1>b, <2>1 DEF Despachar
    <2> QED
      BY <1>a, <2>2, <2>3 DEF Lugares, EnReady, EnExit, EnRun, Saliendo, Acabado, Bloqueado,
                              PasosWait
  <1>3. ASSUME RunYield PROVE Lugares'
    <2>1. PICK p : p = pcb["run"]
      OBVIOUS
    <2>2. /\ UNCHANGED <<fuera, terminados, consolasExit, recursosEnUso, pcb>>
          /\ pc'["exit"] = pc["exit"] /\ pc["run"] = "cpu" /\ pc'["run"] = "tomar"
          /\ p \in Procesos /\ EnRun(p) /\ ~EnLista(consolasReady, p)
          /\ consolasReady' = Append(consolasReady, p)
      BY <1>3, <1>b, <2>1 DEF RunYield, EnRun, Lugares, EnReady
    <2>3. /\ SinRepetidos(consolasReady')
          /\ \A q : EnLista(consolasReady', q) /\ q # p => EnLista(consolasReady, q)
      BY <1>a, <2>2, AgregarAlFinal
    <2> QED
      BY <1>a, <2>2, <2>3 DEF Lugares, EnReady, EnExit, EnRun, Saliendo, Acabado, Bloqueado,
                              PasosWait
  <1>4. ASSUME RunExit PROVE Lugares'
    <2>1. PICK p : p = pcb["run"]
      OBVIOUS
    <2>2. /\ UNCHANGED <<fuera, terminados, consolasReady, recursosEnUso, pcb>>
          /\ pc'["exit"] = pc["exit"] /\ pc["run"] = "cpu" /\ pc'["run"] = "tomar"
          /\ p \in Procesos /\ EnRun(p) /\ ~EnLista(consolasExit, p)
          /\ consolasExit' = Append(consolasExit, p)
      BY <1>4, <1>b, <2>1 DEF RunExit, EnRun, Lugares, EnExit, Acabado
    <2>3. /\ SinRepetidos(consolasExit')
          /\ \A q : EnLista(consolasExit', q) /\ q # p => EnLista(consolasExit, q)
      BY <1>a, <2>2, AgregarAlFinal
    <2> QED
      BY <1>a, <2>2, <2>3 DEF Lugares, EnReady, EnExit, EnRun, Saliendo, Acabado, Bloqueado,
                              PasosWait
  <1>5. ASSUME WaitGuardar PROVE Lugares'
    <2>1. PICK p : p = pcb["run"]
      OBVIOUS
    <2>2. /\ UNCHANGED <<fuera, terminados, consolasExit, recursosEnUso, pcb>>
          /\ pc'["exit"] = pc["exit"] /\ pc["run"] \in PasosWait /\ pc'["run"] = "tomar"
          /\ p \in Procesos /\ EnRun(p) /\ ~EnLista(consolasReady, p)
          /\ consolasReady' = <<p>> \o consolasReady
      BY <1>5, <1>b, <2>1 DEF WaitGuardar, EnRun, Lugares, EnReady, PasosWait
    <2>3. /\ SinRepetidos(consolasReady')
          /\ \A q : EnLista(consolasReady', q) /\ q # p => EnLista(consolasReady, q)
      BY <1>a, <2>2, AgregarAlFrente
    <2> QED
      BY <1>a, <2>2, <2>3 DEF Lugares, EnReady, EnExit, EnRun, Saliendo, Acabado, Bloqueado,
                              PasosWait
  <1>6. ASSUME RunSignal PROVE Lugares'
    <2>1. PICK p : p = pcb["run"]
      OBVIOUS
    <2>2. /\ UNCHANGED <<fuera, terminados, consolasExit, recursosEnUso, pcb>>
          /\ pc'["exit"] = pc["exit"] /\ pc["run"] = "cpu" /\ pc'["run"] = "lib_clave"
          /\ p \in Procesos /\ EnRun(p) /\ ~EnLista(consolasReady, p)
          /\ consolasReady' = <<p>> \o consolasReady
      BY <1>6, <1>b, <2>1 DEF RunSignal, EnRun, Lugares, EnReady
    <2>3. /\ SinRepetidos(consolasReady')
          /\ \A q : EnLista(consolasReady', q) /\ q # p => EnLista(consolasReady, q)
      BY <1>a, <2>2, AgregarAlFrente
    <2> QED
      BY <1>a, <2>2, <2>3 DEF Lugares, EnReady, EnExit, EnRun, Saliendo, Acabado, Bloqueado,
                              PasosWait
  <1>7. ASSUME WaitAgregar PROVE Lugares'
    <2>1. CASE Cae
      BY <2>1, NadieSeMueve
    <2>2. CASE ~Cae
      <3>1. PICK p, r : p = pcb["run"] /\ r = recurso["run"]
        OBVIOUS
      <3>2. /\ UNCHANGED <<fuera, terminados, consolasReady, consolasExit, pcb>>
            /\ pc'["exit"] = pc["exit"] /\ pc["run"] \in PasosWait /\ pc'["run"] = "tomar"
            /\ p \in Procesos /\ EnRun(p) /\ r \in DOMAIN recursosEnUso /\ r \in Recursos
            /\ recursosEnUso' = [recursosEnUso EXCEPT ![r] = Append(@, p)]
        BY <1>7, <1>b, <1>c, <2>2, <3>1 DEF WaitAgregar, EnRun, PasosWait
      <3>3. ~EnLista(recursosEnUso[r], p)
        BY <3>2 DEF Lugares, Bloqueado
      <3>4. /\ SinRepetidos(recursosEnUso'[r])
            /\ \A q : EnLista(recursosEnUso'[r], q) /\ q # p => EnLista(recursosEnUso[r], q)
        BY <1>c, <3>2, <3>3, AgregarAlFinal
      <3>5. /\ DOMAIN recursosEnUso' = DOMAIN recursosEnUso
            /\ \A s \in DOMAIN recursosEnUso : s # r => recursosEnUso'[s] = recursosEnUso[s]
        BY <3>2
      <3>6. \A q, s : Bloqueado(q, s)' => Bloqueado(q, s) \/ (q = p /\ s = r)
        BY <3>4, <3>5 DEF Bloqueado
      <3>7. \A s \in DOMAIN recursosEnUso' : SinRepetidos(recursosEnUso'[s])
        BY <1>c, <3>4, <3>5
      <3> QED
        BY <1>a, <3>2, <3>6, <3>7 DEF Lugares, EnReady, EnExit, EnRun, Saliendo, Acabado, PasosWait
    <2> QED
      BY <2>1, <2>2
  <1>8. ASSUME WaitNueva PROVE Lugares'
    <2>1. PICK p, r : p = pcb["run"] /\ r = recurso["run"]
      OBVIOUS
    <2>2. /\ UNCHANGED <<fuera, terminados, consolasReady, consolasExit, pcb>>
          /\ pc'["exit"] = pc["exit"] /\ pc["run"] \in PasosWait /\ pc'["run"] = "tomar"
          /\ p \in Procesos /\ EnRun(p) /\ r \in Recursos
          /\ recursosEnUso' = dictionary_put(recursosEnUso, r, <<p>>)
      BY <1>8, <1>b, <2>1 DEF WaitNueva, EnRun, PasosWait
    <2>3. /\ DOMAIN recursosEnUso' = DOMAIN recursosEnUso \cup {r} /\ recursosEnUso'[r] = <<p>>
          /\ \A s \in DOMAIN recursosEnUso : s # r => recursosEnUso'[s] = recursosEnUso[s]
      BY <2>2
    <2>4. SinRepetidos(<<p>>) /\ \A q : EnLista(<<p>>, q) => q = p
      BY DEF SinRepetidos, EnLista
    <2>5. \A q, s : Bloqueado(q, s)' => Bloqueado(q, s) \/ (q = p /\ s = r)
      BY <2>3, <2>4 DEF Bloqueado
    <2>6. \A s \in DOMAIN recursosEnUso' : SinRepetidos(recursosEnUso'[s])
      BY <1>c, <2>3, <2>4
    <2> QED
      BY <1>a, <2>2, <2>5, <2>6 DEF Lugares, EnReady, EnExit, EnRun, Saliendo, Acabado, PasosWait
  <1>9. ASSUME NEW t \in Hilos, LibQuitar(t) PROVE Lugares'
    <2>1. PICK r : r = recurso[t]
      OBVIOUS
    <2>2. /\ UNCHANGED <<fuera, terminados, consolasExit, pcb>>
          /\ pc'["exit"] = "tomar" <=> pc["exit"] = "tomar"
          /\ pc'["run"] \in {"cpu"} \cup PasosWait <=> pc["run"] \in {"cpu"} \cup PasosWait
      BY <1>9, <1>b DEF LibQuitar, PasosWait
    <2>3. r \in DOMAIN recursosEnUso /\ r \in Recursos /\ recursosEnUso[r] # <<>>
      BY <1>9, <1>b, <1>c, <2>1 DEF LibQuitar
    <2>4. PICK h : h = Head(recursosEnUso[r])
      OBVIOUS
    <2>5. /\ recursosEnUso' = [recursosEnUso EXCEPT ![r] = Tail(@)]
          /\ consolasReady' = Append(consolasReady, h)
      BY <1>9, <2>1, <2>4 DEF LibQuitar
    <2>6. /\ DOMAIN recursosEnUso' = DOMAIN recursosEnUso
          /\ recursosEnUso'[r] = Tail(recursosEnUso[r])
          /\ \A s \in DOMAIN recursosEnUso : s # r => recursosEnUso'[s] = recursosEnUso[s]
      BY <2>3, <2>5
    <2>7. /\ h \in Procesos /\ EnLista(recursosEnUso[r], h)
          /\ SinRepetidos(recursosEnUso'[r]) /\ ~EnLista(recursosEnUso'[r], h)
          /\ \A q : EnLista(recursosEnUso'[r], q) => EnLista(recursosEnUso[r], q)
      BY <1>c, <2>3, <2>4, <2>6, QuitarElPrimero
    <2>8. Bloqueado(h, r) /\ ~EnLista(consolasReady, h)
      BY <2>3, <2>7 DEF Bloqueado, Lugares, EnReady
    <2>9. /\ SinRepetidos(consolasReady')
          /\ \A q : EnLista(consolasReady', q) /\ q # h => EnLista(consolasReady, q)
      BY <1>a, <2>5, <2>7, <2>8, AgregarAlFinal
    <2>10. \A q, s : Bloqueado(q, s)' => Bloqueado(q, s) /\ (q # h \/ s # r)
      BY <2>6, <2>7 DEF Bloqueado
    <2>11. \A s \in DOMAIN recursosEnUso' : SinRepetidos(recursosEnUso'[s])
      BY <1>c, <2>6, <2>7
    <2>12. \A s \in Recursos : ~Bloqueado(h, s)'
      BY <2>3, <2>7, <2>8, <2>10 DEF Lugares
    <2> QED
      BY <1>a, <2>2, <2>3, <2>7, <2>8, <2>9, <2>10, <2>11, <2>12
         DEF Lugares, EnReady, EnExit, EnRun, Saliendo, Acabado
  <1>10. ASSUME NEW t \in Hilos, LibDestruir(t) PROVE Lugares'
    <2>1. /\ UNCHANGED <<fuera, terminados, consolasReady, consolasExit, pcb>>
          /\ pc'["exit"] = "tomar" <=> pc["exit"] = "tomar"
          /\ pc'["run"] \in {"cpu"} \cup PasosWait <=> pc["run"] \in {"cpu"} \cup PasosWait
          /\ recursosEnUso' = [r \in DOMAIN recursosEnUso \ {recurso[t]} |-> recursosEnUso[r]]
      BY <1>10, <1>b DEF LibDestruir, PasosWait
    <2>2. \A q, s : Bloqueado(q, s)' => Bloqueado(q, s)
      BY <2>1 DEF Bloqueado
    <2>3. \A s \in DOMAIN recursosEnUso' : SinRepetidos(recursosEnUso'[s])
      BY <1>c, <2>1
    <2> QED
      BY <1>a, <2>1, <2>2, <2>3 DEF Lugares, EnReady, EnExit, EnRun, Saliendo, Acabado
  <1>11. ASSUME ExitTomar PROVE Lugares'
    <2>1. PICK h : h = Head(consolasExit)
      OBVIOUS
    <2>2. /\ SinRepetidos(consolasExit') /\ ~EnLista(consolasExit', h)
          /\ EnLista(consolasExit, h) /\ h \in Procesos
          /\ \A q : EnLista(consolasExit', q) => EnLista(consolasExit, q)
      BY <1>11, <1>a, <2>1, QuitarElPrimero DEF ExitTomar
    <2>3. /\ UNCHANGED <<fuera, terminados, consolasReady, recursosEnUso>>
          /\ pcb'["exit"] = h /\ pcb'["run"] = pcb["run"] /\ pc'["run"] = pc["run"]
          /\ pc["exit"] = "tomar"
      BY <1>11, <1>b, <2>1 DEF ExitTomar
    <2> QED
      BY <1>a, <2>2, <2>3 DEF Lugares, EnReady, EnExit, EnRun, Saliendo, Acabado, Bloqueado
  <1>12. ASSUME ExitTerminar PROVE Lugares'
    <2>1. /\ UNCHANGED <<fuera, consolasReady, consolasExit, recursosEnUso, pcb>>
          /\ terminados' = terminados \cup {pcb["exit"]} /\ pcb["exit"] \in Procesos
          /\ pc'["run"] = pc["run"] /\ pc["exit"] = "siguiente" /\ pc'["exit"] = "tomar"
      BY <1>12, <1>b DEF ExitTerminar
    <2>2. Saliendo(pcb["exit"])
      BY <2>1 DEF Saliendo
    <2> QED
      BY <1>a, <2>1, <2>2 DEF Lugares, EnReady, EnExit, EnRun, Saliendo, Acabado, Bloqueado
  <1>13. ASSUME RunWait PROVE Lugares'
    BY <1>13, <1>b, NadieSeMueve DEF RunWait, PasosWait
  <1>14. ASSUME WaitLeer PROVE Lugares'
    BY <1>14, <1>b, NadieSeMueve DEF WaitLeer, PasosWait
  <1>15. ASSUME WaitCargar PROVE Lugares'
    BY <1>15, <1>b, NadieSeMueve DEF WaitCargar, PasosWait
  <1>16. ASSUME WaitClave PROVE Lugares'
    BY <1>16, <1>b, NadieSeMueve DEF WaitClave, PasosWait
  <1>17. ASSUME WaitLista PROVE Lugares'
    BY <1>17, <1>b, NadieSeMueve DEF WaitLista, PasosWait
  <1>18. ASSUME RunSignalSinWait PROVE Lugares'
    BY <1>18, <1>b, NadieSeMueve DEF RunSignalSinWait, PasosWait
  <1>19. ASSUME ExitLiberarUno PROVE Lugares'
    BY <1>19, <1>b, NadieSeMueve DEF ExitLiberarUno, PasosWait
  <1>20. ASSUME NEW t \in Hilos, LibClave(t) PROVE Lugares'
    BY <1>20, <1>b, NadieSeMueve DEF LibClave, PasosWait
  <1>21. ASSUME NEW t \in Hilos, LibLista(t) PROVE Lugares'
    BY <1>21, <1>b, NadieSeMueve DEF LibLista, PasosWait
  <1>22. ASSUME NEW t \in Hilos, LibTamano(t) PROVE Lugares'
    BY <1>22, <1>b, NadieSeMueve DEF LibTamano, PasosWait
  <1>23. ASSUME NEW t \in Hilos, LibCae(t) PROVE Lugares'
    BY <1>23, <1>b, NadieSeMueve DEF LibCae, PasosWait
  <1>24. ASSUME NEW t \in Hilos, LibCargar(t) PROVE Lugares'
    BY <1>24, <1>b, NadieSeMueve DEF LibCargar, PasosWait
  <1>25. ASSUME NEW t \in Hilos, LibGuardar(t) PROVE Lugares'
    BY <1>25, <1>b, NadieSeMueve DEF LibGuardar, PasosWait
  <1>26. CASE UNCHANGED vars
    BY <1>26, NadieSeMueve DEF vars
  <1> QED
    BY <1>1, <1>2, <1>3, <1>4, <1>5, <1>6, <1>7, <1>8, <1>9, <1>10, <1>11, <1>12, <1>13, <1>14,
       <1>15, <1>16, <1>17, <1>18, <1>19, <1>20, <1>21, <1>22, <1>23, <1>24, <1>25, <1>26
       DEF Next, HiloRun, HiloExit, Wait, Liberar
LEMMA SiempreLugares == Spec => []Lugares
  BY LugaresAlInicio, LugaresEnUnPaso, SiempreTipado, PTL DEF Spec

-----------------------------------------------------------------------------
(* What a process holds and what its program says *)

\* What one more instruction does to what a program holds.
LEMMA UnaInstruccionMas ==
    ASSUME NEW prog, NEW n \in Nat \ {0}, NEW r
    PROVE  /\ Es(prog[n], "WAIT", r) => Retenido(prog, n, r)
           /\ Es(prog[n], "SIGNAL", r) => ~Retenido(prog, n, r)
           /\ Retenido(prog, n, r) => Es(prog[n], "WAIT", r) \/ Retenido(prog, n - 1, r)
           /\ ~Es(prog[n], "SIGNAL", r) /\ Retenido(prog, n - 1, r) => Retenido(prog, n, r)
  <1>1. Es(prog[n], "WAIT", r) => Retenido(prog, n, r)
    <2>1. n \in 1 .. n /\ n + 1 .. n = {}
      OBVIOUS
    <2> QED
      BY <2>1 DEF Retenido
  <1>2. ASSUME Es(prog[n], "SIGNAL", r), Retenido(prog, n, r) PROVE FALSE
    <2>1. PICK m \in 1 .. n : /\ Es(prog[m], "WAIT", r)
                              /\ \A k \in m + 1 .. n : ~Es(prog[k], "SIGNAL", r)
      BY <1>2 DEF Retenido
    <2>2. m # n
      BY <1>2, <2>1 DEF Es
    <2>3. n \in m + 1 .. n
      BY <2>2
    <2> QED
      BY <1>2, <2>1, <2>3
  <1>3. ASSUME Retenido(prog, n, r), ~Es(prog[n], "WAIT", r) PROVE Retenido(prog, n - 1, r)
    <2>1. PICK m \in 1 .. n : /\ Es(prog[m], "WAIT", r)
                              /\ \A k \in m + 1 .. n : ~Es(prog[k], "SIGNAL", r)
      BY <1>3 DEF Retenido
    <2>2. m # n
      BY <1>3, <2>1
    <2>3. m \in 1 .. n - 1 /\ \A k \in m + 1 .. n - 1 : k \in m + 1 .. n
      BY <2>2
    <2> QED
      BY <2>1, <2>3 DEF Retenido
  <1>4. ASSUME ~Es(prog[n], "SIGNAL", r), Retenido(prog, n - 1, r) PROVE Retenido(prog, n, r)
    <2>1. PICK m \in 1 .. n - 1 :
             Es(prog[m], "WAIT", r) /\ \A k \in m + 1 .. n - 1 : ~Es(prog[k], "SIGNAL", r)
      BY <1>4 DEF Retenido
    <2>2. m \in 1 .. n /\ \A k \in m + 1 .. n : k \in m + 1 .. n - 1 \/ k = n
      OBVIOUS
    <2>3. \A k \in m + 1 .. n : ~Es(prog[k], "SIGNAL", r)
      BY <1>4, <2>1, <2>2
    <2> QED
      BY <2>1, <2>2, <2>3 DEF Retenido
  <1> QED
    BY <1>1, <1>2, <1>3, <1>4

LEMMA NadaRetenidoAlEmpezar == \A prog, r : ~Retenido(prog, 0, r)
  BY DEF Retenido

\* Registros, of one process.
RegistroDe(p) ==
    /\ ~Acabado(p) =>
          /\ program_counter[p] \in 1 .. Len(escenario.programas[p])
          /\ \A r \in Recursos :
                Retenido(escenario.programas[p], program_counter[p] - 1, r) =>
                    EnLista(Registrados(p), r)
    /\ p \in fuera => program_counter[p] = 1
    /\ p \in fuera \/ p \in terminados => Registrados(p) = <<>>
    /\ \A r \in Recursos : Pidiendo(p, r) \/ Bloqueado(p, r) =>
          Registrados(p) # <<>> /\ Registrados(p)[Len(Registrados(p))] = r

LEMMA RegistrosDeTodos == Registros <=> \A p \in Procesos : RegistroDe(p)
  BY DEF Registros, RegistroDe

\* The programs are sequences of instructions whose last one ends them.
LEMMA ProgramaBueno ==
    ASSUME Tipado, NEW p \in Procesos
    PROVE  /\ escenario.programas[p] \in Seq(Instrucciones)
           /\ Len(escenario.programas[p]) \in Nat \ {0}
           /\ Final(escenario.programas[p][Len(escenario.programas[p])])
           /\ DOMAIN escenario.programas[p] = 1 .. Len(escenario.programas[p])
  <1>1. PICK e \in Escenarios : e = escenario
    BY DEF Tipado, TypeOK
  <1>2. PICK s : s = e.programas[p]
    OBVIOUS
  <1>3. s \in Seq(Instrucciones) /\ s # <<>> /\ Final(Last(s))
    BY <1>2, RecursosAssumption
  <1>4. Len(s) \in Nat \ {0} /\ DOMAIN s = 1 .. Len(s)
    BY <1>3, LenProperties, EmptySeq
  <1>5. Final(s[Len(s)])
    BY <1>3 DEF Last
  <1> QED
    BY <1>1, <1>2, <1>3, <1>4, <1>5, Zenon

\* An instruction that does not end the program is not the last.
LEMMA HaySiguiente ==
    ASSUME Tipado, NEW p \in Procesos, NEW n \in 1 .. Len(escenario.programas[p]),
           ~Final(escenario.programas[p][n])
    PROVE  n + 1 \in 1 .. Len(escenario.programas[p])
  <1>1. PICK l : l = Len(escenario.programas[p])
    OBVIOUS
  <1>2. l \in Nat /\ n \in 1 .. l /\ n # l
    BY <1>1, ProgramaBueno
  <1>3. n + 1 \in 1 .. l
    BY <1>2
  <1> QED
    BY <1>1, <1>3

LEMMA RegistrosAlInicio == Init => Registros
  <1> SUFFICES ASSUME Init, NEW p \in Procesos PROVE RegistroDe(p)
    BY RegistrosDeTodos
  <1>1. /\ program_counter[p] = 1 /\ Registrados(p) = <<>>
        /\ \A r : ~Pidiendo(p, r) /\ ~Bloqueado(p, r)
        /\ p \notin terminados
    BY DEF Init, Registrados, Pidiendo, Bloqueado, HayClave, Hilos
  <1>2. Tipado
    BY TipadoAlInicio
  <1>3. 1 \in 1 .. Len(escenario.programas[p]) /\ program_counter[p] - 1 = 0
    BY <1>1, <1>2, ProgramaBueno
  <1>4. \A r \in Recursos :
           ~Retenido(escenario.programas[p], program_counter[p] - 1, r)
    BY <1>3, NadaRetenidoAlEmpezar
  <1> QED
    BY <1>1, <1>3, <1>4 DEF RegistroDe

\* A process that neither runs an instruction nor changes its list.
LEMMA RegistroIgual ==
    ASSUME NEW p \in Procesos, RegistroDe(p),
           escenario' = escenario, program_counter'[p] = program_counter[p],
           Registrados(p)' = Registrados(p),
           Acabado(p) => Acabado(p)',
           p \in fuera' => p \in fuera,
           p \in terminados' => p \in terminados \/ Registrados(p) = <<>>,
           \A r \in Recursos : Pidiendo(p, r)' => Pidiendo(p, r),
           \A r \in Recursos : Bloqueado(p, r)' => Bloqueado(p, r) \/ Pidiendo(p, r)
    PROVE  RegistroDe(p)'
  <1>1. PICK reg : reg = Registrados(p)
    OBVIOUS
  <1>2. reg = Registrados(p)'
    BY <1>1
  <1> QED
    BY <1>1, <1>2 DEF RegistroDe

\* A step that runs no instruction and changes no list of resources of a process.
PasoAjeno ==
    /\ UNCHANGED <<escenario, program_counter, recursos_por_proceso>>
    /\ \A p \in Procesos :
          /\ Acabado(p)' <=> Acabado(p)
          /\ p \in fuera' => p \in fuera
          /\ p \in terminados' => p \in terminados \/ Registrados(p) = <<>>
          /\ \A r \in Recursos : Pidiendo(p, r)' => Pidiendo(p, r)
          /\ \A r \in Recursos : Bloqueado(p, r)' => Bloqueado(p, r) \/ Pidiendo(p, r)

\* Every step but five.
Ajenas ==
    \/ \E p \in Procesos : Admitir(p)
    \/ Despachar \/ RunSignalSinWait
    \/ WaitLeer \/ WaitCargar \/ WaitGuardar \/ WaitClave \/ WaitLista \/ WaitAgregar \/ WaitNueva
    \/ Liberar("run") \/ Liberar("exit") \/ ExitTomar \/ ExitTerminar
    \/ UNCHANGED vars

LEMMA LasAjenas == Tipado /\ Lugares /\ Ajenas => PasoAjeno
  <1> SUFFICES ASSUME Tipado, Lugares, Ajenas PROVE PasoAjeno
    OBVIOUS
  <1> USE DEF Hilos, Va, Cae, colas, dicts, locales, ElRecurso, HayClave, TrasLiberar,
              dictionary_put
  <1>a. /\ consolasReady \in Seq(Procesos) /\ consolasExit \in Seq(Procesos)
        /\ DOMAIN pc = Hilos /\ DOMAIN pcb = Hilos
        /\ pc["run"] # "siguiente" /\ pc["exit"] \notin {"cpu"} \cup PasosWait
        /\ \A t \in Hilos : pc[t] # "tomar" => pcb[t] \in Procesos
        /\ \A t \in Hilos : pc[t] \in PasosWait \cup PasosLib => recurso[t] \in Recursos
        /\ \A t \in Hilos : lista[t] = "viva" => recurso[t] \in DOMAIN recursosEnUso
        /\ \A r \in DOMAIN recursosEnUso : r \in Recursos /\ recursosEnUso[r] \in Seq(Procesos)
    BY DEF Tipado, TypeOK, Manos
  <1>b. ASSUME UNCHANGED <<escenario, program_counter, recursos_por_proceso, fuera, terminados,
                           consolasExit, recursosEnUso, pcb, recurso>>,
               pc'["exit"] = "tomar" <=> pc["exit"] = "tomar",
               pc'["run"] \in PasosWait => pc["run"] \in PasosWait
        PROVE  PasoAjeno
    BY <1>b DEF PasoAjeno, Acabado, EnExit, Saliendo, Pidiendo, Bloqueado, PasosWait
  <1>c. ASSUME UNCHANGED <<escenario, program_counter, recursos_por_proceso, fuera, terminados,
                           consolasExit, pcb, recurso>>,
               pc'["exit"] = "tomar" <=> pc["exit"] = "tomar",
               pc'["run"] \in PasosWait => pc["run"] \in PasosWait,
               \A p \in Procesos : \A r \in Recursos :
                   Bloqueado(p, r)' => Bloqueado(p, r) \/ Pidiendo(p, r)
        PROVE  PasoAjeno
    BY <1>c DEF PasoAjeno, Acabado, EnExit, Saliendo, Pidiendo, PasosWait
  <1>1. ASSUME NEW p \in Procesos, Admitir(p) PROVE PasoAjeno
    BY <1>1 DEF Admitir, PasoAjeno, Acabado, EnExit, Saliendo, Pidiendo, Bloqueado
  <1>2. ASSUME Despachar PROVE PasoAjeno
    BY <1>2, <1>a DEF Despachar, PasoAjeno, Acabado, EnExit, Saliendo, Pidiendo, Bloqueado
  <1>3. ASSUME WaitAgregar PROVE PasoAjeno
    <2>1. CASE Cae
      BY <2>1, <1>b
    <2>2. CASE ~Cae
      <3>1. PICK p, r : p = pcb["run"] /\ r = recurso["run"]
        OBVIOUS
      <3>2. /\ p \in Procesos /\ r \in DOMAIN recursosEnUso /\ r \in Recursos /\ Pidiendo(p, r)
            /\ recursosEnUso' = [recursosEnUso EXCEPT ![r] = Append(@, p)]
        BY <1>3, <1>a, <2>2, <3>1 DEF WaitAgregar, Pidiendo, PasosWait
      <3>3. \A q : EnLista(recursosEnUso'[r], q) /\ q # p => EnLista(recursosEnUso[r], q)
        BY <1>a, <3>2, AgregarAlFinal
      <3>4. /\ DOMAIN recursosEnUso' = DOMAIN recursosEnUso
            /\ \A s \in DOMAIN recursosEnUso : s # r => recursosEnUso'[s] = recursosEnUso[s]
        BY <3>2
      <3>5. \A q \in Procesos : \A s \in Recursos :
               Bloqueado(q, s)' => Bloqueado(q, s) \/ Pidiendo(q, s)
        BY <3>2, <3>3, <3>4 DEF Bloqueado
      <3> QED
        BY <1>3, <1>a, <1>c, <2>2, <3>5 DEF WaitAgregar, PasosWait
    <2> QED
      BY <2>1, <2>2
  <1>4. ASSUME WaitNueva PROVE PasoAjeno
    <2>1. PICK p, r : p = pcb["run"] /\ r = recurso["run"]
      OBVIOUS
    <2>2. /\ p \in Procesos /\ r \in Recursos /\ Pidiendo(p, r)
          /\ recursosEnUso' = dictionary_put(recursosEnUso, r, <<p>>)
      BY <1>4, <1>a, <2>1 DEF WaitNueva, Pidiendo, PasosWait
    <2>3. /\ DOMAIN recursosEnUso' = DOMAIN recursosEnUso \cup {r} /\ recursosEnUso'[r] = <<p>>
          /\ \A s \in DOMAIN recursosEnUso : s # r => recursosEnUso'[s] = recursosEnUso[s]
      BY <2>2
    <2>4. \A q : EnLista(<<p>>, q) => q = p
      BY DEF EnLista
    <2>5. \A q \in Procesos : \A s \in Recursos :
             Bloqueado(q, s)' => Bloqueado(q, s) \/ Pidiendo(q, s)
      BY <2>2, <2>3, <2>4 DEF Bloqueado
    <2> QED
      BY <1>4, <1>a, <1>c, <2>5 DEF WaitNueva, PasosWait
  <1>5. ASSUME NEW t \in Hilos, LibQuitar(t) PROVE PasoAjeno
    <2>1. PICK r : r = recurso[t]
      OBVIOUS
    <2>2. /\ r \in DOMAIN recursosEnUso /\ r \in Recursos /\ recursosEnUso[r] # <<>>
          /\ recursosEnUso' = [recursosEnUso EXCEPT ![r] = Tail(@)]
      BY <1>5, <1>a, <2>1 DEF LibQuitar
    <2>3. \A q : EnLista(recursosEnUso'[r], q) => EnLista(recursosEnUso[r], q)
      BY <1>a, <2>2, QuitarElPrimero
    <2>4. \A q \in Procesos : \A s \in Recursos : Bloqueado(q, s)' => Bloqueado(q, s)
      BY <2>2, <2>3 DEF Bloqueado
    <2> QED
      BY <1>5, <1>a, <1>c, <2>4 DEF LibQuitar, PasosWait
  <1>6. ASSUME NEW t \in Hilos, LibDestruir(t) PROVE PasoAjeno
    <2>1. \A q \in Procesos : \A s \in Recursos : Bloqueado(q, s)' => Bloqueado(q, s)
      BY <1>6 DEF LibDestruir, Bloqueado
    <2> QED
      BY <1>6, <1>a, <1>c, <2>1 DEF LibDestruir, PasosWait
  <1>7. ASSUME ExitTomar PROVE PasoAjeno
    <2>1. PICK h : h = Head(consolasExit)
      OBVIOUS
    <2>2. /\ EnLista(consolasExit, h)
          /\ \A q : EnLista(consolasExit', q) => EnLista(consolasExit, q)
          /\ \A q : EnLista(consolasExit, q) /\ q # h => EnLista(consolasExit', q)
      BY <1>7, <1>a, <2>1, QuitarElPrimero DEF ExitTomar
    <2>3. /\ UNCHANGED <<escenario, program_counter, recursos_por_proceso, fuera, terminados,
                         recursosEnUso, recurso>>
          /\ pcb'["exit"] = h /\ pcb'["run"] = pcb["run"] /\ pc'["run"] = pc["run"]
          /\ pc["exit"] = "tomar" /\ pc'["exit"] # "tomar"
      BY <1>7, <1>a, <2>1 DEF ExitTomar
    <2>4. \A p \in Procesos : Acabado(p)' <=> Acabado(p)
      BY <2>2, <2>3 DEF Acabado, EnExit, Saliendo
    <2> QED
      BY <2>3, <2>4 DEF PasoAjeno, Pidiendo, Bloqueado
  <1>8. ASSUME ExitTerminar PROVE PasoAjeno
    <2>1. /\ UNCHANGED <<escenario, program_counter, recursos_por_proceso, fuera, consolasExit,
                         recursosEnUso, recurso, pcb>>
          /\ terminados' = terminados \cup {pcb["exit"]} /\ Registrados(pcb["exit"]) = <<>>
          /\ pc'["run"] = pc["run"] /\ pc["exit"] # "tomar" /\ pc'["exit"] = "tomar"
      BY <1>8, <1>a DEF ExitTerminar
    <2> QED
      BY <2>1 DEF PasoAjeno, Acabado, EnExit, Saliendo, Pidiendo, Bloqueado
  <1>9. ASSUME WaitLeer PROVE PasoAjeno
    BY <1>9, <1>a, <1>b DEF WaitLeer, PasosWait
  <1>10. ASSUME WaitCargar PROVE PasoAjeno
    BY <1>10, <1>a, <1>b DEF WaitCargar, PasosWait
  <1>11. ASSUME WaitGuardar PROVE PasoAjeno
    BY <1>11, <1>a, <1>b DEF WaitGuardar, PasosWait
  <1>12. ASSUME WaitClave PROVE PasoAjeno
    BY <1>12, <1>a, <1>b DEF WaitClave, PasosWait
  <1>13. ASSUME WaitLista PROVE PasoAjeno
    BY <1>13, <1>a, <1>b DEF WaitLista, PasosWait
  <1>14. ASSUME RunSignalSinWait PROVE PasoAjeno
    BY <1>14, <1>a, <1>b DEF RunSignalSinWait, PasosWait
  <1>15. ASSUME NEW t \in Hilos, LibClave(t) PROVE PasoAjeno
    BY <1>15, <1>a, <1>b DEF LibClave, PasosWait
  <1>16. ASSUME NEW t \in Hilos, LibLista(t) PROVE PasoAjeno
    BY <1>16, <1>a, <1>b DEF LibLista, PasosWait
  <1>17. ASSUME NEW t \in Hilos, LibTamano(t) PROVE PasoAjeno
    BY <1>17, <1>a, <1>b DEF LibTamano, PasosWait
  <1>18. ASSUME NEW t \in Hilos, LibCae(t) PROVE PasoAjeno
    BY <1>18, <1>a, <1>b DEF LibCae, PasosWait
  <1>19. ASSUME NEW t \in Hilos, LibCargar(t) PROVE PasoAjeno
    BY <1>19, <1>a, <1>b DEF LibCargar, PasosWait
  <1>20. ASSUME NEW t \in Hilos, LibGuardar(t) PROVE PasoAjeno
    BY <1>20, <1>a, <1>b DEF LibGuardar, PasosWait
  <1>21. CASE UNCHANGED vars
    BY <1>21, <1>b DEF vars
  <1> QED
    BY <1>1, <1>2, <1>3, <1>4, <1>5, <1>6, <1>7, <1>8, <1>9, <1>10, <1>11, <1>12, <1>13, <1>14,
       <1>15, <1>16, <1>17, <1>18, <1>19, <1>20, <1>21
       DEF Ajenas, Liberar

LEMMA LosPasos ==
    [Next]_vars => Ajenas \/ RunYield \/ RunExit \/ RunWait \/ RunSignal \/ ExitLiberarUno
  BY DEF Next, HiloRun, HiloExit, Wait, Ajenas
\* The process in the CPU, and its instruction.
LEMMA QuienEjecuta ==
    ASSUME Tipado, Lugares, Registros, pc["run"] = "cpu", NEW p, p = pcb["run"]
    PROVE  /\ p \in Procesos /\ EnRun(p) /\ ~Acabado(p) /\ p \notin fuera /\ p \notin terminados
           /\ ~EnReady(p) /\ ~EnExit(p) /\ ~Saliendo(p)
           /\ \A r \in Recursos : ~Bloqueado(p, r)
           /\ program_counter[p] \in 1 .. Len(escenario.programas[p])
           /\ program_counter[p] \in Nat \ {0}
           /\ RegistroDe(p)
  <1>1. p \in Procesos
    BY DEF Tipado, Manos, Hilos
  <1>2. EnRun(p)
    BY DEF EnRun
  <1>3. /\ ~Acabado(p) /\ p \notin fuera /\ p \notin terminados /\ ~EnReady(p) /\ ~EnExit(p)
        /\ ~Saliendo(p) /\ \A r \in Recursos : ~Bloqueado(p, r)
    BY <1>1, <1>2 DEF Lugares, Acabado
  <1>4. RegistroDe(p)
    BY <1>1, RegistrosDeTodos
  <1>5. program_counter[p] \in 1 .. Len(escenario.programas[p])
    BY <1>3, <1>4 DEF RegistroDe
  <1>6. program_counter[p] \in Nat \ {0}
    BY <1>1, <1>5 DEF Tipado, TypeOK
  <1> QED
    BY <1>1, <1>2, <1>3, <1>4, <1>5, <1>6

\* What the CPU returns: one more instruction of the process, and nobody else's.
LEMMA Retornado ==
    ASSUME Tipado, NEW op, NEW hasta, Retorna(op, hasta), NEW p, p = pcb["run"]
    PROVE  /\ pc["run"] = "cpu" /\ pc'["run"] = hasta /\ pc'["exit"] = pc["exit"]
           /\ program_counter'[p] = program_counter[p] + 1
           /\ \A q \in Procesos : q # p => program_counter'[q] = program_counter[q]
           /\ escenario.programas[p][program_counter[p]].op = op
           /\ Instruccion(p) = escenario.programas[p][program_counter[p]]
  BY DEF Retorna, Va, Tipado, TypeOK, Manos, Hilos, Instruccion

LEMMA RegistrosEnUnPaso == Tipado /\ Lugares /\ Registros /\ [Next]_vars => Registros'
  <1> SUFFICES ASSUME Tipado, Lugares, Registros, [Next]_vars, NEW q \in Procesos
               PROVE  RegistroDe(q)'
    BY DEF Registros, RegistroDe
  <1>q. RegistroDe(q)
    BY RegistrosDeTodos
  <1>1. CASE Ajenas
    <2>1. PasoAjeno
      BY <1>1, LasAjenas
    <2>2. Registrados(q)' = Registrados(q)
      BY <2>1 DEF PasoAjeno, Registrados
    <2> QED
      BY <1>q, <2>1, <2>2, RegistroIgual DEF PasoAjeno
  <1>2. CASE RunYield
    <2>1. PICK p, n : p = pcb["run"] /\ n = program_counter[p]
      OBVIOUS
    <2>2. /\ pc["run"] = "cpu" /\ pc'["run"] = "tomar" /\ pc'["exit"] = pc["exit"]
          /\ program_counter'[p] = n + 1
          /\ \A s \in Procesos : s # p => program_counter'[s] = program_counter[s]
          /\ escenario.programas[p][n].op = "YIELD"
      BY <1>2, <2>1, Retornado DEF RunYield
    <2>3. UNCHANGED <<escenario, fuera, consolasExit, terminados, recursosEnUso,
                      recursos_por_proceso, pcb>>
      BY <1>2 DEF RunYield, dicts, locales
    <2>4. /\ Registrados(q)' = Registrados(q) /\ (Acabado(q)' <=> Acabado(q))
          /\ \A r \in Recursos : ~Pidiendo(q, r)' /\ (Bloqueado(q, r)' <=> Bloqueado(q, r))
      BY <2>2, <2>3 DEF Registrados, Acabado, EnExit, Saliendo, Pidiendo, Bloqueado, HayClave
    <2>5. CASE q # p
      BY <1>q, <2>2, <2>3, <2>4, <2>5, RegistroIgual
    <2>6. CASE q = p
      <3>1. /\ ~Acabado(q) /\ q \notin fuera /\ q \notin terminados
            /\ \A r \in Recursos : ~Bloqueado(q, r)
            /\ n \in 1 .. Len(escenario.programas[q]) /\ n \in Nat \ {0}
        BY <2>1, <2>2, <2>6, QuienEjecuta
      <3>2. n + 1 \in 1 .. Len(escenario.programas[q])
        BY <2>2, <2>6, <3>1, HaySiguiente DEF Final
      <3>3. ASSUME NEW r \in Recursos, Retenido(escenario.programas[q], n, r)
            PROVE  EnLista(Registrados(q), r)
        <4>1. Retenido(escenario.programas[q], n - 1, r)
          BY <2>2, <2>6, <3>1, <3>3, UnaInstruccionMas DEF Es
        <4> QED
          BY <1>q, <2>1, <2>6, <3>1, <4>1 DEF RegistroDe
      <3>5. program_counter'[q] \in 1 .. Len(escenario'.programas[q])
        BY <2>2, <2>3, <2>6, <3>2
      <3>6. ASSUME NEW r \in Recursos,
                   Retenido(escenario'.programas[q], program_counter'[q] - 1, r)
            PROVE  EnLista(Registrados(q)', r)
        <4>1. program_counter'[q] - 1 = n
          BY <2>2, <2>6, <3>1
        <4>2. escenario'.programas[q] = escenario.programas[q]
          BY <2>3
        <4>3. Retenido(escenario.programas[q], n, r)
          BY <3>6, <4>1, <4>2, Zenon
        <4> QED
          BY <3>3, <2>4, <4>3
      <3> QED
        BY <2>3, <2>4, <3>1, <3>5, <3>6 DEF RegistroDe
    <2> QED
      BY <2>5, <2>6
  <1>3. CASE RunExit
    <2>1. PICK p, op : p = pcb["run"] /\ op = Instruccion(pcb["run"]).op
      OBVIOUS
    <2>2. /\ pc["run"] = "cpu" /\ pc'["run"] = "tomar" /\ pc'["exit"] = pc["exit"]
          /\ \A s \in Procesos : s # p => program_counter'[s] = program_counter[s]
      <3>1. Retorna(op, "tomar")
        BY <1>3, <2>1 DEF RunExit
      <3> QED
        BY <2>1, <3>1, Retornado
    <2>3. /\ UNCHANGED <<escenario, fuera, terminados, recursosEnUso, recursos_por_proceso, pcb>>
          /\ consolasExit' = Append(consolasExit, p)
      BY <1>3, <2>1 DEF RunExit, dicts, locales
    <2>4. /\ p \in Procesos /\ ~Acabado(p) /\ p \notin fuera /\ p \notin terminados
          /\ \A r \in Recursos : ~Bloqueado(p, r)
      BY <2>1, <2>2, QuienEjecuta
    <2>5. /\ EnLista(consolasExit', p)
          /\ \A s : EnLista(consolasExit, s) => EnLista(consolasExit', s)
      BY <2>3, <2>4, AgregarAlFinal DEF Tipado, TypeOK
    <2>6. /\ Registrados(q)' = Registrados(q) /\ (Acabado(q) => Acabado(q)')
          /\ \A r \in Recursos : ~Pidiendo(q, r)' /\ (Bloqueado(q, r)' <=> Bloqueado(q, r))
      BY <2>2, <2>3, <2>5 DEF Registrados, Acabado, EnExit, Saliendo, Pidiendo, Bloqueado, HayClave
    <2>7. CASE q # p
      BY <1>q, <2>2, <2>3, <2>6, <2>7, RegistroIgual
    <2>8. CASE q = p
      <3>1. Acabado(q)'
        BY <2>5, <2>8 DEF Acabado, EnExit
      <3> QED
        BY <2>3, <2>4, <2>6, <2>8, <3>1 DEF RegistroDe
    <2> QED
      BY <2>7, <2>8
  <1>4. CASE RunWait
    <2>1. PICK p, n, r : p = pcb["run"] /\ n = program_counter[p] /\ r = Instruccion(p).recurso
      OBVIOUS
    <2>2. /\ pc["run"] = "cpu" /\ pc'["run"] = "wait_leer" /\ pc'["exit"] = pc["exit"]
          /\ program_counter'[p] = n + 1
          /\ \A s \in Procesos : s # p => program_counter'[s] = program_counter[s]
          /\ Es(escenario.programas[p][n], "WAIT", r)
      BY <1>4, <2>1, Retornado DEF RunWait, Es
    <2>3. /\ UNCHANGED <<escenario, fuera, consolasExit, terminados, recursosEnUso, pcb>>
          /\ r \in Recursos /\ recurso'["run"] = r
          /\ recursos_por_proceso' =
                dictionary_put(recursos_por_proceso, p, Append(Registrados(p), r))
      BY <1>4, <2>1 DEF RunWait, colas, Registrados, Tipado, TypeOK, Hilos
    <2>4. /\ p \in Procesos /\ ~Acabado(p) /\ p \notin fuera /\ p \notin terminados
          /\ (\A s \in Recursos : ~Bloqueado(p, s))
          /\ n \in 1 .. Len(escenario.programas[p]) /\ n \in Nat \ {0}
      BY <2>1, <2>2, QuienEjecuta
    <2>5. /\ Registrados(p)' = Append(Registrados(p), r)
          /\ \A s \in Procesos : s # p => Registrados(s)' = Registrados(s)
      BY <2>3 DEF Registrados, dictionary_put
    <2>6. /\ Acabado(q)' <=> Acabado(q)
          /\ \A s \in Recursos : Pidiendo(q, s)' => q = p /\ s = r
          /\ \A s \in Recursos : Bloqueado(q, s)' <=> Bloqueado(q, s)
      BY <2>1, <2>2, <2>3 DEF Acabado, EnExit, Saliendo, Pidiendo, Bloqueado, HayClave
    <2>7. CASE q # p
      BY <1>q, <2>2, <2>3, <2>5, <2>6, <2>7, RegistroIgual
    <2>8. CASE q = p
      <3>1. PICK l : l = Registrados(p)
        OBVIOUS
      <3>2. l \in Seq(Recursos)
        BY <3>1 DEF Registrados, Tipado, TypeOK
      <3>3. PICK m : m = Registrados(p)'
        OBVIOUS
      <3>4. m = Append(l, r)
        BY <2>5, <3>1, <3>3
      <3>5. /\ m # <<>> /\ m[Len(m)] = r /\ EnLista(m, r)
            /\ \A s : EnLista(l, s) => EnLista(m, s)
        <4>1. /\ m \in Seq(Recursos) /\ Len(m) = Len(l) + 1 /\ m[Len(l) + 1] = r
              /\ EnLista(m, r) /\ \A s : EnLista(l, s) => EnLista(m, s)
          BY <2>3, <3>2, <3>4, AgregarAlFinal
        <4>2. Len(l) \in Nat /\ Len(m) # 0
          BY <3>2, <4>1, LenProperties
        <4> QED
          BY <4>1, <4>2, EmptySeq
      <3>6. ~Final(escenario.programas[p][n])
        BY <2>2, <2>3, RecursosAssumption DEF Final, Es
      <3>7. n + 1 \in 1 .. Len(escenario.programas[q])
        BY <2>4, <2>8, <3>6, HaySiguiente
      <3>8. ASSUME NEW s \in Recursos, Retenido(escenario.programas[q], n, s)
            PROVE  EnLista(m, s)
        <4>1. CASE s = r
          BY <3>5, <4>1
        <4>2. CASE s # r
          <5>1. Retenido(escenario.programas[q], n - 1, s)
            BY <2>2, <2>4, <2>8, <3>8, <4>2, UnaInstruccionMas DEF Es
          <5>2. EnLista(l, s)
            BY <1>q, <2>1, <2>4, <2>8, <3>1, <5>1 DEF RegistroDe
          <5> QED
            BY <3>5, <5>2
        <4> QED
          BY <4>1, <4>2
      <3>10. program_counter'[q] \in 1 .. Len(escenario'.programas[q])
        BY <2>2, <2>3, <2>8, <3>7
      <3>11. ASSUME NEW s \in Recursos,
                    Retenido(escenario'.programas[q], program_counter'[q] - 1, s)
             PROVE  EnLista(m, s)
        <4>1. program_counter'[q] - 1 = n
          BY <2>2, <2>4, <2>8
        <4>2. escenario'.programas[q] = escenario.programas[q]
          BY <2>3
        <4>3. Retenido(escenario.programas[q], n, s)
          BY <3>11, <4>1, <4>2, Zenon
        <4> QED
          BY <3>8, <4>3
      <3> QED
        BY <2>3, <2>4, <2>6, <2>8, <3>3, <3>5, <3>10, <3>11 DEF RegistroDe
    <2> QED
      BY <2>7, <2>8
  <1>5. CASE RunSignal
    <2>1. PICK p, n, r : p = pcb["run"] /\ n = program_counter[p] /\ r = Instruccion(p).recurso
      OBVIOUS
    <2>2. /\ pc["run"] = "cpu" /\ pc'["run"] = "lib_clave" /\ pc'["exit"] = pc["exit"]
          /\ program_counter'[p] = n + 1
          /\ \A s \in Procesos : s # p => program_counter'[s] = program_counter[s]
          /\ Es(escenario.programas[p][n], "SIGNAL", r)
      BY <1>5, <2>1, Retornado DEF RunSignal, Es
    <2>3. /\ UNCHANGED <<escenario, fuera, consolasExit, terminados, recursosEnUso, pcb>>
          /\ r \in Recursos /\ p \in DOMAIN recursos_por_proceso
          /\ recursos_por_proceso' = [recursos_por_proceso EXCEPT ![p] = RemoveFirst(@, r)]
      BY <1>5, <2>1 DEF RunSignal
    <2>4. /\ p \in Procesos /\ ~Acabado(p) /\ p \notin fuera /\ p \notin terminados
          /\ (\A s \in Recursos : ~Bloqueado(p, s))
          /\ n \in 1 .. Len(escenario.programas[p]) /\ n \in Nat \ {0}
      BY <2>1, <2>2, QuienEjecuta
    <2>5. /\ Registrados(p)' = RemoveFirst(Registrados(p), r)
          /\ \A s \in Procesos : s # p => Registrados(s)' = Registrados(s)
      BY <2>3 DEF Registrados
    <2>6. /\ Acabado(q)' <=> Acabado(q)
          /\ \A s \in Recursos : ~Pidiendo(q, s)'
          /\ \A s \in Recursos : Bloqueado(q, s)' <=> Bloqueado(q, s)
      BY <2>1, <2>2, <2>3 DEF Acabado, EnExit, Saliendo, Pidiendo, Bloqueado, HayClave
    <2>7. CASE q # p
      BY <1>q, <2>2, <2>3, <2>5, <2>6, <2>7, RegistroIgual
    <2>8. CASE q = p
      <3>1. PICK l : l = Registrados(p)
        OBVIOUS
      <3>2. l \in Seq(Recursos)
        BY <3>1 DEF Registrados, Tipado, TypeOK
      <3>3. PICK m : m = Registrados(p)'
        OBVIOUS
      <3>4. \A s : EnLista(l, s) /\ s # r => EnLista(m, s)
        BY <2>5, <3>1, <3>2, <3>3, QuitarUno
      <3>5. ~Final(escenario.programas[p][n])
        BY <2>2, <2>3, RecursosAssumption DEF Final, Es
      <3>6. n + 1 \in 1 .. Len(escenario.programas[q])
        BY <2>4, <2>8, <3>5, HaySiguiente
      <3>7. ASSUME NEW s \in Recursos, Retenido(escenario.programas[q], n, s)
            PROVE  EnLista(m, s)
        <4>1. s # r
          BY <2>2, <2>4, <2>8, <3>7, UnaInstruccionMas
        <4>2. Retenido(escenario.programas[q], n - 1, s)
          BY <2>2, <2>4, <2>8, <3>7, UnaInstruccionMas DEF Es
        <4>3. EnLista(l, s)
          BY <1>q, <2>1, <2>4, <2>8, <3>1, <4>2 DEF RegistroDe
        <4> QED
          BY <3>4, <4>1, <4>3
      <3>9. program_counter'[q] \in 1 .. Len(escenario'.programas[q])
        BY <2>2, <2>3, <2>8, <3>6
      <3>10. ASSUME NEW s \in Recursos,
                    Retenido(escenario'.programas[q], program_counter'[q] - 1, s)
             PROVE  EnLista(m, s)
        <4>1. program_counter'[q] - 1 = n
          BY <2>2, <2>4, <2>8
        <4>2. escenario'.programas[q] = escenario.programas[q]
          BY <2>3
        <4>3. Retenido(escenario.programas[q], n, s)
          BY <3>10, <4>1, <4>2, Zenon
        <4> QED
          BY <3>7, <4>3
      <3> QED
        BY <2>3, <2>4, <2>6, <2>8, <3>3, <3>9, <3>10 DEF RegistroDe
    <2> QED
      BY <2>7, <2>8
  <1>6. CASE ExitLiberarUno
    <2>1. PICK p : p = pcb["exit"]
      OBVIOUS
    <2>2. /\ UNCHANGED <<escenario, program_counter, fuera, consolasExit, terminados,
                         recursosEnUso, pcb>>
          /\ pc["exit"] = "siguiente" /\ pc'["exit"] = "lib_clave" /\ pc'["run"] = pc["run"]
          /\ p \in Procesos /\ recurso'["run"] = recurso["run"]
          /\ recursos_por_proceso' = [recursos_por_proceso EXCEPT ![p] = Tail(@)]
      BY <1>6, <2>1 DEF ExitLiberarUno, Va, colas, Tipado, TypeOK, Manos, Hilos
    <2>3. \A s \in Procesos : s # p => Registrados(s)' = Registrados(s)
      BY <2>2 DEF Registrados
    <2>4. Saliendo(p) /\ Saliendo(p)'
      BY <2>1, <2>2 DEF Saliendo
    <2>5. /\ Acabado(q)' <=> Acabado(q)
          /\ \A s \in Recursos : Pidiendo(q, s)' <=> Pidiendo(q, s)
          /\ \A s \in Recursos : Bloqueado(q, s)' <=> Bloqueado(q, s)
      BY <2>2 DEF Acabado, EnExit, Saliendo, Pidiendo, Bloqueado, HayClave
    <2>6. CASE q # p
      BY <1>q, <2>2, <2>3, <2>5, <2>6, RegistroIgual
    <2>7. CASE q = p
      <3>1. Acabado(p) /\ p \notin fuera /\ p \notin terminados /\ ~EnRun(p)
            /\ \A s \in Recursos : ~Bloqueado(p, s)
        BY <2>2, <2>4 DEF Acabado, Lugares
      <3>2. \A s \in Recursos : ~Pidiendo(p, s)
        BY <3>1 DEF Pidiendo, EnRun, PasosWait
      <3> QED
        BY <2>2, <2>5, <2>7, <3>1, <3>2 DEF RegistroDe
    <2> QED
      BY <2>6, <2>7
  <1> QED
    BY <1>1, <1>2, <1>3, <1>4, <1>5, <1>6, LosPasos

LEMMA SiempreRegistros == Spec => []Registros
  BY RegistrosAlInicio, RegistrosEnUnPaso, SiempreTipado, SiempreLugares, PTL DEF Spec

-----------------------------------------------------------------------------
(* Programs that return what they take *)

LEMMA NadaQueLiberarAlInicio == Init => NadaQueLiberar
  <1> SUFFICES ASSUME Init PROVE NadaQueLiberar
    OBVIOUS
  <1>1. pc["exit"] = "tomar" /\ \A p : Registrados(p) = <<>> /\ ~Acabado(p)
    BY DEF Init, Registrados, Acabado, EnExit, EnLista, Saliendo, Hilos
  <1>2. SinRepetidos(<<>>) /\ \A r : ~EnLista(<<>>, r)
    BY DEF SinRepetidos, EnLista
  <1> QED
    BY <1>1, <1>2 DEF NadaQueLiberar

\* NadaQueLiberar, of one process.
LiberaDe(p) ==
    /\ SinRepetidos(Registrados(p))
    /\ Acabado(p) => Registrados(p) = <<>>
    /\ ~Acabado(p) => \A r \in Recursos : EnLista(Registrados(p), r) =>
          Retenido(escenario.programas[p], program_counter[p] - 1, r)

\* What a disciplined program promises of its instruction n.
LEMMA InstruccionDisciplinada ==
    ASSUME Tipado, TodosDisciplinados, NEW p \in Procesos,
           NEW n \in 1 .. Len(escenario.programas[p]), NEW i, i = escenario.programas[p][n]
    PROVE  /\ \A r \in Recursos : Retenido(escenario.programas[p], n - 1, r) => i.op # "EXIT"
           /\ \A r \in Recursos : Es(i, "WAIT", r) => ~Retenido(escenario.programas[p], n - 1, r)
           /\ \A r \in Recursos : Es(i, "SIGNAL", r) => Retenido(escenario.programas[p], n - 1, r)
           /\ Final(i) => i.op = "EXIT"
  <1>1. PICK prog : prog = escenario.programas[p]
    OBVIOUS
  <1>2. Disciplinado(prog) /\ n \in DOMAIN prog /\ i = prog[n]
    BY <1>1, ProgramaBueno DEF TodosDisciplinados
  <1>3. \A r \in Recursos : r \in Nat /\ r # INEXISTENTE
    BY RecursosAssumption
  <1>4. \A r \in Recursos : Retenido(prog, n - 1, r) =>
           i.op # "EXIT" /\ (i.op = "WAIT" => i.recurso > r)
    BY <1>2 DEF Disciplinado
  <1>5. ASSUME NEW r \in Recursos, Es(i, "WAIT", r), Retenido(prog, n - 1, r) PROVE FALSE
    <2>1. i.recurso = r /\ i.recurso > r /\ r \in Nat
      BY <1>3, <1>4, <1>5 DEF Es
    <2> QED
      BY <2>1
  <1>6. \A r \in Recursos : Es(i, "SIGNAL", r) => Retenido(prog, n - 1, r)
    BY <1>2 DEF Disciplinado, SenialaLoSuyo
  <1>7. Final(i) => i.op = "EXIT"
    BY <1>2, <1>3 DEF Disciplinado, Final
  <1> QED
    BY <1>1, <1>4, <1>5, <1>6, <1>7

LEMMA NadaQueLiberarEnUnPaso ==
    Tipado /\ Lugares /\ Registros /\ NadaQueLiberar /\ [Next]_vars => NadaQueLiberar'
  <1> SUFFICES ASSUME Tipado, Lugares, Registros, NadaQueLiberar, [Next]_vars, TodosDisciplinados'
               PROVE  /\ pc'["exit"] \in {"tomar", "siguiente"}
                      /\ \A q \in Procesos : LiberaDe(q)'
    BY DEF NadaQueLiberar, LiberaDe
  <1>a. escenario' = escenario /\ TodosDisciplinados
    <2>1. escenario' = escenario
      BY MismoEscenario
    <2> QED
      BY <2>1 DEF TodosDisciplinados
  <1>b. pc["exit"] \in {"tomar", "siguiente"} /\ \A q \in Procesos : LiberaDe(q)
    BY <1>a DEF NadaQueLiberar, LiberaDe
  <1>c. ASSUME ExitLiberarUno PROVE FALSE
    <2>1. pcb["exit"] \in Procesos /\ Saliendo(pcb["exit"]) /\ Registrados(pcb["exit"]) # <<>>
      BY <1>c DEF ExitLiberarUno, Va, Tipado, Manos, Hilos, Saliendo
    <2> QED
      BY <1>b, <2>1 DEF LiberaDe, Acabado
  <1>1. pc'["exit"] \in {"tomar", "siguiente"}
    <2>1. \A p \in Procesos : Admitir(p) => pc' = pc
      BY DEF Admitir
    <2>2. HiloRun => pc'["exit"] = pc["exit"]
      BY DEF HiloRun, Wait, Liberar, Despachar, RunYield, RunExit, RunWait, WaitLeer, WaitCargar,
             WaitGuardar, WaitClave, WaitLista, WaitAgregar, WaitNueva, RunSignal, RunSignalSinWait,
             LibClave, LibLista, LibQuitar, LibTamano, LibDestruir, LibCae, LibCargar, LibGuardar,
             Retorna, Va, Cae, Tipado, Manos, Hilos
    <2>3. Liberar("exit") => pc' = pc
      BY <1>b DEF Liberar, LibClave, LibLista, LibQuitar, LibTamano, LibDestruir, LibCae, LibCargar,
                  LibGuardar, Va, Cae
    <2>4. ExitTomar \/ ExitTerminar => pc'["exit"] \in {"tomar", "siguiente"}
      BY DEF ExitTomar, ExitTerminar, Va, Tipado, Manos, Hilos
    <2> QED
      BY <1>b, <1>c, <2>1, <2>2, <2>3, <2>4 DEF Next, HiloExit, vars
  <1> SUFFICES ASSUME NEW q \in Procesos PROVE LiberaDe(q)'
    BY <1>1
  <1>q. LiberaDe(q)
    BY <1>b
  <1>d. ASSUME escenario' = escenario, program_counter'[q] = program_counter[q],
               Registrados(q)' = Registrados(q), Acabado(q)' <=> Acabado(q)
        PROVE  LiberaDe(q)'
    BY <1>q, <1>d DEF LiberaDe
  <1>2. CASE Ajenas
    <2>1. PasoAjeno
      BY <1>2, LasAjenas
    <2>2. Registrados(q)' = Registrados(q)
      BY <2>1 DEF PasoAjeno, Registrados
    <2> QED
      BY <1>d, <2>1, <2>2 DEF PasoAjeno
  <1>3. CASE RunYield
    <2>1. PICK p, n : p = pcb["run"] /\ n = program_counter[p]
      OBVIOUS
    <2>2. /\ pc["run"] = "cpu" /\ pc'["run"] = "tomar" /\ pc'["exit"] = pc["exit"]
          /\ program_counter'[p] = n + 1
          /\ \A s \in Procesos : s # p => program_counter'[s] = program_counter[s]
          /\ escenario.programas[p][n].op = "YIELD"
      BY <1>3, <2>1, Retornado DEF RunYield
    <2>3. UNCHANGED <<escenario, consolasExit, terminados, recursos_por_proceso, pcb>>
      BY <1>3 DEF RunYield, dicts, locales
    <2>4. Registrados(q)' = Registrados(q) /\ (Acabado(q)' <=> Acabado(q))
      BY <2>2, <2>3 DEF Registrados, Acabado, EnExit, Saliendo
    <2>5. CASE q # p
      BY <1>d, <2>2, <2>3, <2>4, <2>5
    <2>6. CASE q = p
      <3>1. n \in Nat \ {0} /\ ~Acabado(q)
        BY <2>1, <2>2, <2>6, QuienEjecuta
      <3>2. ASSUME NEW s \in Recursos, EnLista(Registrados(q), s)
            PROVE  Retenido(escenario'.programas[q], program_counter'[q] - 1, s)
        <4>1. Retenido(escenario.programas[q], n - 1, s)
          BY <1>q, <2>1, <2>6, <3>1, <3>2 DEF LiberaDe
        <4>2. Retenido(escenario.programas[q], n, s)
          BY <2>2, <2>6, <3>1, <4>1, UnaInstruccionMas DEF Es
        <4>3. program_counter'[q] - 1 = n
          BY <2>2, <2>6, <3>1
        <4>4. escenario'.programas[q] = escenario.programas[q]
          BY <2>3
        <4> QED
          BY <4>2, <4>3, <4>4, Zenon
      <3> QED
        BY <1>q, <2>4, <3>1, <3>2 DEF LiberaDe
    <2> QED
      BY <2>5, <2>6
  <1>4. CASE RunExit
    <2>1. PICK p, n, i : /\ p = pcb["run"] /\ n = program_counter[p]
                         /\ i = escenario.programas[p][n]
      OBVIOUS
    <2>2. /\ pc["run"] = "cpu" /\ pc'["exit"] = pc["exit"]
          /\ \A s \in Procesos : s # p => program_counter'[s] = program_counter[s]
      <3>1. PICK op : op = Instruccion(pcb["run"]).op
        OBVIOUS
      <3>2. Retorna(op, "tomar")
        BY <1>4, <3>1 DEF RunExit
      <3> QED
        BY <2>1, <3>2, Retornado
    <2>3. /\ UNCHANGED <<escenario, terminados, recursos_por_proceso, pcb>> /\ Final(i)
          /\ consolasExit' = Append(consolasExit, p)
      BY <1>4, <2>1 DEF RunExit, dicts, locales, Instruccion
    <2>4. /\ p \in Procesos /\ ~Acabado(p) /\ n \in 1 .. Len(escenario.programas[p])
      BY <2>1, <2>2, QuienEjecuta
    <2>5. /\ EnLista(consolasExit', p)
          /\ \A s : EnLista(consolasExit, s) => EnLista(consolasExit', s)
          /\ \A s : EnLista(consolasExit', s) /\ s # p => EnLista(consolasExit, s)
      BY <2>3, <2>4, AgregarAlFinal DEF Tipado, TypeOK
    <2>6. Registrados(q)' = Registrados(q)
      BY <2>3 DEF Registrados
    <2>7. CASE q # p
      <3>1. Acabado(q)' <=> Acabado(q)
        BY <2>2, <2>3, <2>5, <2>7 DEF Acabado, EnExit, Saliendo
      <3> QED
        BY <1>d, <2>2, <2>3, <2>6, <2>7, <3>1
    <2>8. CASE q = p
      <3>1. \A s \in Recursos : ~Retenido(escenario.programas[q], n - 1, s)
        <4>1. i.op = "EXIT"
          BY <1>a, <2>1, <2>3, <2>4, InstruccionDisciplinada
        <4>2. \A s \in Recursos : Retenido(escenario.programas[p], n - 1, s) => i.op # "EXIT"
          BY <1>a, <2>1, <2>4, InstruccionDisciplinada
        <4> QED
          BY <2>8, <4>1, <4>2
      <3>2. \A s \in Recursos : ~EnLista(Registrados(q), s)
        BY <1>q, <2>1, <2>4, <2>8, <3>1 DEF LiberaDe
      <3>3. Registrados(q) \in Seq(Recursos)
        BY DEF Registrados, Tipado, TypeOK
      <3>4. Registrados(q) = <<>>
        <4>1. PICK l : l = Registrados(q)
          OBVIOUS
        <4>2. l # <<>> => EnLista(l, Head(l)) /\ Head(l) \in Recursos
          BY <3>3, <4>1, QuitarElPrimero
        <4> QED
          BY <3>2, <4>1, <4>2
      <3>5. SinRepetidos(Registrados(q)) /\ Acabado(q)'
        BY <1>q, <2>5, <2>8 DEF LiberaDe, Acabado, EnExit
      <3> QED
        BY <2>6, <3>4, <3>5 DEF LiberaDe
    <2> QED
      BY <2>7, <2>8
  <1>5. CASE RunWait
    <2>1. PICK p, n, r, i : /\ p = pcb["run"] /\ n = program_counter[p]
                            /\ r = Instruccion(p).recurso /\ i = escenario.programas[p][n]
      OBVIOUS
    <2>2. /\ pc["run"] = "cpu" /\ pc'["exit"] = pc["exit"]
          /\ program_counter'[p] = n + 1
          /\ \A s \in Procesos : s # p => program_counter'[s] = program_counter[s]
          /\ Es(i, "WAIT", r)
      BY <1>5, <2>1, Retornado DEF RunWait, Es
    <2>3. /\ UNCHANGED <<escenario, consolasExit, terminados, pcb>>
          /\ r \in Recursos
          /\ recursos_por_proceso' =
                dictionary_put(recursos_por_proceso, p, Append(Registrados(p), r))
      BY <1>5, <2>1 DEF RunWait, colas, Registrados
    <2>4. /\ p \in Procesos /\ ~Acabado(p)
          /\ n \in 1 .. Len(escenario.programas[p]) /\ n \in Nat \ {0}
      BY <2>1, <2>2, QuienEjecuta
    <2>5. /\ Registrados(p)' = Append(Registrados(p), r)
          /\ \A s \in Procesos : s # p => Registrados(s)' = Registrados(s)
      BY <2>3 DEF Registrados, dictionary_put
    <2>6. Acabado(q)' <=> Acabado(q)
      BY <2>2, <2>3 DEF Acabado, EnExit, Saliendo
    <2>7. CASE q # p
      BY <1>d, <2>2, <2>3, <2>5, <2>6, <2>7
    <2>8. CASE q = p
      <3>1. PICK l, m : l = Registrados(p) /\ m = Registrados(p)'
        OBVIOUS
      <3>2. l \in Seq(Recursos) /\ m = Append(l, r)
        BY <2>5, <3>1 DEF Registrados, Tipado, TypeOK
      <3>3. ~Retenido(escenario.programas[q], n - 1, r)
        BY <1>a, <2>1, <2>2, <2>3, <2>4, <2>8, InstruccionDisciplinada
      <3>4. SinRepetidos(l) /\ ~EnLista(l, r)
        BY <1>q, <2>1, <2>3, <2>4, <2>8, <3>1, <3>3 DEF LiberaDe
      <3>5. SinRepetidos(m) /\ \A s : EnLista(m, s) /\ s # r => EnLista(l, s)
        BY <2>3, <3>2, <3>4, AgregarAlFinal
      <3>6. ASSUME NEW s \in Recursos, EnLista(m, s)
            PROVE  Retenido(escenario'.programas[q], program_counter'[q] - 1, s)
        <4>1. s # r => Retenido(escenario.programas[q], n - 1, s)
          BY <1>q, <2>1, <2>4, <2>8, <3>1, <3>5, <3>6 DEF LiberaDe
        <4>2. Retenido(escenario.programas[q], n, s)
          <5>1. CASE s = r
            BY <2>1, <2>2, <2>4, <2>8, <5>1, UnaInstruccionMas
          <5>2. CASE s # r
            BY <2>1, <2>2, <2>4, <2>8, <4>1, <5>2, UnaInstruccionMas DEF Es
          <5> QED
            BY <5>1, <5>2
        <4>3. program_counter'[q] - 1 = n
          BY <2>2, <2>4, <2>8
        <4>4. escenario'.programas[q] = escenario.programas[q]
          BY <2>3
        <4> QED
          BY <4>2, <4>3, <4>4, Zenon
      <3> QED
        BY <2>4, <2>6, <2>8, <3>1, <3>5, <3>6 DEF LiberaDe
    <2> QED
      BY <2>7, <2>8
  <1>6. CASE RunSignal
    <2>1. PICK p, n, r, i : /\ p = pcb["run"] /\ n = program_counter[p]
                            /\ r = Instruccion(p).recurso /\ i = escenario.programas[p][n]
      OBVIOUS
    <2>2. /\ pc["run"] = "cpu" /\ pc'["exit"] = pc["exit"]
          /\ program_counter'[p] = n + 1
          /\ \A s \in Procesos : s # p => program_counter'[s] = program_counter[s]
          /\ Es(i, "SIGNAL", r)
      BY <1>6, <2>1, Retornado DEF RunSignal, Es
    <2>3. /\ UNCHANGED <<escenario, consolasExit, terminados, pcb>>
          /\ r \in Recursos /\ p \in DOMAIN recursos_por_proceso
          /\ recursos_por_proceso' = [recursos_por_proceso EXCEPT ![p] = RemoveFirst(@, r)]
      BY <1>6, <2>1 DEF RunSignal
    <2>4. /\ p \in Procesos /\ ~Acabado(p)
          /\ n \in 1 .. Len(escenario.programas[p]) /\ n \in Nat \ {0}
      BY <2>1, <2>2, QuienEjecuta
    <2>5. /\ Registrados(p)' = RemoveFirst(Registrados(p), r)
          /\ \A s \in Procesos : s # p => Registrados(s)' = Registrados(s)
      BY <2>3 DEF Registrados
    <2>6. Acabado(q)' <=> Acabado(q)
      BY <2>2, <2>3 DEF Acabado, EnExit, Saliendo
    <2>7. CASE q # p
      BY <1>d, <2>2, <2>3, <2>5, <2>6, <2>7
    <2>8. CASE q = p
      <3>1. PICK l, m : l = Registrados(p) /\ m = Registrados(p)'
        OBVIOUS
      <3>2. l \in Seq(Recursos) /\ m = RemoveFirst(l, r) /\ SinRepetidos(l)
        BY <1>q, <2>5, <2>8, <3>1 DEF Registrados, Tipado, TypeOK, LiberaDe
      <3>3. /\ SinRepetidos(m) /\ ~EnLista(m, r)
            /\ \A s : EnLista(m, s) => EnLista(l, s)
        <4>1. UnaVez(l, r)
          BY <3>2 DEF SinRepetidos, UnaVez
        <4> QED
          BY <3>2, <4>1, QuitarUno
      <3>4. ASSUME NEW s \in Recursos, EnLista(m, s)
            PROVE  Retenido(escenario'.programas[q], program_counter'[q] - 1, s)
        <4>1. s # r /\ Retenido(escenario.programas[q], n - 1, s)
          BY <1>q, <2>1, <2>4, <2>8, <3>1, <3>3, <3>4 DEF LiberaDe
        <4>2. Retenido(escenario.programas[q], n, s)
          BY <2>1, <2>2, <2>4, <2>8, <4>1, UnaInstruccionMas DEF Es
        <4>3. program_counter'[q] - 1 = n
          BY <2>2, <2>4, <2>8
        <4>4. escenario'.programas[q] = escenario.programas[q]
          BY <2>3
        <4> QED
          BY <4>2, <4>3, <4>4, Zenon
      <3> QED
        BY <2>4, <2>6, <2>8, <3>1, <3>3, <3>4 DEF LiberaDe
    <2> QED
      BY <2>7, <2>8
  <1> QED
    BY <1>c, <1>2, <1>3, <1>4, <1>5, <1>6, LosPasos

LEMMA SiempreNadaQueLiberar == Spec => []NadaQueLiberar
  BY NadaQueLiberarAlInicio, NadaQueLiberarEnUnPaso, SiempreTipado, SiempreLugares,
     SiempreRegistros,
     PTL DEF Spec

-----------------------------------------------------------------------------
(* Instances: who has been granted what *)

LEMMA UnoMas ==
    ASSUME NEW A, IsFiniteSet(A), NEW B, NEW p, B \subseteq A \cup {p}
    PROVE  /\ Cardinality(B) \in Nat /\ Cardinality(A) \in Nat
           /\ Cardinality(B) <= Cardinality(A) + 1
           /\ B \subseteq A => Cardinality(B) <= Cardinality(A)
  <1>1. IsFiniteSet(A \cup {p}) /\ Cardinality(A \cup {p}) <= Cardinality(A) + 1
        /\ Cardinality(A) \in Nat
    BY FS_AddElement, FS_CardinalityType
  <1>2. Cardinality(B) <= Cardinality(A \cup {p}) /\ IsFiniteSet(B)
    BY <1>1, FS_Subset
  <1>3. Cardinality(B) \in Nat /\ Cardinality(A \cup {p}) \in Nat
    BY <1>1, <1>2, FS_CardinalityType
  <1>4. B \subseteq A => Cardinality(B) <= Cardinality(A)
    BY FS_Subset
  <1> QED
    BY <1>1, <1>2, <1>3, <1>4

LEMMA UnoMenos ==
    ASSUME NEW A, IsFiniteSet(A), NEW p \in A, NEW B, B \subseteq A \ {p}
    PROVE  Cardinality(B) <= Cardinality(A) - 1
  <1>1. IsFiniteSet(A \ {p}) /\ Cardinality(A \ {p}) = Cardinality(A) - 1
    BY FS_RemoveElement
  <1>2. Cardinality(B) <= Cardinality(A \ {p})
    BY <1>1, FS_Subset
  <1> QED
    BY <1>1, <1>2

LEMMA TienenFinito ==
    ASSUME NEW r
    PROVE  IsFiniteSet(Tienen(r)) /\ Cardinality(Tienen(r)) \in Nat
  BY RecursosAssumption, FS_Subset, FS_CardinalityType DEF Tienen

\* The granted part of the list of p is the same after the step.
Mismo(p) ==
    /\ (1 .. Asignados(p))' = 1 .. Asignados(p)
    /\ \A i \in 1 .. Asignados(p) : Registrados(p)'[i] = Registrados(p)[i]

LEMMA MismosTienen ==
    ASSUME \A p \in Procesos : Mismo(p), NEW r
    PROVE  Tienen(r)' = Tienen(r) /\ (Unico(r) => Unico(r)')
  <1>1. ASSUME NEW p \in Procesos PROVE Tiene(p, r)' <=> Tiene(p, r)
    BY DEF Mismo, Tiene
  <1>2. Tienen(r)' = Tienen(r)
    BY <1>1 DEF Tienen
  <1>3. Unico(r) => Unico(r)'
    BY DEF Unico, Mismo
  <1> QED
    BY <1>2, <1>3

LEMMA MismoSiIgual ==
    ASSUME NEW p, Registrados(p)' = Registrados(p), Activo(p)' <=> Activo(p)
    PROVE  Mismo(p)
  BY DEF Mismo, Asignados

LEMMA MismoSiNada ==
    ASSUME NEW p, Registrados(p)' = <<>>, Registrados(p) = <<>>
    PROVE  Mismo(p)
  <1>1. Asignados(p) \in {0, -1} /\ Asignados(p)' \in {0, -1}
    BY DEF Asignados
  <1>2. 1 .. 0 = {} /\ 1 .. -1 = {}
    OBVIOUS
  <1>3. 1 .. Asignados(p) = {}
    BY <1>1, <1>2
  <1>4. (1 .. Asignados(p))' = {}
    BY <1>1, <1>2
  <1> QED
    BY <1>3, <1>4 DEF Mismo

\* The steps that grant and take back nothing.
Quietas ==
    \/ \E p \in Procesos : Admitir(p)
    \/ Despachar \/ RunYield \/ RunExit \/ RunSignalSinWait
    \/ RunWait \/ WaitLeer \/ WaitCargar \/ WaitClave \/ WaitLista \/ WaitAgregar \/ WaitNueva
    \/ \E t \in Hilos : \/ LibClave(t) \/ LibLista(t) \/ LibTamano(t) \/ LibDestruir(t) \/ LibCae(t)
                        \/ LibCargar(t) \/ LibGuardar(t)
    \/ ExitTomar \/ ExitTerminar
    \/ UNCHANGED vars

LEMMA LasQuietas ==
    ASSUME Tipado, Lugares, Registros, Quietas, NEW q \in Procesos
    PROVE  Mismo(q)
  <1> USE DEF Hilos, Va, Cae, colas, dicts, locales, ElRecurso, TrasLiberar
  <1>a. /\ consolasReady \in Seq(Procesos) /\ consolasExit \in Seq(Procesos)
        /\ DOMAIN pc = Hilos /\ DOMAIN pcb = Hilos
        /\ pc["run"] # "siguiente" /\ pc["exit"] \notin {"cpu"} \cup PasosWait
        /\ \A t \in Hilos : pc[t] # "tomar" => pcb[t] \in Procesos
    BY DEF Tipado, TypeOK, Manos
  <1>b. ASSUME UNCHANGED <<recursos_por_proceso, consolasReady, consolasExit, pcb>>,
               pc'["exit"] = "tomar" <=> pc["exit"] = "tomar",
               pc'["run"] = "cpu" <=> pc["run"] = "cpu"
        PROVE  Mismo(q)
    BY <1>b, MismoSiIgual DEF Registrados, Activo
  <1>1. ASSUME NEW p \in Procesos, Admitir(p) PROVE Mismo(q)
    <2>1. /\ UNCHANGED <<recursos_por_proceso, consolasExit, pcb, pc>> /\ p \in fuera
          /\ consolasReady' = Append(consolasReady, p)
      BY <1>1 DEF Admitir
    <2>2. /\ \A s : EnLista(consolasReady, s) => EnLista(consolasReady', s)
          /\ \A s : EnLista(consolasReady', s) /\ s # p => EnLista(consolasReady, s)
      BY <1>a, <2>1, AgregarAlFinal
    <2>3. Registrados(q)' = Registrados(q) /\ Registrados(p) = <<>>
      BY <1>1, <2>1 DEF Registrados, Registros
    <2>4. CASE q = p
      BY <2>3, <2>4, MismoSiNada
    <2>5. CASE q # p
      <3>1. Activo(q)' <=> Activo(q)
        BY <2>1, <2>2, <2>5 DEF Activo
      <3> QED
        BY <2>3, <3>1, MismoSiIgual
    <2> QED
      BY <2>4, <2>5
  <1>2. ASSUME Despachar PROVE Mismo(q)
    <2>1. PICK h : h = Head(consolasReady)
      OBVIOUS
    <2>2. /\ EnLista(consolasReady, h)
          /\ \A s : EnLista(consolasReady', s) => EnLista(consolasReady, s)
          /\ \A s : EnLista(consolasReady, s) /\ s # h => EnLista(consolasReady', s)
      BY <1>2, <1>a, <2>1, QuitarElPrimero DEF Despachar
    <2>3. /\ UNCHANGED <<recursos_por_proceso, consolasExit>>
          /\ pcb'["run"] = h /\ pcb'["exit"] = pcb["exit"] /\ pc'["exit"] = pc["exit"]
          /\ pc["run"] = "tomar" /\ pc'["run"] = "cpu"
      BY <1>2, <1>a, <2>1 DEF Despachar
    <2>4. Activo(q)' <=> Activo(q)
      BY <2>2, <2>3 DEF Activo
    <2>5. Registrados(q)' = Registrados(q)
      BY <2>3 DEF Registrados
    <2> QED
      BY <2>4, <2>5, MismoSiIgual
  <1>3. ASSUME RunYield PROVE Mismo(q)
    <2>1. PICK p : p = pcb["run"]
      OBVIOUS
    <2>2. /\ UNCHANGED <<recursos_por_proceso, consolasExit, pcb>> /\ p \in Procesos
          /\ pc'["exit"] = pc["exit"] /\ pc["run"] = "cpu" /\ pc'["run"] = "tomar"
          /\ consolasReady' = Append(consolasReady, p)
      BY <1>3, <1>a, <2>1 DEF RunYield, Retorna
    <2>3. /\ EnLista(consolasReady', p)
          /\ \A s : EnLista(consolasReady, s) => EnLista(consolasReady', s)
          /\ \A s : EnLista(consolasReady', s) /\ s # p => EnLista(consolasReady, s)
      BY <1>a, <2>2, AgregarAlFinal
    <2>4. Activo(q)' <=> Activo(q)
      BY <2>1, <2>2, <2>3 DEF Activo
    <2>5. Registrados(q)' = Registrados(q)
      BY <2>2 DEF Registrados
    <2> QED
      BY <2>4, <2>5, MismoSiIgual
  <1>4. ASSUME RunExit PROVE Mismo(q)
    <2>1. PICK p : p = pcb["run"]
      OBVIOUS
    <2>2. /\ UNCHANGED <<recursos_por_proceso, consolasReady, pcb>> /\ p \in Procesos
          /\ pc'["exit"] = pc["exit"] /\ pc["run"] = "cpu" /\ pc'["run"] = "tomar"
          /\ consolasExit' = Append(consolasExit, p)
      BY <1>4, <1>a, <2>1 DEF RunExit, Retorna
    <2>3. /\ EnLista(consolasExit', p)
          /\ \A s : EnLista(consolasExit, s) => EnLista(consolasExit', s)
          /\ \A s : EnLista(consolasExit', s) /\ s # p => EnLista(consolasExit, s)
      BY <1>a, <2>2, AgregarAlFinal
    <2>4. Activo(q)' <=> Activo(q)
      BY <2>1, <2>2, <2>3 DEF Activo
    <2>5. Registrados(q)' = Registrados(q)
      BY <2>2 DEF Registrados
    <2> QED
      BY <2>4, <2>5, MismoSiIgual
  <1>5. ASSUME RunWait PROVE Mismo(q)
    <2>1. PICK p, r : p = pcb["run"] /\ r = Instruccion(p).recurso
      OBVIOUS
    <2>2. /\ UNCHANGED <<consolasReady, consolasExit, pcb>>
          /\ pc'["exit"] = pc["exit"] /\ pc["run"] = "cpu" /\ pc'["run"] = "wait_leer"
          /\ r \in Recursos
          /\ recursos_por_proceso' =
                dictionary_put(recursos_por_proceso, p, Append(Registrados(p), r))
      BY <1>5, <1>a, <2>1 DEF RunWait, Retorna, Registrados
    <2>3. /\ Registrados(p)' = Append(Registrados(p), r)
          /\ \A s \in Procesos : s # p => Registrados(s)' = Registrados(s)
      BY <2>2 DEF Registrados, dictionary_put
    <2>4. p \in Procesos /\ ~EnReady(p) /\ ~EnExit(p) /\ ~Saliendo(p)
      BY <2>1, <2>2, QuienEjecuta
    <2>5. CASE q = p
      <3>1. Activo(p) /\ ~Activo(p)'
        BY <2>1, <2>2, <2>4 DEF Activo, EnReady, EnExit, Saliendo
      <3>2. PICK l, m : l = Registrados(p) /\ m = Registrados(p)'
        OBVIOUS
      <3>3. l \in Seq(Recursos) /\ m = Append(l, r)
        BY <2>3, <3>2 DEF Registrados, Tipado, TypeOK
      <3>4. Len(m) = Len(l) + 1 /\ (\A i \in 1 .. Len(l) : m[i] = l[i]) /\ Len(l) \in Nat
        BY <2>2, <3>3, AgregarAlFinal, LenProperties
      <3>5. Asignados(p) = Len(l) /\ Asignados(p)' = Len(l)
        BY <3>1, <3>2, <3>4 DEF Asignados
      <3> QED
        BY <2>5, <3>2, <3>4, <3>5 DEF Mismo
    <2>6. CASE q # p
      <3>1. Activo(q)' <=> Activo(q)
        BY <2>1, <2>2, <2>6 DEF Activo
      <3> QED
        BY <2>3, <2>6, <3>1, MismoSiIgual
    <2> QED
      BY <2>5, <2>6
  <1>6. ASSUME ExitTomar PROVE Mismo(q)
    <2>1. PICK h : h = Head(consolasExit)
      OBVIOUS
    <2>2. /\ EnLista(consolasExit, h)
          /\ \A s : EnLista(consolasExit', s) => EnLista(consolasExit, s)
          /\ \A s : EnLista(consolasExit, s) /\ s # h => EnLista(consolasExit', s)
      BY <1>6, <1>a, <2>1, QuitarElPrimero DEF ExitTomar
    <2>3. /\ UNCHANGED <<recursos_por_proceso, consolasReady>>
          /\ pcb'["exit"] = h /\ pcb'["run"] = pcb["run"] /\ pc'["run"] = pc["run"]
          /\ pc["exit"] = "tomar" /\ pc'["exit"] = "siguiente"
      BY <1>6, <1>a, <2>1 DEF ExitTomar
    <2>4. Activo(q)' <=> Activo(q)
      BY <2>2, <2>3 DEF Activo
    <2>5. Registrados(q)' = Registrados(q)
      BY <2>3 DEF Registrados
    <2> QED
      BY <2>4, <2>5, MismoSiIgual
  <1>7. ASSUME ExitTerminar PROVE Mismo(q)
    <2>1. PICK p : p = pcb["exit"]
      OBVIOUS
    <2>2. /\ UNCHANGED <<recursos_por_proceso, consolasReady, consolasExit, pcb>>
          /\ Registrados(p) = <<>> /\ pc'["run"] = pc["run"] /\ pc'["exit"] = "tomar"
          /\ pc["exit"] = "siguiente"
      BY <1>7, <1>a, <2>1 DEF ExitTerminar
    <2>3. Registrados(q)' = Registrados(q)
      BY <2>2 DEF Registrados
    <2>4. CASE q = p
      BY <2>2, <2>3, <2>4, MismoSiNada
    <2>5. CASE q # p
      <3>1. Activo(q)' <=> Activo(q)
        BY <2>1, <2>2, <2>5 DEF Activo
      <3> QED
        BY <2>3, <3>1, MismoSiIgual
    <2> QED
      BY <2>4, <2>5
  <1>8. ASSUME WaitLeer PROVE Mismo(q)
    BY <1>8, <1>a, <1>b DEF WaitLeer, PasosWait
  <1>9. ASSUME WaitCargar PROVE Mismo(q)
    BY <1>9, <1>a, <1>b DEF WaitCargar, PasosWait
  <1>10. ASSUME WaitClave PROVE Mismo(q)
    BY <1>10, <1>a, <1>b DEF WaitClave, PasosWait
  <1>11. ASSUME WaitLista PROVE Mismo(q)
    BY <1>11, <1>a, <1>b DEF WaitLista, PasosWait
  <1>12. ASSUME WaitAgregar PROVE Mismo(q)
    BY <1>12, <1>a, <1>b DEF WaitAgregar, PasosWait
  <1>13. ASSUME WaitNueva PROVE Mismo(q)
    BY <1>13, <1>a, <1>b DEF WaitNueva, PasosWait
  <1>14. ASSUME RunSignalSinWait PROVE Mismo(q)
    BY <1>14, <1>a, <1>b DEF RunSignalSinWait, PasosWait
  <1>15. ASSUME NEW t \in Hilos, LibClave(t) PROVE Mismo(q)
    BY <1>15, <1>a, <1>b DEF LibClave, PasosWait
  <1>16. ASSUME NEW t \in Hilos, LibLista(t) PROVE Mismo(q)
    BY <1>16, <1>a, <1>b DEF LibLista, PasosWait
  <1>17. ASSUME NEW t \in Hilos, LibTamano(t) PROVE Mismo(q)
    BY <1>17, <1>a, <1>b DEF LibTamano, PasosWait
  <1>18. ASSUME NEW t \in Hilos, LibDestruir(t) PROVE Mismo(q)
    BY <1>18, <1>a, <1>b DEF LibDestruir, PasosWait
  <1>19. ASSUME NEW t \in Hilos, LibCae(t) PROVE Mismo(q)
    BY <1>19, <1>a, <1>b DEF LibCae, PasosWait
  <1>20. ASSUME NEW t \in Hilos, LibCargar(t) PROVE Mismo(q)
    BY <1>20, <1>a, <1>b DEF LibCargar, PasosWait
  <1>21. ASSUME NEW t \in Hilos, LibGuardar(t) PROVE Mismo(q)
    BY <1>21, <1>a, <1>b DEF LibGuardar, PasosWait
  <1>22. CASE UNCHANGED vars
    BY <1>22, <1>b DEF vars
  <1> QED
    BY <1>1, <1>2, <1>3, <1>4, <1>5, <1>6, <1>7, <1>8, <1>9, <1>10, <1>11, <1>12, <1>13, <1>14,
       <1>15, <1>16, <1>17, <1>18, <1>19, <1>20, <1>21, <1>22
       DEF Quietas
\* p gets what it waited for: its list does not change, and now counts whole.
LEMMA Concede ==
    ASSUME NEW p \in Procesos, NEW rho, NEW l, l \in Seq(Recursos),
           Registrados(p) = l, Registrados(p)' = l, l # <<>>, l[Len(l)] = rho,
           ~Activo(p), Activo(p)', \A q \in Procesos : q # p => Mismo(q), NEW r
    PROVE  /\ Tienen(r)' \subseteq Tienen(r) \cup {p}
           /\ r # rho => Tienen(r)' \subseteq Tienen(r)
           /\ Unico(r) /\ (r = rho => ~Tiene(p, r)) => Unico(r)'
  <1>1. Len(l) \in Nat /\ Len(l) > 0
    BY LenProperties, EmptySeq
  <1>2. Asignados(p) = Len(l) - 1 /\ Asignados(p)' = Len(l)
    BY DEF Asignados
  <1>3. \A i \in 1 .. Len(l) : i = Len(l) \/ i \in 1 .. Len(l) - 1
    BY <1>1
  <1>4. ASSUME NEW q \in Procesos, q # p PROVE Tiene(q, r)' <=> Tiene(q, r)
    BY <1>4 DEF Mismo, Tiene
  <1>5. r # rho => (Tiene(p, r)' => Tiene(p, r))
    BY <1>2, <1>3 DEF Tiene
  <1>6. ASSUME Unico(r), r = rho => ~Tiene(p, r), NEW q \in Procesos,
               NEW i \in (1 .. Asignados(q))', NEW j \in (1 .. Asignados(q))',
               Registrados(q)'[i] = r, Registrados(q)'[j] = r
        PROVE  i = j
    <2>1. CASE q # p
      BY <1>6, <2>1 DEF Unico, Mismo
    <2>2. CASE q = p
      <3>1. /\ i \in 1 .. Len(l) /\ j \in 1 .. Len(l) /\ l[i] = r /\ l[j] = r
        BY <1>2, <1>6, <2>2
      <3>2. CASE r # rho
        BY <1>2, <1>3, <1>6, <3>1, <3>2 DEF Unico
      <3>3. CASE r = rho
        <4>1. \A k \in 1 .. Len(l) - 1 : l[k] # r
          BY <1>2, <1>6, <3>3 DEF Tiene
        <4> QED
          BY <1>3, <3>1, <4>1
      <3> QED
        BY <3>2, <3>3
    <2> QED
      BY <2>1, <2>2
  <1>7. Unico(r) /\ (r = rho => ~Tiene(p, r)) => Unico(r)'
    BY <1>6 DEF Unico
  <1> QED
    BY <1>4, <1>5, <1>7 DEF Tienen

\* p, which does not wait, loses one rho from its list.
LEMMA Devuelve ==
    ASSUME NEW p \in Procesos, NEW rho, NEW l, NEW m, l \in Seq(Recursos), m \in Seq(Recursos),
           Registrados(p) = l, Registrados(p)' = m, EnLista(l, rho),
           \A x : EnLista(m, x) => EnLista(l, x), \A x : UnaVez(l, x) => UnaVez(m, x),
           UnaVez(l, rho) => ~EnLista(m, rho),
           Activo(p), Activo(p)', \A q \in Procesos : q # p => Mismo(q), NEW r
    PROVE  /\ Tienen(r)' \subseteq Tienen(r)
           /\ r = rho /\ Unico(r) => p \in Tienen(r) /\ Tienen(r)' \subseteq Tienen(r) \ {p}
           /\ Unico(r) => Unico(r)'
  <1>1. DOMAIN l = 1 .. Len(l) /\ DOMAIN m = 1 .. Len(m)
    BY LenProperties
  <1>2. Asignados(p) = Len(l) /\ Asignados(p)' = Len(m)
    BY DEF Asignados
  <1>3. /\ Tiene(p, r) <=> EnLista(l, r)
        /\ Tiene(p, r)' <=> EnLista(m, r)
    BY <1>1, <1>2 DEF Tiene, EnLista
  <1>4. ASSUME NEW q \in Procesos, q # p PROVE Tiene(q, r)' <=> Tiene(q, r)
    BY <1>4 DEF Mismo, Tiene
  <1>5. Unico(r) => UnaVez(l, r)
    BY <1>1, <1>2 DEF Unico, UnaVez
  <1>6. ASSUME Unico(r), NEW q \in Procesos,
               NEW i \in (1 .. Asignados(q))', NEW j \in (1 .. Asignados(q))',
               Registrados(q)'[i] = r, Registrados(q)'[j] = r
        PROVE  i = j
    <2>1. CASE q # p
      BY <1>6, <2>1 DEF Unico, Mismo
    <2>2. CASE q = p
      <3>1. UnaVez(m, r)
        BY <1>5, <1>6
      <3>2. i \in DOMAIN m /\ j \in DOMAIN m /\ m[i] = r /\ m[j] = r
        BY <1>1, <1>2, <1>6, <2>2
      <3> QED
        BY <3>1, <3>2 DEF UnaVez
    <2> QED
      BY <2>1, <2>2
  <1>7. Unico(r) => Unico(r)'
    BY <1>6 DEF Unico
  <1> QED
    BY <1>3, <1>4, <1>5, <1>7 DEF Tienen

LEMMA InstanciasAlInicio == Init => Instancias
  <1> SUFFICES ASSUME Init, NEW r \in Recursos PROVE CuentaDe(r)
    BY DEF Instancias
  <1>1. /\ pc = [t \in Hilos |-> "tomar"] /\ recursosDisponibles[r] = escenario.instancias[r]
        /\ \A p : Registrados(p) = <<>> /\ ~Activo(p)
    BY DEF Init, Registrados, Activo, EnLista, Hilos
  <1>2. \A p : Asignados(p) = -1
    BY <1>1 DEF Asignados
  <1>3. \A p : 1 .. Asignados(p) = {}
    BY <1>2
  <1>4. Tienen(r) = {} /\ Unico(r)
    BY <1>3 DEF Tienen, Tiene, Unico
  <1>5. Cardinality(Tienen(r)) = 0
    BY <1>4, FS_EmptySet
  <1>6. escenario.instancias[r] \in Nat
    BY RecursosAssumption DEF Init
  <1> QED
    BY <1>1, <1>4, <1>5, <1>6 DEF CuentaDe, Cuenta, EnTransito, Hilos

\* What an instance in transit, or about to be taken, excludes.
LEMMA Exclusion ==
    ASSUME Tipado, NadaQueLiberar, NEW r \in Recursos, Seguro(r), CuentaDe(r)
    PROVE  /\ ~(EnTransito("run", r) /\ EnTransito("exit", r))
           /\ pc["run"] \in {"wait_cargar", "wait_guardar"} /\ recurso["run"] = r =>
                 ~EnTransito("exit", r) /\ (TodosDisciplinados \/ Tienen(r) = {})
           /\ \A t \in Hilos : EnTransito(t, r) => TodosDisciplinados \/ Tienen(r) = {}
  <1>1. CASE TodosDisciplinados
    <2>1. pc["exit"] \in {"tomar", "siguiente"}
      BY <1>1 DEF NadaQueLiberar
    <2> QED
      BY <1>1, <2>1 DEF EnTransito
  <1>2. CASE escenario.instancias[r] <= 1
    <2>1. PICK d, c, n : /\ d = recursosDisponibles[r] /\ c = Cardinality(Tienen(r))
                         /\ n = escenario.instancias[r]
      OBVIOUS
    <2>2. d \in Nat /\ c \in Nat /\ n \in Nat
      BY <2>1, TienenFinito, RecursosAssumption DEF Tipado, TypeOK
    <2>3. d + c + Cuenta(EnTransito("run", r)) + Cuenta(EnTransito("exit", r)) <= n /\ n <= 1
      BY <1>2, <2>1 DEF CuentaDe
    <2>4. c = 0 => Tienen(r) = {}
      BY <2>1, TienenFinito, FS_EmptySet
    <2>5. ~(EnTransito("run", r) /\ EnTransito("exit", r))
      BY <2>2, <2>3 DEF Cuenta
    <2>6. ASSUME pc["run"] \in {"wait_cargar", "wait_guardar"}, recurso["run"] = r
          PROVE  ~EnTransito("exit", r) /\ c = 0
      <3>1. d >= 1
        BY <2>1, <2>6 DEF Tipado, VistoSigueAhi
      <3> QED
        BY <2>2, <2>3, <3>1 DEF Cuenta
    <2>7. EnTransito("run", r) \/ EnTransito("exit", r) => c = 0
      BY <2>2, <2>3 DEF Cuenta
    <2> QED
      BY <2>4, <2>5, <2>6, <2>7 DEF Hilos
  <1> QED
    BY <1>1, <1>2 DEF Seguro

\* Whoever waits for rho was not granted it before.
LEMMA NoLoTiene ==
    ASSUME Tipado, NadaQueLiberar, NEW p \in Procesos, NEW rho, NEW l, l = Registrados(p),
           l # <<>>, l[Len(l)] = rho, ~Activo(p), TodosDisciplinados \/ Tienen(rho) = {}
    PROVE  ~Tiene(p, rho)
  <1>1. CASE TodosDisciplinados
    <2>1. SinRepetidos(l) /\ l \in Seq(Recursos)
      BY <1>1 DEF NadaQueLiberar, Registrados, Tipado, TypeOK
    <2>2. PICK n : n = Len(l)
      OBVIOUS
    <2>3. n \in Nat \ {0} /\ DOMAIN l = 1 .. n /\ Asignados(p) = n - 1 /\ l[n] = rho
      BY <2>1, <2>2, LenProperties, EmptySeq DEF Asignados
    <2>4. \A i \in 1 .. n - 1 : i \in 1 .. n /\ n \in 1 .. n /\ i # n
      BY <2>3
    <2> QED
      BY <2>1, <2>3, <2>4 DEF Tiene, SinRepetidos
  <1>2. CASE Tienen(rho) = {}
    BY <1>2 DEF Tienen
  <1> QED
    BY <1>1, <1>2

\* A step that leaves *instancias as it is, and takes no instance into transit.
LEMMA LasCalladas ==
    ASSUME Tipado, Quietas, NEW r \in Recursos, CuentaDe(r), \A t \in Hilos : ~LibGuardar(t)
    PROVE  /\ recursosDisponibles' = recursosDisponibles
           /\ \A t \in Hilos : EnTransito(t, r)' => EnTransito(t, r)
           /\ pc'["run"] = "wait_guardar" /\ recurso'["run"] = r =>
                 leido'["run"] = recursosDisponibles[r]
           /\ \A t \in Hilos : pc'[t] = "lib_guardar" /\ recurso'[t] = r =>
                 leido'[t] = recursosDisponibles[r]
  <1> DEFINE Callada ==
           /\ recursosDisponibles' = recursosDisponibles
           /\ \A t \in Hilos : EnTransito(t, r)' => EnTransito(t, r)
           /\ pc'["run"] = "wait_guardar" /\ recurso'["run"] = r =>
                 leido'["run"] = recursosDisponibles[r]
           /\ \A t \in Hilos : pc'[t] = "lib_guardar" /\ recurso'[t] = r =>
                 leido'[t] = recursosDisponibles[r]
  <1> USE DEF Va, Cae, colas, dicts, locales, ElRecurso, TrasLiberar, Hilos
  <1>a. /\ DOMAIN pc = Hilos /\ DOMAIN recurso = Hilos /\ DOMAIN leido = Hilos
        /\ pc["exit"] # "wait_cargar" /\ pc["exit"] # "wait_guardar"
        /\ pc["run"] = "wait_guardar" /\ recurso["run"] = r =>
              leido["run"] = recursosDisponibles[r]
        /\ \A t \in Hilos : pc[t] = "lib_guardar" /\ recurso[t] = r =>
              leido[t] = recursosDisponibles[r]
    BY DEF Tipado, TypeOK, Manos, CuentaDe, PasosWait
  <1>1. CASE UNCHANGED <<recursosDisponibles, pc, recurso, leido>>
    BY <1>1, <1>a DEF EnTransito
  <1>2. CASE Despachar
    BY <1>2, <1>a DEF Despachar, EnTransito
  <1>3. CASE RunYield
    BY <1>3, <1>a DEF RunYield, Retorna, EnTransito
  <1>4. CASE RunExit
    BY <1>4, <1>a DEF RunExit, Retorna, EnTransito
  <1>5. CASE RunWait
    BY <1>5, <1>a DEF RunWait, Retorna, EnTransito
  <1>6. CASE WaitLeer
    BY <1>6, <1>a DEF WaitLeer, EnTransito
  <1>7. CASE WaitCargar
    BY <1>7, <1>a DEF WaitCargar, EnTransito
  <1>8. CASE WaitClave
    BY <1>8, <1>a DEF WaitClave, EnTransito
  <1>9. CASE WaitLista
    BY <1>9, <1>a DEF WaitLista, EnTransito
  <1>10. CASE WaitAgregar
    BY <1>10, <1>a DEF WaitAgregar, EnTransito
  <1>11. CASE WaitNueva
    BY <1>11, <1>a DEF WaitNueva, EnTransito
  <1>12. CASE ExitTomar
    BY <1>12, <1>a DEF ExitTomar, EnTransito
  <1>13. CASE ExitTerminar
    BY <1>13, <1>a DEF ExitTerminar, EnTransito
  <1>14. ASSUME NEW t \in Hilos, LibClave(t) PROVE Callada
    BY <1>14, <1>a DEF LibClave, EnTransito
  <1>15. ASSUME NEW t \in Hilos, LibLista(t) PROVE Callada
    BY <1>15, <1>a DEF LibLista, EnTransito
  <1>16. ASSUME NEW t \in Hilos, LibTamano(t) PROVE Callada
    BY <1>16, <1>a DEF LibTamano, EnTransito
  <1>17. ASSUME NEW t \in Hilos, LibDestruir(t) PROVE Callada
    BY <1>17, <1>a DEF LibDestruir, EnTransito
  <1>18. ASSUME NEW t \in Hilos, LibCargar(t) PROVE Callada
    BY <1>18, <1>a DEF LibCargar, EnTransito
  <1>19. (\E p \in Procesos : Admitir(p)) \/ RunSignalSinWait \/ (\E t \in Hilos : LibCae(t))
           \/ UNCHANGED vars
           => UNCHANGED <<recursosDisponibles, pc, recurso, leido>>
    BY DEF Admitir, RunSignalSinWait, LibCae, vars
  <1> QED
    BY <1>1, <1>2, <1>3, <1>4, <1>5, <1>6, <1>7, <1>8, <1>9, <1>10, <1>11, <1>12, <1>13, <1>14,
       <1>15, <1>16, <1>17, <1>18, <1>19
       DEF Quietas

LEMMA InstanciasEnUnPaso ==
    ASSUME Tipado, Lugares, Registros, NadaQueLiberar, [Next]_vars, NEW r \in Recursos,
           Seguro(r), CuentaDe(r)
    PROVE  CuentaDe(r)'
  <1> USE DEF Hilos
  <1>a. escenario' = escenario
    BY MismoEscenario
  <1>b. PICK d, c, n : d = recursosDisponibles[r] /\ c = Cardinality(Tienen(r))
                       /\ n = escenario.instancias[r]
    OBVIOUS
  <1>c. PICK d1, c1 : d1 = recursosDisponibles'[r] /\ c1 = (Cardinality(Tienen(r)))'
    OBVIOUS
  <1>d. PICK x, y : x = Cuenta(EnTransito("run", r)) /\ y = Cuenta(EnTransito("exit", r))
    OBVIOUS
  <1>e. PICK x1, y1 : x1 = (Cuenta(EnTransito("run", r)))' /\ y1 = (Cuenta(EnTransito("exit", r)))'
    OBVIOUS
  <1>f. IsFiniteSet(Tienen(r)) /\ IsFiniteSet(Tienen(r)')
    BY RecursosAssumption, FS_Subset DEF Tienen
  <1>g. /\ d \in Nat /\ c \in Nat /\ n \in Nat /\ d1 \in Nat /\ c1 \in Nat
        /\ x \in {0, 1} /\ y \in {0, 1} /\ x1 \in {0, 1} /\ y1 \in {0, 1}
    <2>1. Tipado'
      BY TipadoEnUnPaso
    <2>2. d1 \in Nat
      BY <1>c, <2>1 DEF Tipado, TypeOK
    <2>3. c \in Nat /\ c1 \in Nat
      BY <1>b, <1>c, <1>f, FS_CardinalityType
    <2>4. d \in Nat /\ n \in Nat
      BY <1>b, RecursosAssumption DEF Tipado, TypeOK
    <2>5. x \in {0, 1} /\ y \in {0, 1} /\ x1 \in {0, 1} /\ y1 \in {0, 1}
      BY <1>d, <1>e DEF Cuenta
    <2> QED
      BY <2>2, <2>3, <2>4, <2>5
  <1>h. d + c + x + y <= n /\ Unico(r)
    BY <1>b, <1>d DEF CuentaDe
  <1>i. ASSUME d1 + c1 + x1 + y1 <= n, Unico(r)',
               pc'["run"] = "wait_guardar" /\ recurso'["run"] = r => leido'["run"] = d1,
               \A t \in Hilos : pc'[t] = "lib_guardar" /\ recurso'[t] = r => leido'[t] = d1
        PROVE  CuentaDe(r)'
    BY <1>a, <1>b, <1>c, <1>e, <1>i DEF CuentaDe
  <1>j. /\ EnTransito("run", r)' => x1 = 1
        /\ ~EnTransito("run", r)' => x1 = 0
        /\ EnTransito("exit", r)' => y1 = 1
        /\ ~EnTransito("exit", r)' => y1 = 0
        /\ EnTransito("run", r) => x = 1
        /\ ~EnTransito("run", r) => x = 0
        /\ EnTransito("exit", r) => y = 1
        /\ ~EnTransito("exit", r) => y = 0
    BY <1>d, <1>e DEF Cuenta
  <1>k. /\ ~(EnTransito("run", r) /\ EnTransito("exit", r))
        /\ pc["run"] \in {"wait_cargar", "wait_guardar"} /\ recurso["run"] = r =>
              ~EnTransito("exit", r) /\ (TodosDisciplinados \/ Tienen(r) = {})
        /\ \A t \in Hilos : EnTransito(t, r) => TodosDisciplinados \/ Tienen(r) = {}
    BY Exclusion
  <1>l. /\ pc["run"] = "wait_guardar" /\ recurso["run"] = r => leido["run"] = d
        /\ \A t \in Hilos : pc[t] = "lib_guardar" /\ recurso[t] = r => leido[t] = d
    BY <1>b DEF CuentaDe
  <1>m. /\ DOMAIN pc = Hilos /\ DOMAIN recurso = Hilos /\ DOMAIN leido = Hilos
        /\ pc["run"] # "siguiente" /\ pc["exit"] \notin {"cpu"} \cup PasosWait
        /\ \A t \in Hilos : pc[t] # "tomar" => pcb[t] \in Procesos
        /\ \A t \in Hilos : pc[t] \in PasosWait \cup PasosLib => recurso[t] \in Recursos
        /\ \A t \in Hilos : lista[t] = "viva" => recurso[t] \in DOMAIN recursosEnUso
        /\ \A s \in DOMAIN recursosEnUso : s \in Recursos /\ recursosEnUso[s] \in Seq(Procesos)
        /\ consolasReady \in Seq(Procesos) /\ DOMAIN recursosDisponibles = Recursos
    BY DEF Tipado, TypeOK, Manos, HayClave
  <1>n. /\ Tienen(r)' \subseteq Tienen(r) => c1 <= c
        /\ \A p : Tienen(r)' \subseteq Tienen(r) \cup {p} => c1 <= c + 1
        /\ \A p \in Tienen(r) : Tienen(r)' \subseteq Tienen(r) \ {p} => c1 <= c - 1
    <2>1. PICK A, B : A = Tienen(r) /\ B = Tienen(r)'
      OBVIOUS
    <2>2. c = Cardinality(A) /\ c1 = Cardinality(B) /\ IsFiniteSet(A)
      BY <1>b, <1>c, <1>f, <2>1
    <2>3. B \subseteq A => Cardinality(B) <= Cardinality(A)
      BY <2>2, FS_Subset
    <2>4. \A p : B \subseteq A \cup {p} => Cardinality(B) <= Cardinality(A) + 1
      BY <2>2, UnoMas
    <2>5. \A p \in A : B \subseteq A \ {p} => Cardinality(B) <= Cardinality(A) - 1
      BY <2>2, UnoMenos
    <2> QED
      BY <2>1, <2>2, <2>3, <2>4, <2>5
  <1>o. Quietas => Tienen(r)' = Tienen(r) /\ Unico(r)'
    BY <1>h, LasQuietas, MismosTienen
  <1>1. CASE Quietas /\ \A t \in Hilos : ~LibGuardar(t)
    <2>1. /\ d1 = d
          /\ EnTransito("run", r)' => EnTransito("run", r)
          /\ EnTransito("exit", r)' => EnTransito("exit", r)
          /\ pc'["run"] = "wait_guardar" /\ recurso'["run"] = r => leido'["run"] = d1
          /\ \A t \in Hilos : pc'[t] = "lib_guardar" /\ recurso'[t] = r => leido'[t] = d1
      BY <1>1, <1>b, <1>c, LasCalladas
    <2>2. Tienen(r)' \subseteq Tienen(r) /\ Unico(r)'
      BY <1>1, <1>o
    <2>3. c1 <= c /\ x1 <= x /\ y1 <= y
      BY <1>n, <1>j, <2>1, <2>2
    <2>4. d1 + c1 + x1 + y1 <= n
      BY <1>g, <1>h, <2>1, <2>3
    <2> QED
      BY <1>i, <2>1, <2>2, <2>4
  <1>2. ASSUME NEW t \in Hilos, LibGuardar(t) PROVE CuentaDe(r)'
    <2>1. PICK u \in Hilos : u # t /\ Hilos = {t, u}
      OBVIOUS
    <2>2. /\ UNCHANGED <<recurso, leido>> /\ pc[t] = "lib_guardar" /\ pc'[u] = pc[u]
          /\ pc'[t] \in {"tomar", "siguiente"} /\ recurso[t] \in Recursos
          /\ recursosDisponibles' = [recursosDisponibles EXCEPT ![recurso[t]] = leido[t] + 1]
      BY <1>2, <1>m, <2>1 DEF LibGuardar, Va, locales, TrasLiberar, ElRecurso, PasosLib
    <2>3. Tienen(r)' \subseteq Tienen(r) /\ Unico(r)' /\ c1 <= c
      BY <1>2, <1>n, <1>o DEF Quietas
    <2>4. ~EnTransito(t, r)' /\ (EnTransito(u, r)' => EnTransito(u, r))
      BY <2>2 DEF EnTransito
    <2>5. CASE recurso[t] # r
      <3>1. d1 = d
        BY <1>b, <1>c, <1>m, <2>2, <2>5
      <3>2. x1 <= x /\ y1 <= y
        BY <1>g, <1>j, <2>1, <2>4
      <3>3. d1 + c1 + x1 + y1 <= n
        BY <1>g, <1>h, <2>3, <3>1, <3>2
      <3> QED
        BY <1>i, <1>l, <2>1, <2>2, <2>3, <2>5, <3>1, <3>3
    <2>6. CASE recurso[t] = r
      <3>1. EnTransito(t, r) /\ ~EnTransito(u, r)
        BY <1>k, <2>1, <2>2, <2>6 DEF EnTransito
      <3>2. d1 = d + 1
        BY <1>b, <1>c, <1>l, <1>m, <2>2, <2>6
      <3>3. x1 = 0 /\ y1 = 0 /\ x + y = 1
        BY <1>j, <2>1, <2>4, <3>1
      <3>4. d1 + c1 + x1 + y1 <= n
        BY <1>g, <1>h, <2>3, <3>2, <3>3
      <3>5. ~(pc'["run"] = "wait_guardar" /\ recurso'["run"] = r)
        BY <1>k, <2>1, <2>2, <3>1
      <3>6. \A v \in Hilos : ~(pc'[v] = "lib_guardar" /\ recurso'[v] = r)
        BY <2>1, <2>2, <3>1 DEF EnTransito
      <3> QED
        BY <1>i, <2>3, <3>4, <3>5, <3>6
    <2> QED
      BY <2>5, <2>6
  <1>3. CASE WaitGuardar
    <2>1. PICK p, rho, l : p = pcb["run"] /\ rho = recurso["run"] /\ l = Registrados(p)
      OBVIOUS
    <2>2. /\ UNCHANGED <<recurso, leido, pcb, consolasExit, recursos_por_proceso>>
          /\ pc["run"] = "wait_guardar" /\ pc'["exit"] = pc["exit"] /\ pc'["run"] = "tomar"
          /\ p \in Procesos /\ rho \in Recursos
          /\ recursosDisponibles' = [recursosDisponibles EXCEPT ![rho] = leido["run"] - 1]
          /\ consolasReady' = <<p>> \o consolasReady
      BY <1>3, <1>m, <2>1 DEF WaitGuardar, Va, locales, ElRecurso, PasosWait
    <2>3. Pidiendo(p, rho) /\ EnRun(p)
      BY <2>1, <2>2 DEF Pidiendo, EnRun, PasosWait
    <2>4. l # <<>> /\ l[Len(l)] = rho /\ l \in Seq(Recursos)
      BY <2>1, <2>2, <2>3 DEF Registros, Registrados, Tipado, TypeOK
    <2>5. ~EnReady(p) /\ ~EnExit(p) /\ ~Saliendo(p)
      BY <2>2, <2>3 DEF Lugares, Acabado
    <2>6. ~Activo(p)
      BY <2>2, <2>5 DEF Activo, EnReady, EnExit, Saliendo
    <2>7. /\ EnLista(consolasReady', p)
          /\ \A q : EnLista(consolasReady, q) => EnLista(consolasReady', q)
          /\ \A q : EnLista(consolasReady', q) /\ q # p => EnLista(consolasReady, q)
      BY <1>m, <2>2, AgregarAlFrente
    <2>8. Activo(p)' /\ \A q \in Procesos : q # p => (Activo(q)' <=> Activo(q))
      BY <2>1, <2>2, <2>7 DEF Activo
    <2>9. \A q : Registrados(q)' = Registrados(q)
      BY <2>2 DEF Registrados
    <2>10. \A q \in Procesos : q # p => Mismo(q)
      BY <2>8, <2>9, MismoSiIgual
    <2>11. /\ Tienen(r)' \subseteq Tienen(r) \cup {p}
           /\ r # rho => Tienen(r)' \subseteq Tienen(r)
           /\ Unico(r) /\ (r = rho => ~Tiene(p, r)) => Unico(r)'
      BY <2>1, <2>2, <2>4, <2>6, <2>8, <2>9, <2>10, Concede
    <2>12. /\ EnTransito("run", r)' => EnTransito("run", r)
           /\ EnTransito("exit", r)' => EnTransito("exit", r)
      BY <2>2 DEF EnTransito
    <2>13. x1 <= x /\ y1 <= y
      BY <1>g, <1>j, <2>12
    <2>14. CASE r # rho
      <3>1. d1 = d /\ c1 <= c /\ Unico(r)'
        BY <1>b, <1>c, <1>h, <1>m, <1>n, <2>2, <2>11, <2>14
      <3>2. d1 + c1 + x1 + y1 <= n
        BY <1>g, <1>h, <2>13, <3>1
      <3> QED
        BY <1>i, <1>l, <2>2, <3>1, <3>2
    <2>15. CASE r = rho
      <3>1. ~EnTransito("exit", r) /\ (TodosDisciplinados \/ Tienen(r) = {})
        BY <1>k, <2>1, <2>2, <2>15
      <3>2. ~Tiene(p, r)
        BY <2>1, <2>2, <2>4, <2>6, <2>15, <3>1, NoLoTiene
      <3>3. d1 = d - 1 /\ c1 <= c + 1 /\ Unico(r)'
        BY <1>b, <1>c, <1>h, <1>l, <1>m, <1>n, <2>1, <2>2, <2>11, <2>15, <3>2
      <3>4. d1 + c1 + x1 + y1 <= n
        BY <1>g, <1>h, <2>13, <3>3
      <3>5. ~(pc'["exit"] = "lib_guardar" /\ recurso'["exit"] = r)
        BY <2>2, <3>1 DEF EnTransito
      <3> QED
        BY <1>i, <2>2, <3>3, <3>4, <3>5
    <2> QED
      BY <2>14, <2>15
  <1>4. ASSUME NEW t \in Hilos, LibQuitar(t) PROVE CuentaDe(r)'
    <2>1. PICK rho, h : rho = recurso[t] /\ h = Head(recursosEnUso[rho])
      OBVIOUS
    <2>2. PICK l : l = Registrados(h)
      OBVIOUS
    <2>3. PICK u \in Hilos : u # t /\ Hilos = {t, u}
      OBVIOUS
    <2>4. /\ UNCHANGED <<recursosDisponibles, recurso, leido, pcb, consolasExit,
                         recursos_por_proceso>>
          /\ pc[t] = "lib_quitar" /\ pc'[t] = "lib_tamano" /\ pc'[u] = pc[u]
          /\ rho \in DOMAIN recursosEnUso /\ rho \in Recursos /\ recursosEnUso[rho] # <<>>
          /\ consolasReady' = Append(consolasReady, h)
      BY <1>4, <1>m, <2>1, <2>3 DEF LibQuitar, Va, locales, ElRecurso
    <2>5. h \in Procesos /\ Bloqueado(h, rho)
      <3>1. PICK q : q = recursosEnUso[rho]
        OBVIOUS
      <3>2. q \in Seq(Procesos) /\ q # <<>> /\ h = Head(q)
        BY <1>m, <2>1, <2>4, <3>1
      <3>3. h \in Procesos /\ EnLista(q, h)
        BY <3>2, QuitarElPrimero
      <3> QED
        BY <2>4, <3>1, <3>3 DEF Bloqueado, HayClave
    <2>6. l # <<>> /\ l[Len(l)] = rho /\ l \in Seq(Recursos)
      BY <2>2, <2>4, <2>5 DEF Registros, Registrados, Tipado, TypeOK
    <2>7. ~EnReady(h) /\ ~EnExit(h) /\ ~Saliendo(h) /\ ~EnRun(h)
      BY <2>4, <2>5 DEF Lugares, Acabado
    <2>8. ~Activo(h)
      BY <2>7 DEF Activo, EnReady, EnExit, Saliendo, EnRun
    <2>9. /\ EnLista(consolasReady', h)
          /\ \A q : EnLista(consolasReady, q) => EnLista(consolasReady', q)
          /\ \A q : EnLista(consolasReady', q) /\ q # h => EnLista(consolasReady, q)
      BY <1>m, <2>4, <2>5, AgregarAlFinal
    <2>10. Activo(h)' /\ \A q \in Procesos : q # h => (Activo(q)' <=> Activo(q))
      <3>1. /\ pc'["exit"] = "tomar" <=> pc["exit"] = "tomar"
            /\ pc'["run"] = "cpu" <=> pc["run"] = "cpu"
        BY <2>3, <2>4
      <3> QED
        BY <2>4, <2>9, <3>1 DEF Activo
    <2>11. \A q : Registrados(q)' = Registrados(q)
      BY <2>4 DEF Registrados
    <2>12. \A q \in Procesos : q # h => Mismo(q)
      BY <2>10, <2>11, MismoSiIgual
    <2>13. /\ Tienen(r)' \subseteq Tienen(r) \cup {h}
           /\ r # rho => Tienen(r)' \subseteq Tienen(r)
           /\ Unico(r) /\ (r = rho => ~Tiene(h, r)) => Unico(r)'
      BY <2>2, <2>5, <2>6, <2>8, <2>10, <2>11, <2>12, Concede
    <2>14. d1 = d /\ ~EnTransito(t, r)' /\ (EnTransito(u, r)' => EnTransito(u, r))
      BY <1>b, <1>c, <2>4 DEF EnTransito
    <2>15. /\ pc'["run"] = "wait_guardar" /\ recurso'["run"] = r => leido'["run"] = d1
           /\ \A v \in Hilos : pc'[v] = "lib_guardar" /\ recurso'[v] = r => leido'[v] = d1
      BY <1>l, <2>3, <2>4, <2>14
    <2>16. CASE r # rho
      <3>1. c1 <= c /\ Unico(r)'
        BY <1>h, <1>n, <2>13, <2>16
      <3>2. x1 <= x /\ y1 <= y
        BY <1>g, <1>j, <2>3, <2>14
      <3>3. d1 + c1 + x1 + y1 <= n
        BY <1>g, <1>h, <2>14, <3>1, <3>2
      <3> QED
        BY <1>i, <2>15, <3>1, <3>3
    <2>17. CASE r = rho
      <3>1. EnTransito(t, r)
        BY <2>1, <2>4, <2>17 DEF EnTransito
      <3>2. ~Tiene(h, r)
        BY <1>k, <2>2, <2>5, <2>6, <2>8, <2>17, <3>1, NoLoTiene
      <3>3. c1 <= c + 1 /\ Unico(r)'
        BY <1>h, <1>n, <2>13, <3>2
      <3>4. x1 + y1 + 1 <= x + y
        BY <1>g, <1>j, <2>3, <2>14, <3>1
      <3>5. d1 + c1 + x1 + y1 <= n
        BY <1>g, <1>h, <2>14, <3>3, <3>4
      <3> QED
        BY <1>i, <2>15, <3>3, <3>5
    <2> QED
      BY <2>16, <2>17
  <1>5. CASE RunSignal
    <2>1. PICK p, k, rho, i : /\ p = pcb["run"] /\ k = program_counter[p]
                              /\ rho = Instruccion(p).recurso /\ i = escenario.programas[p][k]
      OBVIOUS
    <2>2. PICK l, m : l = Registrados(p) /\ m = Registrados(p)'
      OBVIOUS
    <2>3. /\ pc["run"] = "cpu" /\ pc'["run"] = "lib_clave" /\ pc'["exit"] = pc["exit"]
          /\ Es(i, "SIGNAL", rho)
      BY <1>5, <2>1, Retornado DEF RunSignal, Es
    <2>4. /\ UNCHANGED <<recursosDisponibles, leido, pcb, consolasExit>>
          /\ rho \in Recursos /\ p \in DOMAIN recursos_por_proceso
          /\ recursos_por_proceso' = [recursos_por_proceso EXCEPT ![p] = RemoveFirst(@, rho)]
          /\ recurso'["run"] = rho /\ recurso'["exit"] = recurso["exit"]
          /\ consolasReady' = <<p>> \o consolasReady
      BY <1>5, <1>m, <2>1 DEF RunSignal
    <2>5. /\ p \in Procesos /\ ~EnReady(p) /\ k \in 1 .. Len(escenario.programas[p])
      BY <2>1, <2>3, QuienEjecuta
    <2>6. /\ l \in Seq(Recursos) /\ m = RemoveFirst(l, rho)
          /\ \A q \in Procesos : q # p => Registrados(q)' = Registrados(q)
      BY <2>2, <2>4 DEF Registrados, Tipado, TypeOK
    <2>7. EnLista(l, rho)
      <3>1. SenialaLoSuyo(escenario.programas[p])
        BY <2>5 DEF Seguro, TodosDisciplinados, TodosSenialanLoSuyo, Disciplinado
      <3>2. k \in DOMAIN escenario.programas[p]
        BY <2>5, ProgramaBueno
      <3>3. Retenido(escenario.programas[p], k - 1, rho)
        BY <2>1, <2>3, <2>4, <3>1, <3>2 DEF SenialaLoSuyo
      <3>4. RegistroDe(p) /\ ~Acabado(p)
        BY <2>1, <2>3, QuienEjecuta
      <3> QED
        BY <2>1, <2>2, <2>4, <3>3, <3>4 DEF RegistroDe
    <2>8. /\ m \in Seq(Recursos) /\ \A s : EnLista(m, s) => EnLista(l, s)
          /\ UnaVez(l, rho) => ~EnLista(m, rho)
          /\ \A s : UnaVez(l, s) => UnaVez(m, s)
      BY <2>6, QuitarUno
    <2>9. /\ EnLista(consolasReady', p)
          /\ \A q : EnLista(consolasReady, q) => EnLista(consolasReady', q)
          /\ \A q : EnLista(consolasReady', q) /\ q # p => EnLista(consolasReady, q)
      BY <1>m, <2>4, <2>5, AgregarAlFrente
    <2>10. Activo(p) /\ Activo(p)'
      BY <2>1, <2>3, <2>9 DEF Activo
    <2>11. \A q \in Procesos : q # p => (Activo(q)' <=> Activo(q))
      BY <2>1, <2>3, <2>4, <2>9 DEF Activo
    <2>12. \A q \in Procesos : q # p => Mismo(q)
      BY <2>6, <2>11, MismoSiIgual
    <2>13. /\ Tienen(r)' \subseteq Tienen(r)
           /\ r = rho /\ Unico(r) => p \in Tienen(r) /\ Tienen(r)' \subseteq Tienen(r) \ {p}
           /\ Unico(r) => Unico(r)'
      BY <2>2, <2>5, <2>6, <2>7, <2>8, <2>10, <2>12, Devuelve
    <2>14. d1 = d /\ Unico(r)'
      BY <1>b, <1>c, <1>h, <2>4, <2>13
    <2>15. /\ pc'["run"] = "wait_guardar" /\ recurso'["run"] = r => leido'["run"] = d1
           /\ \A v \in Hilos : pc'[v] = "lib_guardar" /\ recurso'[v] = r => leido'[v] = d1
      BY <1>l, <2>3, <2>4, <2>14
    <2>16. y1 <= y
      <3>1. EnTransito("exit", r)' => EnTransito("exit", r)
        BY <2>3, <2>4 DEF EnTransito
      <3> QED
        BY <1>g, <1>j, <3>1
    <2>17. CASE r # rho
      <3>1. c1 <= c /\ x1 = 0
        BY <1>j, <1>n, <2>4, <2>13, <2>17 DEF EnTransito
      <3>2. d1 + c1 + x1 + y1 <= n
        BY <1>g, <1>h, <2>14, <2>16, <3>1
      <3> QED
        BY <1>i, <2>14, <2>15, <3>2
    <2>18. CASE r = rho
      <3>1. c1 <= c - 1
        BY <1>h, <1>n, <2>13, <2>18
      <3>2. x = 0
        BY <1>j, <2>3 DEF EnTransito
      <3>3. d1 + c1 + x1 + y1 <= n
        BY <1>g, <1>h, <2>14, <2>16, <3>1, <3>2
      <3> QED
        BY <1>i, <2>14, <2>15, <3>3
    <2> QED
      BY <2>17, <2>18
  <1>6. CASE ExitLiberarUno
    <2>1. PICK p, l, m : p = pcb["exit"] /\ l = Registrados(p) /\ m = Registrados(p)'
      OBVIOUS
    <2>2. PICK rho : rho = Head(l)
      OBVIOUS
    <2>3. /\ UNCHANGED <<recursosDisponibles, leido, pcb, consolasReady, consolasExit>>
          /\ pc["exit"] = "siguiente" /\ pc'["exit"] = "lib_clave" /\ pc'["run"] = pc["run"]
          /\ recurso'["exit"] = rho /\ recurso'["run"] = recurso["run"]
          /\ p \in Procesos /\ l # <<>>
          /\ recursos_por_proceso' = [recursos_por_proceso EXCEPT ![p] = Tail(@)]
      BY <1>6, <1>m, <2>1, <2>2 DEF ExitLiberarUno, Va, colas
    <2>4. p \in DOMAIN recursos_por_proceso /\ l = recursos_por_proceso[p] /\ l \in Seq(Recursos)
      BY <2>1, <2>3 DEF Registrados, Tipado, TypeOK
    <2>5. /\ m = Tail(l)
          /\ \A q \in Procesos : q # p => Registrados(q)' = Registrados(q)
      BY <2>1, <2>3, <2>4 DEF Registrados
    <2>6. /\ m \in Seq(Recursos) /\ \A s : EnLista(m, s) => EnLista(l, s)
          /\ UnaVez(l, rho) => ~EnLista(m, rho)
          /\ EnLista(l, rho)
          /\ \A s : UnaVez(l, s) => UnaVez(m, s)
      BY <2>2, <2>3, <2>4, <2>5, QuitarElPrimero
    <2>7. Activo(p) /\ Activo(p)'
      BY <2>1, <2>3 DEF Activo
    <2>8. \A q \in Procesos : q # p => (Activo(q)' <=> Activo(q))
      BY <2>3 DEF Activo
    <2>9. \A q \in Procesos : q # p => Mismo(q)
      BY <2>5, <2>8, MismoSiIgual
    <2>10. /\ Tienen(r)' \subseteq Tienen(r)
           /\ r = rho /\ Unico(r) => p \in Tienen(r) /\ Tienen(r)' \subseteq Tienen(r) \ {p}
           /\ Unico(r) => Unico(r)'
      BY <2>1, <2>3, <2>4, <2>6, <2>7, <2>9, Devuelve
    <2>11. d1 = d /\ Unico(r)'
      BY <1>b, <1>c, <1>h, <2>3, <2>10
    <2>12. /\ pc'["run"] = "wait_guardar" /\ recurso'["run"] = r => leido'["run"] = d1
           /\ \A v \in Hilos : pc'[v] = "lib_guardar" /\ recurso'[v] = r => leido'[v] = d1
      BY <1>l, <2>3, <2>11
    <2>13. x1 <= x
      <3>1. EnTransito("run", r)' => EnTransito("run", r)
        BY <2>3 DEF EnTransito
      <3> QED
        BY <1>g, <1>j, <3>1
    <2>14. CASE r # rho
      <3>1. c1 <= c /\ y1 = 0
        BY <1>j, <1>n, <2>3, <2>10, <2>14 DEF EnTransito
      <3>2. d1 + c1 + x1 + y1 <= n
        BY <1>g, <1>h, <2>11, <2>13, <3>1
      <3> QED
        BY <1>i, <2>11, <2>12, <3>2
    <2>15. CASE r = rho
      <3>1. c1 <= c - 1
        BY <1>h, <1>n, <2>10, <2>15
      <3>2. y = 0
        BY <1>j, <2>3 DEF EnTransito
      <3>3. d1 + c1 + x1 + y1 <= n
        BY <1>g, <1>h, <2>11, <2>13, <3>1, <3>2
      <3> QED
        BY <1>i, <2>11, <2>12, <3>3
    <2> QED
      BY <2>14, <2>15
  <1>7. \/ Quietas \/ WaitGuardar \/ RunSignal \/ ExitLiberarUno
        \/ \E t \in Hilos : LibGuardar(t) \/ LibQuitar(t)
    BY DEF Next, HiloRun, HiloExit, Wait, Liberar, Quietas
  <1> QED
    BY <1>1, <1>2, <1>3, <1>4, <1>5, <1>6, <1>7

LEMMA SiempreInstancias == Spec => []Instancias
  <1>1. /\ Tipado /\ Lugares /\ Registros /\ NadaQueLiberar /\ Instancias /\ [Next]_vars
        => Instancias'
    <2> SUFFICES ASSUME Tipado, Lugares, Registros, NadaQueLiberar, Instancias, [Next]_vars,
                        NEW r \in Recursos, Seguro(r)'
                 PROVE  CuentaDe(r)'
      BY DEF Instancias
    <2>1. escenario' = escenario
      BY MismoEscenario
    <2>2. Seguro(r) /\ CuentaDe(r)
      BY <2>1 DEF Seguro, TodosDisciplinados, TodosSenialanLoSuyo, Instancias
    <2> QED
      BY <2>2, InstanciasEnUnPaso
  <1> QED
    BY <1>1, InstanciasAlInicio, SiempreTipado, SiempreLugares, SiempreRegistros,
       SiempreNadaQueLiberar, PTL DEF Spec

\* No resource is granted more often than it has instances, although the scheduler thread and
\* gestionadorExit change *instancias and the lists with no lock (kernel.h 314-435, 1192-1210).
THEOREM NuncaDeMas == Spec => []NingunaInstanciaDeMas
  <1>1. Tipado /\ Instancias => NingunaInstanciaDeMas
    <2> SUFFICES ASSUME Tipado, Instancias, NEW r \in Recursos,
                        TodosDisciplinados \/ (TodosSenialanLoSuyo /\ escenario.instancias[r] <= 1)
                 PROVE  recursosDisponibles[r] + Cardinality(Poseedores(r))
                            <= escenario.instancias[r]
      BY DEF NingunaInstanciaDeMas
    <2>1. CuentaDe(r)
      BY DEF Instancias, Seguro
    <2>2. Poseedores(r) \subseteq Tienen(r)
      <3> SUFFICES ASSUME NEW p \in Procesos, Posee(p, r) PROVE Tiene(p, r)
        BY DEF Poseedores, Tienen
      <3>1. Activo(p) /\ EnLista(Registrados(p), r) /\ Registrados(p) \in Seq(Recursos)
        BY DEF Posee, Registrados, Tipado, TypeOK
      <3>2. DOMAIN Registrados(p) = 1 .. Asignados(p)
        BY <3>1, LenProperties DEF Asignados
      <3> QED
        BY <3>1, <3>2 DEF Tiene, EnLista
    <2>3. /\ IsFiniteSet(Tienen(r)) /\ Cardinality(Tienen(r)) \in Nat
          /\ Cardinality(Poseedores(r)) <= Cardinality(Tienen(r))
          /\ Cardinality(Poseedores(r)) \in Nat
      BY <2>2, TienenFinito, FS_Subset, FS_CardinalityType
    <2>4. recursosDisponibles[r] \in Nat /\ escenario.instancias[r] \in Nat
      BY RecursosAssumption DEF Tipado, TypeOK
    <2>5. Cuenta(EnTransito("run", r)) \in Nat /\ Cuenta(EnTransito("exit", r)) \in Nat
      BY DEF Cuenta
    <2> QED
      BY <2>1, <2>3, <2>4, <2>5 DEF CuentaDe
  <1> QED
    BY <1>1, SiempreTipado, SiempreInstancias, PTL

-----------------------------------------------------------------------------
(* Programs that return what they take: the scheduler thread works alone *)

LEMMA CalmaAlInicio == Init => Calma
  <1> SUFFICES ASSUME Init PROVE EnCalma /\ \A p \in Procesos : Ubicado(p)
    BY DEF Calma
  <1> QED
    BY DEF Init, EnCalma, Ubicado, Hilos, HayClave

\* The exit thread has nothing to release, and a program signals what it asked for.
LEMMA SoloElPlanificador ==
    ASSUME Tipado, Lugares, Registros, NadaQueLiberar, TodosDisciplinados
    PROVE  /\ pc["exit"] \in {"tomar", "siguiente"} /\ lista["exit"] = "ninguna"
           /\ ~RunSignalSinWait /\ ~ExitLiberarUno /\ ~Liberar("exit")
  <1>1. pc["exit"] \in {"tomar", "siguiente"}
    BY DEF NadaQueLiberar
  <1>2. lista["exit"] = "ninguna"
    BY <1>1 DEF Tipado, Manos, Hilos
  <1>3. ASSUME RunSignalSinWait PROVE FALSE
    <2>1. PICK p, k, rho, i : /\ p = pcb["run"] /\ k = program_counter[p]
                              /\ rho = Instruccion(p).recurso /\ i = escenario.programas[p][k]
      OBVIOUS
    <2>2. /\ pc["run"] = "cpu" /\ Es(i, "SIGNAL", rho) /\ rho \in Recursos
          /\ p \notin DOMAIN recursos_por_proceso
      BY <1>3, <2>1 DEF RunSignalSinWait, Es, Instruccion
    <2>3. /\ p \in Procesos /\ ~Acabado(p) /\ k \in 1 .. Len(escenario.programas[p])
          /\ RegistroDe(p)
      BY <2>1, <2>2, QuienEjecuta
    <2>4. Retenido(escenario.programas[p], k - 1, rho)
      BY <2>1, <2>2, <2>3, InstruccionDisciplinada
    <2>5. EnLista(Registrados(p), rho)
      BY <2>1, <2>2, <2>3, <2>4 DEF RegistroDe
    <2> QED
      BY <2>2, <2>5 DEF Registrados, EnLista
  <1>4. ASSUME ExitLiberarUno PROVE FALSE
    <2>1. pcb["exit"] \in Procesos /\ Acabado(pcb["exit"]) /\ Registrados(pcb["exit"]) # <<>>
      BY <1>4 DEF ExitLiberarUno, Va, Tipado, Manos, Hilos, Saliendo, Acabado
    <2> QED
      BY <2>1 DEF NadaQueLiberar
  <1>5. ~Liberar("exit")
    BY <1>1 DEF Liberar, LibClave, LibLista, LibQuitar, LibTamano, LibDestruir, LibCae, LibCargar,
                LibGuardar, Va
  <1> QED
    BY <1>1, <1>2, <1>3, <1>4, <1>5

LEMMA EnCalmaEnUnPaso ==
    ASSUME Tipado, Lugares, Registros, NadaQueLiberar, TodosDisciplinados, EnCalma, [Next]_vars
    PROVE  EnCalma'
  <1> USE DEF Va, Cae, colas, dicts, locales, ElRecurso, TrasLiberar, Hilos, HayClave,
              dictionary_put
  <1>a. /\ pc["exit"] \in {"tomar", "siguiente"} /\ lista["exit"] = "ninguna"
        /\ ~RunSignalSinWait /\ ~ExitLiberarUno /\ ~Liberar("exit")
    BY SoloElPlanificador
  <1>b. /\ DOMAIN pc = Hilos /\ DOMAIN recurso = Hilos /\ DOMAIN lista = Hilos
        /\ DOMAIN recursosDisponibles = Recursos
        /\ \A r \in Recursos : recursosDisponibles[r] \in Nat
        /\ DOMAIN recursosEnUso \subseteq Recursos
        /\ \A r \in DOMAIN recursosEnUso : recursosEnUso[r] \in Seq(Procesos)
        /\ pc["run"] # "siguiente"
        /\ pc["run"] \in PasosWait \cup PasosLib => recurso["run"] \in Recursos
        /\ lista["run"] # "ninguna" <=>
                pc["run"] \in {"wait_agregar", "lib_quitar", "lib_tamano", "lib_destruir"}
        /\ lista["run"] = "viva" => recurso["run"] \in DOMAIN recursosEnUso
        /\ lista["run"] \in {"ninguna", "viva", "destruida"}
        /\ pcb["run"] \in Procesos \/ pc["run"] = "tomar"
    BY DEF Tipado, TypeOK, Manos
  <1>c. (\E p \in Procesos : Admitir(p)) \/ UNCHANGED vars => EnCalma'
    BY DEF Admitir, vars, EnCalma
  <1>1. CASE Despachar
    BY <1>1, <1>a, <1>b DEF Despachar, EnCalma, PasosWait, PasosLib
  <1>2. CASE RunYield
    BY <1>2, <1>a, <1>b DEF RunYield, Retorna, EnCalma, PasosWait, PasosLib
  <1>3. CASE RunExit
    BY <1>3, <1>a, <1>b DEF RunExit, Retorna, EnCalma, PasosWait, PasosLib
  <1>4. CASE RunWait
    BY <1>4, <1>a, <1>b DEF RunWait, Retorna, EnCalma, PasosWait, PasosLib
  <1>5. CASE WaitLeer
    BY <1>5, <1>a, <1>b DEF WaitLeer, EnCalma, PasosWait, PasosLib
  <1>6. CASE WaitCargar
    BY <1>6, <1>a, <1>b DEF WaitCargar, EnCalma, PasosWait, PasosLib
  <1>7. CASE WaitGuardar
    BY <1>7, <1>a, <1>b DEF WaitGuardar, EnCalma, PasosWait, PasosLib
  <1>8. CASE WaitClave
    BY <1>8, <1>a, <1>b DEF WaitClave, EnCalma, PasosWait, PasosLib
  <1>9. CASE WaitLista
    BY <1>9, <1>a, <1>b DEF WaitLista, EnCalma, PasosWait, PasosLib
  <1>10. CASE WaitAgregar
    BY <1>10, <1>a, <1>b DEF WaitAgregar, EnCalma, PasosWait, PasosLib
  <1>11. CASE WaitNueva
    BY <1>11, <1>a, <1>b DEF WaitNueva, EnCalma, PasosWait, PasosLib
  <1>12. CASE RunSignal
    BY <1>12, <1>a, <1>b DEF RunSignal, Retorna, EnCalma, PasosWait, PasosLib
  <1>13. CASE ExitTomar
    BY <1>13, <1>a, <1>b DEF ExitTomar, EnCalma, PasosWait, PasosLib
  <1>14. CASE ExitTerminar
    BY <1>14, <1>a, <1>b DEF ExitTerminar, EnCalma, PasosWait, PasosLib
  <1>15. CASE LibClave("run")
    BY <1>15, <1>a, <1>b DEF LibClave, EnCalma, PasosWait, PasosLib
  <1>16. CASE LibLista("run")
    BY <1>16, <1>a, <1>b DEF LibLista, EnCalma, PasosWait, PasosLib
  <1>17. CASE LibQuitar("run")
    BY <1>17, <1>a, <1>b DEF LibQuitar, EnCalma, PasosWait, PasosLib
  <1>18. CASE LibTamano("run")
    BY <1>18, <1>a, <1>b DEF LibTamano, EnCalma, PasosWait, PasosLib
  <1>19. CASE LibDestruir("run")
    BY <1>19, <1>a, <1>b DEF LibDestruir, EnCalma, PasosWait, PasosLib
  <1>20. CASE LibCae("run")
    BY <1>20, <1>a, <1>b DEF LibCae, EnCalma, PasosWait, PasosLib
  <1>21. CASE LibCargar("run")
    BY <1>21, <1>a, <1>b DEF LibCargar, EnCalma, PasosWait, PasosLib
  <1>22. CASE LibGuardar("run")
    BY <1>22, <1>a, <1>b DEF LibGuardar, EnCalma, PasosWait, PasosLib
  <1> QED
    BY <1>a, <1>c, <1>1, <1>2, <1>3, <1>4, <1>5, <1>6, <1>7, <1>8, <1>9, <1>10, <1>11, <1>12,
       <1>13, <1>14, <1>15, <1>16, <1>17, <1>18, <1>19, <1>20, <1>21, <1>22
       DEF Next, HiloRun, HiloExit, Wait, Liberar

\* Nobody leaves where it is without arriving somewhere.
LEMMA UbicadoEnUnPaso ==
    ASSUME Tipado, Lugares, Registros, NadaQueLiberar, TodosDisciplinados, EnCalma, [Next]_vars,
           NEW q \in Procesos, Ubicado(q)
    PROVE  Ubicado(q)'
  <1> USE DEF Va, Cae, colas, dicts, locales, ElRecurso, TrasLiberar, Hilos, HayClave,
              dictionary_put
  <1>a. /\ pc["exit"] \in {"tomar", "siguiente"}
        /\ ~RunSignalSinWait /\ ~ExitLiberarUno /\ ~Liberar("exit")
    BY SoloElPlanificador
  <1>b. /\ DOMAIN pc = Hilos /\ DOMAIN pcb = Hilos
        /\ consolasReady \in Seq(Procesos) /\ consolasExit \in Seq(Procesos)
        /\ DOMAIN recursosEnUso \subseteq Recursos
        /\ \A r \in DOMAIN recursosEnUso : recursosEnUso[r] \in Seq(Procesos)
        /\ pc["run"] # "siguiente"
        /\ pc["run"] \in PasosWait \cup PasosLib => recurso["run"] \in Recursos
        /\ \A t \in Hilos : pc[t] # "tomar" => pcb[t] \in Procesos
        /\ \A t \in Hilos : lista[t] = "viva" => recurso[t] \in DOMAIN recursosEnUso
    BY DEF Tipado, TypeOK, Manos
  <1>c. ASSUME q \in fuera => q \in fuera' \/ EnReady(q)',
               EnReady(q) => EnReady(q)' \/ EnRun(q)',
               EnRun(q) => EnReady(q)' \/ EnRun(q)' \/ Acabado(q)'
                              \/ \E r \in Recursos : Bloqueado(q, r)',
               EnExit(q) => Acabado(q)', Saliendo(q) => Acabado(q)',
               q \in terminados => Acabado(q)',
               \A r \in Recursos : Bloqueado(q, r) => Bloqueado(q, r)' \/ EnReady(q)'
        PROVE  Ubicado(q)'
    BY <1>c DEF Ubicado, Acabado
  <1>d. ASSUME UNCHANGED <<fuera, consolasReady, consolasExit, terminados, recursosEnUso, pcb>>,
               pc'["exit"] = pc["exit"],
               pc["run"] \in {"cpu"} \cup PasosWait => pc'["run"] \in {"cpu"} \cup PasosWait
        PROVE  Ubicado(q)'
    BY <1>d, <1>c DEF EnReady, EnRun, EnExit, Saliendo, Acabado, Bloqueado
  <1>1. ASSUME NEW p \in Procesos, Admitir(p) PROVE Ubicado(q)'
    <2>1. /\ UNCHANGED <<consolasExit, terminados, recursosEnUso, pcb, pc>> /\ fuera' = fuera \ {p}
          /\ consolasReady' = Append(consolasReady, p)
      BY <1>1 DEF Admitir
    <2>2. EnReady(p)' /\ \A s : EnReady(s) => EnReady(s)'
      BY <1>b, <2>1, AgregarAlFinal DEF EnReady
    <2> QED
      BY <1>c, <2>1, <2>2 DEF EnRun, EnExit, Saliendo, Acabado, Bloqueado
  <1>2. CASE Despachar
    <2>1. PICK h : h = Head(consolasReady)
      OBVIOUS
    <2>2. \A s : EnLista(consolasReady, s) /\ s # h => EnLista(consolasReady', s)
      BY <1>2, <1>b, <2>1, QuitarElPrimero DEF Despachar
    <2>3. /\ UNCHANGED <<fuera, consolasExit, terminados, recursosEnUso>>
          /\ pcb'["run"] = h /\ pcb'["exit"] = pcb["exit"] /\ pc'["exit"] = pc["exit"]
          /\ pc["run"] = "tomar" /\ pc'["run"] = "cpu"
      BY <1>2, <1>b, <2>1 DEF Despachar
    <2> QED
      BY <1>c, <2>2, <2>3 DEF EnReady, EnRun, EnExit, Saliendo, Acabado, Bloqueado, PasosWait
  <1>3. CASE RunYield
    <2>1. PICK p : p = pcb["run"]
      OBVIOUS
    <2>2. /\ UNCHANGED <<fuera, consolasExit, terminados, recursosEnUso, pcb>>
          /\ pc["run"] = "cpu" /\ pc'["exit"] = pc["exit"] /\ p \in Procesos
          /\ consolasReady' = Append(consolasReady, p)
      BY <1>3, <1>b, <2>1 DEF RunYield, Retorna
    <2>3. EnReady(p)' /\ \A s : EnReady(s) => EnReady(s)'
      BY <1>b, <2>2, AgregarAlFinal DEF EnReady
    <2> QED
      BY <1>c, <2>1, <2>2, <2>3 DEF EnRun, EnExit, Saliendo, Acabado, Bloqueado
  <1>4. CASE RunExit
    <2>1. PICK p : p = pcb["run"]
      OBVIOUS
    <2>2. /\ UNCHANGED <<fuera, consolasReady, terminados, recursosEnUso, pcb>>
          /\ pc["run"] = "cpu" /\ pc'["exit"] = pc["exit"] /\ p \in Procesos
          /\ consolasExit' = Append(consolasExit, p)
      BY <1>4, <1>b, <2>1 DEF RunExit, Retorna
    <2>3. EnExit(p)' /\ \A s : EnExit(s) => EnExit(s)'
      BY <1>b, <2>2, AgregarAlFinal DEF EnExit
    <2> QED
      BY <1>c, <2>1, <2>2, <2>3 DEF EnReady, EnRun, Saliendo, Acabado, Bloqueado
  <1>5. CASE WaitGuardar \/ RunSignal
    <2>1. PICK p : p = pcb["run"]
      OBVIOUS
    <2>2. /\ UNCHANGED <<fuera, consolasExit, terminados, recursosEnUso, pcb>>
          /\ pc'["exit"] = pc["exit"] /\ p \in Procesos
          /\ consolasReady' = <<p>> \o consolasReady
      BY <1>5, <1>b, <2>1 DEF WaitGuardar, RunSignal, Retorna
    <2>3. EnReady(p)' /\ \A s : EnReady(s) => EnReady(s)'
      BY <1>b, <2>2, AgregarAlFrente DEF EnReady
    <2> QED
      BY <1>c, <2>1, <2>2, <2>3 DEF EnRun, EnExit, Saliendo, Acabado, Bloqueado
  <1>6. CASE WaitAgregar
    <2>1. PICK p, rho : p = pcb["run"] /\ rho = recurso["run"]
      OBVIOUS
    <2>2. /\ UNCHANGED <<fuera, consolasReady, consolasExit, terminados, pcb>>
          /\ pc'["exit"] = pc["exit"] /\ p \in Procesos /\ rho \in DOMAIN recursosEnUso
          /\ recursosEnUso' = [recursosEnUso EXCEPT ![rho] = Append(@, p)]
      BY <1>6, <1>b, <2>1 DEF WaitAgregar, EnCalma
    <2>3. PICK l : l = recursosEnUso[rho]
      OBVIOUS
    <2>4. /\ EnLista(recursosEnUso'[rho], p) /\ rho \in DOMAIN recursosEnUso'
          /\ \A s : EnLista(l, s) => EnLista(recursosEnUso'[rho], s)
      <3>1. PICK m : m = recursosEnUso'[rho]
        OBVIOUS
      <3>2. l \in Seq(Procesos) /\ m = Append(l, p) /\ rho \in DOMAIN recursosEnUso'
        BY <1>b, <2>2, <2>3, <3>1
      <3>3. EnLista(m, p) /\ \A s : EnLista(l, s) => EnLista(m, s)
        BY <2>2, <3>2, AgregarAlFinal
      <3> QED
        BY <3>1, <3>2, <3>3
    <2>5. Bloqueado(p, rho)' /\ rho \in Recursos
      BY <1>b, <2>2, <2>4 DEF Bloqueado
    <2>6. \A r \in Recursos : Bloqueado(q, r) => Bloqueado(q, r)'
      BY <2>2, <2>3, <2>4 DEF Bloqueado
    <2> QED
      BY <1>c, <2>1, <2>2, <2>5, <2>6 DEF EnReady, EnRun, EnExit, Saliendo, Acabado
  <1>7. CASE WaitNueva
    <2>1. PICK p, rho : p = pcb["run"] /\ rho = recurso["run"]
      OBVIOUS
    <2>2. /\ UNCHANGED <<fuera, consolasReady, consolasExit, terminados, pcb>>
          /\ pc'["exit"] = pc["exit"] /\ rho \notin DOMAIN recursosEnUso /\ rho \in Recursos
          /\ recursosEnUso' = dictionary_put(recursosEnUso, rho, <<p>>)
      BY <1>7, <1>b, <2>1 DEF WaitNueva, EnCalma, PasosWait
    <2>3. EnLista(<<p>>, p)
      BY DEF EnLista
    <2>4. Bloqueado(p, rho)' /\ \A r \in Recursos : Bloqueado(q, r) => Bloqueado(q, r)'
      BY <2>2, <2>3 DEF Bloqueado
    <2> QED
      BY <1>c, <2>1, <2>2, <2>4 DEF EnReady, EnRun, EnExit, Saliendo, Acabado
  <1>8. CASE LibQuitar("run")
    <2>1. PICK rho, l : rho = recurso["run"] /\ l = recursosEnUso[rho]
      OBVIOUS
    <2>2. PICK h : h = Head(l)
      OBVIOUS
    <2>3. /\ UNCHANGED <<fuera, consolasExit, terminados, pcb>>
          /\ pc'["exit"] = pc["exit"] /\ rho \in DOMAIN recursosEnUso
          /\ pc["run"] = "lib_quitar" /\ l \in Seq(Procesos) /\ l # <<>>
          /\ recursosEnUso' = [recursosEnUso EXCEPT ![rho] = Tail(@)]
          /\ consolasReady' = Append(consolasReady, h)
      BY <1>8, <1>b, <2>1, <2>2 DEF LibQuitar
    <2>4. h \in Procesos /\ \A s : EnLista(l, s) /\ s # h => EnLista(recursosEnUso'[rho], s)
      <3>1. recursosEnUso'[rho] = Tail(l)
        BY <2>1, <2>3
      <3> QED
        BY <2>2, <2>3, <3>1, QuitarElPrimero
    <2>5. EnReady(h)' /\ \A s : EnReady(s) => EnReady(s)'
      BY <1>b, <2>3, <2>4, AgregarAlFinal DEF EnReady
    <2>6. \A r \in Recursos : Bloqueado(q, r) => Bloqueado(q, r)' \/ EnReady(q)'
      BY <2>1, <2>3, <2>4, <2>5 DEF Bloqueado
    <2> QED
      BY <1>c, <2>3, <2>5, <2>6 DEF EnRun, EnExit, Saliendo, Acabado, PasosWait
  <1>9. CASE LibDestruir("run")
    <2>1. PICK rho : rho = recurso["run"]
      OBVIOUS
    <2>2. /\ UNCHANGED <<fuera, consolasReady, consolasExit, terminados, pcb>>
          /\ pc'["exit"] = pc["exit"] /\ pc["run"] = "lib_destruir"
          /\ recursosEnUso' = [r \in DOMAIN recursosEnUso \ {rho} |-> recursosEnUso[r]]
          /\ recursosEnUso[rho] = <<>>
      BY <1>9, <1>b, <2>1 DEF LibDestruir, EnCalma
    <2>3. ~EnLista(<<>>, q)
      BY DEF EnLista
    <2>4. \A r \in Recursos : Bloqueado(q, r) => Bloqueado(q, r)'
      BY <2>2, <2>3 DEF Bloqueado
    <2> QED
      BY <1>c, <2>2, <2>4 DEF EnReady, EnRun, EnExit, Saliendo, Acabado, PasosWait
  <1>10. CASE ExitTomar
    <2>1. PICK h : h = Head(consolasExit)
      OBVIOUS
    <2>2. \A s : EnLista(consolasExit, s) /\ s # h => EnLista(consolasExit', s)
      BY <1>10, <1>b, <2>1, QuitarElPrimero DEF ExitTomar
    <2>3. /\ UNCHANGED <<fuera, consolasReady, terminados, recursosEnUso>>
          /\ pcb'["exit"] = h /\ pcb'["run"] = pcb["run"] /\ pc'["run"] = pc["run"]
          /\ pc["exit"] = "tomar" /\ pc'["exit"] = "siguiente"
      BY <1>10, <1>b, <2>1 DEF ExitTomar
    <2> QED
      BY <1>c, <2>2, <2>3 DEF EnReady, EnRun, EnExit, Saliendo, Acabado, Bloqueado
  <1>11. CASE ExitTerminar
    BY <1>11, <1>b, <1>c DEF ExitTerminar, EnReady, EnRun, EnExit, Saliendo, Acabado, Bloqueado
  <1>12. CASE RunWait
    BY <1>12, <1>b, <1>d DEF RunWait, Retorna, PasosWait
  <1>13. CASE WaitLeer
    BY <1>13, <1>b, <1>d DEF WaitLeer, PasosWait
  <1>14. CASE WaitCargar
    BY <1>14, <1>b, <1>d DEF WaitCargar, PasosWait
  <1>15. CASE WaitClave
    BY <1>15, <1>b, <1>d DEF WaitClave, PasosWait
  <1>16. CASE WaitLista
    BY <1>16, <1>b, <1>d DEF WaitLista, EnCalma, PasosWait
  <1>17. CASE LibClave("run")
    BY <1>17, <1>b, <1>d DEF LibClave, PasosWait
  <1>18. CASE LibLista("run")
    BY <1>18, <1>b, <1>d DEF LibLista, PasosWait
  <1>19. CASE LibTamano("run")
    BY <1>19, <1>b, <1>d DEF LibTamano, PasosWait
  <1>20. CASE LibCae("run")
    BY <1>20, <1>b, <1>d DEF LibCae, PasosWait
  <1>21. CASE LibCargar("run")
    BY <1>21, <1>b, <1>d DEF LibCargar, PasosWait
  <1>22. CASE LibGuardar("run")
    BY <1>22, <1>b, <1>d DEF LibGuardar, PasosWait
  <1>23. CASE UNCHANGED vars
    BY <1>23, <1>d DEF vars
  <1> QED
    BY <1>a, <1>1, <1>2, <1>3, <1>4, <1>5, <1>6, <1>7, <1>8, <1>9, <1>10, <1>11, <1>12,
       <1>13, <1>14, <1>15, <1>16, <1>17, <1>18, <1>19, <1>20, <1>21, <1>22, <1>23
       DEF Next, HiloRun, HiloExit, Wait, Liberar

LEMMA SiempreCalma == Spec => []Calma
  <1>1. Tipado /\ Lugares /\ Registros /\ NadaQueLiberar /\ Calma /\ [Next]_vars => Calma'
    <2> SUFFICES ASSUME Tipado, Lugares, Registros, NadaQueLiberar, Calma, [Next]_vars,
                        TodosDisciplinados'
                 PROVE  EnCalma' /\ \A q \in Procesos : Ubicado(q)'
      BY DEF Calma
    <2>1. escenario' = escenario
      BY MismoEscenario
    <2>2. TodosDisciplinados /\ EnCalma /\ \A q \in Procesos : Ubicado(q)
      BY <2>1 DEF TodosDisciplinados, Calma
    <2> QED
      BY <2>2, EnCalmaEnUnPaso, UbicadoEnUnPaso
  <1> QED
    BY <1>1, CalmaAlInicio, SiempreTipado, SiempreLugares, SiempreRegistros, SiempreNadaQueLiberar,
       PTL DEF Spec

\* When programs return what they take, nobody waits for a resource that has an instance, and
\* an entry of recursosEnUso has somebody waiting (kernel.h 328-360, 399-435).
THEOREM SoloSinInstancias == Spec => []EsperaSoloSinInstancias
  <1>1. Calma => EsperaSoloSinInstancias
    BY DEF Calma, EnCalma, EsperaSoloSinInstancias
  <1> QED
    BY <1>1, SiempreCalma, PTL

\* A list without repetitions names p once or not at all.
LEMMA UnaAparicion ==
    ASSUME NEW l, SinRepetidos(l), NEW p
    PROVE  /\ EnLista(l, p) => Apariciones(l, p) = 1
           /\ ~EnLista(l, p) => Apariciones(l, p) = 0
  <1>1. ASSUME NEW i \in DOMAIN l, l[i] = p PROVE Apariciones(l, p) = 1
    <2>1. {j \in DOMAIN l : l[j] = p} = {i}
      BY <1>1 DEF SinRepetidos
    <2> QED
      BY <2>1, FS_Singleton DEF Apariciones
  <1>2. ASSUME ~EnLista(l, p) PROVE Apariciones(l, p) = 0
    <2>1. {j \in DOMAIN l : l[j] = p} = {}
      BY <1>2 DEF EnLista
    <2> QED
      BY <2>1, FS_EmptySet DEF Apariciones
  <1> QED
    BY <1>1, <1>2 DEF EnLista

\* When programs return what they take, a process is always in exactly one place, and the kernel
\* does not fall: no list is destroyed with somebody in it (kernel.h 314-435).
THEOREM NadieSePierdeNunca == Spec => []NadieSePierde
  <1>1. Tipado /\ Lugares /\ Calma => NadieSePierde
    <2> SUFFICES ASSUME Tipado, Lugares, Calma, TodosDisciplinados, NEW p \in Procesos
                 PROVE  /\ ~caido
                        /\ Cuenta(p \in fuera) + Cuenta(p \in terminados)
                             + Apariciones(consolasReady, p) + Apariciones(consolasExit, p)
                             + Cuenta(pc["run"] = "cpu" /\ pcb["run"] = p)
                             + Cuenta(\E r \in Recursos : Pidiendo(p, r))
                             + Cuenta(pc["exit"] # "tomar" /\ pcb["exit"] = p)
                             + Cardinality({r \in Recursos : Bloqueado(p, r)}) = 1
      <3>1. TodosDisciplinados /\ Calma => ~caido
        BY DEF Calma, EnCalma
      <3> QED
        BY <3>1 DEF NadieSePierde
    <2>1. ~caido /\ Ubicado(p)
      BY DEF Calma, EnCalma
    <2>2. PICK a, b : a = Apariciones(consolasReady, p) /\ b = Apariciones(consolasExit, p)
      OBVIOUS
    <2>3. /\ EnReady(p) => a = 1
          /\ ~EnReady(p) => a = 0
          /\ EnExit(p) => b = 1
          /\ ~EnExit(p) => b = 0
      <3>1. SinRepetidos(consolasReady) /\ SinRepetidos(consolasExit)
        BY DEF Lugares
      <3> QED
        BY <2>2, <3>1, UnaAparicion DEF EnReady, EnExit
    <2>4. PICK c, d : /\ c = Cuenta(pc["run"] = "cpu" /\ pcb["run"] = p)
                      /\ d = Cuenta(\E r \in Recursos : Pidiendo(p, r))
      OBVIOUS
    <2>5. /\ EnRun(p) => c + d = 1
          /\ ~EnRun(p) => c + d = 0
          /\ c \in Nat /\ d \in Nat
      <3>1. pc["run"] \in PasosWait => recurso["run"] \in Recursos
        BY DEF Tipado, Manos, Hilos
      <3>2. (\E r \in Recursos : Pidiendo(p, r)) <=> pc["run"] \in PasosWait /\ pcb["run"] = p
        BY <3>1 DEF Pidiendo, PasosWait
      <3> QED
        BY <2>4, <3>2 DEF Cuenta, EnRun, PasosWait
    <2>6. PICK e : e = Cardinality({r \in Recursos : Bloqueado(p, r)})
      OBVIOUS
    <2>7. /\ (\E r \in Recursos : Bloqueado(p, r)) => e = 1
          /\ ~(\E r \in Recursos : Bloqueado(p, r)) => e = 0
      <3>1. ASSUME NEW r \in Recursos, Bloqueado(p, r) PROVE e = 1
        <4>1. {s \in Recursos : Bloqueado(p, s)} = {r}
          BY <3>1 DEF Lugares
        <4> QED
          BY <2>6, <4>1, FS_Singleton
      <3>2. ASSUME ~(\E r \in Recursos : Bloqueado(p, r)) PROVE e = 0
        <4>1. {s \in Recursos : Bloqueado(p, s)} = {}
          BY <3>2
        <4> QED
          BY <2>6, <4>1, FS_EmptySet
      <3> QED
        BY <3>1, <3>2
    <2>8. PICK f, g, h : /\ f = Cuenta(p \in fuera) /\ g = Cuenta(p \in terminados)
                         /\ h = Cuenta(pc["exit"] # "tomar" /\ pcb["exit"] = p)
      OBVIOUS
    <2>9. /\ p \in fuera => f = 1
          /\ p \notin fuera => f = 0
          /\ p \in terminados => g = 1
          /\ p \notin terminados => g = 0
          /\ Saliendo(p) => h = 1
          /\ ~Saliendo(p) => h = 0
      BY <2>8 DEF Cuenta, Saliendo
    <2>10. PICK bloq : bloq = \E r \in Recursos : Bloqueado(p, r)
      OBVIOUS
    <2>11. /\ p \in fuera => ~EnReady(p) /\ ~EnRun(p) /\ ~Acabado(p)
           /\ EnReady(p) => ~EnRun(p) /\ ~Acabado(p)
           /\ EnRun(p) => ~Acabado(p)
           /\ EnExit(p) => ~Saliendo(p) /\ p \notin terminados
           /\ Saliendo(p) => p \notin terminados
           /\ bloq => p \notin fuera /\ ~EnReady(p) /\ ~EnRun(p) /\ ~Acabado(p)
      BY <2>10 DEF Lugares
    <2>12. (bloq => e = 1) /\ (~bloq => e = 0)
      BY <2>7, <2>10
    <2>13. \/ p \in fuera \/ EnReady(p) \/ EnRun(p)
           \/ EnExit(p) \/ Saliendo(p) \/ p \in terminados \/ bloq
      BY <2>1, <2>10 DEF Ubicado, Acabado
    <2>14. f + g + a + b + c + d + h + e = 1
      BY <2>3, <2>5, <2>9, <2>11, <2>12, <2>13 DEF Acabado
    <2> QED
      BY <2>1, <2>2, <2>4, <2>6, <2>8, <2>14
  <1> QED
    BY <1>1, SiempreTipado, SiempreLugares, SiempreCalma, PTL
=============================================================================
