------------------------------ MODULE CPUProofs ------------------------------
(***************************************************************************)
(* What holds of CPU for every set of processes, registers, characters,   *)
(* sizes of the memory and of its segments, and instructions.             *)
(***************************************************************************)
EXTENDS CPU, TLAPS, SequenceTheorems, FiniteSetTheorems, WellFoundedInduction

\* A segment that is in the memory.
Numeros == 0 .. TAM_MEMORIA
Segmentos == {s \in [ID : Nat, base : Numeros, limite : Numeros] : s.base + s.limite <= TAM_MEMORIA}

-----------------------------------------------------------------------------
(* The operators of the model *)

LEMMA Tamanios ==
    /\ TAM_MEMORIA \in Nat /\ TAM_MAX_SEGMENTO \in Nat \ {0}
    /\ TAM_SEGMENTO_0 \in Nat /\ TAM_SEGMENTO_0 <= TAM_MEMORIA
  BY CPUAssumption

LEMMA Letras == "0" \in Caracteres /\ " " \in Caracteres
  BY CPUAssumption

LEMMA Anchos == \A r \in Registros : Ancho[r] \in Nat
  BY CPUAssumption DEF Registros

LEMMA HayMinimo ==
    ASSUME NEW S \in SUBSET Nat, S # {}
    PROVE  Min(S) \in S /\ \A x \in S : Min(S) <= x
  <1> DEFINE R == OpToRel(<, Nat)
  <1>1. IsWellFoundedOn(R, Nat)
    BY NatLessThanWellFounded
  <1>2. \A x, y \in Nat : <<y, x>> \in R <=> y < x
    BY DEF OpToRel
  <1> HIDE DEF R
  <1>3. \E x \in S : \A y \in S : ~ (<<y, x>> \in R)
    BY <1>1, WFMin
  <1>4. \E x \in S : \A y \in S : x =< y
    <2>1. PICK x \in S : \A y \in S : ~ (<<y, x>> \in R)
      BY <1>3
    <2>2. ASSUME NEW y \in S PROVE x =< y
      <3>1. x \in Nat /\ y \in Nat /\ ~ (<<y, x>> \in R)
        BY <2>1
      <3>2. ~ (y < x)
        BY <1>2, <3>1
      <3> QED
        BY <3>1, <3>2
    <2> QED
      BY <2>2
  <1> QED
    BY <1>4 DEF Min

LEMMA Seleccion ==
    ASSUME NEW t, Len(t) \in Nat, NEW id
    PROVE  Segmento(t, id) \in 0 .. Len(t)
  <1> DEFINE I == {i \in 1 .. Len(t) : t[i].ID = id}
  <1>1. Segmento(t, id) = IF I # {} THEN Min(I) ELSE 0
    BY DEF Segmento, SelectInSeq
  <1>2. I # {} => Min(I) \in I
    BY HayMinimo
  <1> QED
    BY <1>1, <1>2

\* An access that the MMU lets through is in the memory.
LEMMA TraduceEnMemoria ==
    ASSUME NEW t \in Seq(Segmentos), NEW dir \in Nat, NEW n \in Nat
    PROVE  MMU(t, dir, n) # -1 => MMU(t, dir, n) \in Nat /\ MMU(t, dir, n) + n <= TAM_MEMORIA
  <1> DEFINE i == Segmento(t, dir \div TAM_MAX_SEGMENTO)
             d == dir % TAM_MAX_SEGMENTO
  <1>1. TAM_MEMORIA \in Nat /\ TAM_MAX_SEGMENTO \in Nat \ {0}
    BY Tamanios
  <1>2. d \in Nat
    BY <1>1
  <1>3. i \in 0 .. Len(t)
    BY Seleccion, LenProperties
  <1>4. CASE i = 0
    BY <1>4 DEF MMU
  <1>5. CASE i # 0
    <2>1. t[i] \in Segmentos
      BY <1>3, <1>5, LenProperties
    <2>2. t[i].base \in Nat /\ t[i].limite \in Nat /\ t[i].base + t[i].limite <= TAM_MEMORIA
      BY <1>1, <2>1 DEF Segmentos, Numeros
    <2>3. MMU(t, dir, n) = IF t[i].base + d + n > t[i].base + t[i].limite THEN -1
                           ELSE t[i].base + d
      BY <1>5 DEF MMU
    <2>4. \A b \in Nat : \A l \in Nat : \A e \in Nat : \A v \in Int :
             /\ v = IF b + e + n > b + l THEN -1 ELSE b + e
             /\ b + l <= TAM_MEMORIA
             => (v # -1 => v \in Nat /\ v + n <= TAM_MEMORIA)
      BY <1>1
    <2> HIDE DEF i, d
    <2>5. MMU(t, dir, n) \in Int
      BY <1>2, <2>2, <2>3
    <2> QED
      BY <1>2, <2>2, <2>3, <2>4, <2>5
  <1> QED
    BY <1>4, <1>5

\* A register keeps its width.
LEMMA CargarTexto ==
    ASSUME NEW n \in Nat, NEW reg \in Textos(n), NEW valor \in Seq(Caracteres)
    PROVE  Cargar(reg, valor) \in Textos(n)
  <1>1. reg \in Seq(Caracteres) /\ Len(reg) = n
    BY SeqDef, LenProperties DEF Textos
  <1>2. Len(valor) \in Nat /\ \A i \in 1 .. Len(valor) : valor[i] \in Caracteres
    BY LenProperties
  <1>3. \A i \in 1 .. n : reg[i] \in Caracteres
    BY DEF Textos
  <1>4. \A i \in 1 .. n : (IF i <= Len(valor) THEN valor[i] ELSE "0") \in Caracteres
    <2> SUFFICES ASSUME NEW i \in 1 .. n
                 PROVE  (IF i <= Len(valor) THEN valor[i] ELSE "0") \in Caracteres
      OBVIOUS
    <2>1. i <= Len(valor) => valor[i] \in Caracteres
      BY <1>2
    <2> QED
      BY <2>1, Letras, Zenon
  <1>5. [i \in 1 .. n |-> IF i <= Len(valor) THEN valor[i] ELSE "0"] \in Textos(n)
    BY <1>4, Zenon DEF Textos
  <1> QED
    BY <1>1, <1>5 DEF Cargar

LEMMA TextoEsSecuencia ==
    ASSUME NEW n \in Nat, NEW reg \in Textos(n)
    PROVE  reg \in Seq(Caracteres) /\ Len(reg) = n /\ DOMAIN reg = 1 .. n
  BY SeqDef, LenProperties DEF Textos

LEMMA InicialEsSecuencia ==
    ASSUME NEW r \in Registros
    PROVE  INICIAL \in Seq(Caracteres)
  <1> DEFINE S == {Ancho[q] : q \in Registros}
  <1>1. S \in SUBSET Nat /\ S # {}
    BY Anchos
  <1>2. Min(S) \in Nat
    BY <1>1, HayMinimo
  <1>3. INICIAL \in [1 .. Min(S) -> Caracteres]
    BY Letras DEF INICIAL
  <1> QED
    BY <1>2, <1>3, SeqDef

\* DELETE_SEGMENT: what stays of the table is a table.
LEMMA TablaSinUno ==
    ASSUME NEW t \in Seq(Segmentos), NEW i \in 0 .. Len(t)
    PROVE  RemoveAt(t, i) \in Seq(Segmentos)
  <1>1. Len(t) \in Nat /\ \A j \in 1 .. Len(t) : t[j] \in Segmentos
    BY LenProperties
  <1>2. SubSeq(t, 1, i - 1) \in Seq(Segmentos)
    BY <1>1, SubSeqProperties
  <1>3. SubSeq(t, i + 1, Len(t)) \in Seq(Segmentos)
    BY <1>1, SubSeqProperties
  <1> QED
    BY <1>2, <1>3, ConcatProperties DEF RemoveAt

\* CREATE_SEGMENT.
LEMMA TablaConUnoMas ==
    ASSUME NEW t \in Seq(Segmentos), NEW id \in Nat, NEW b \in Nat, NEW n \in Nat,
           b + n <= TAM_MEMORIA
    PROVE  Append(t, [ID |-> id, base |-> b, limite |-> n]) \in Seq(Segmentos)
  <1>1. [ID |-> id, base |-> b, limite |-> n] \in Segmentos
    BY Tamanios DEF Segmentos, Numeros
  <1> QED
    BY <1>1, AppendProperties

LEMMA Segmento0EsSegmento == Segmento0 \in Segmentos /\ <<Segmento0>> \in Seq(Segmentos)
  BY Tamanios DEF Segmento0, Segmentos, Numeros

\* A compaction moves a segment towards 0.
LEMMA BaseBaja ==
    ASSUME diccionario_tablas \in [Procesos -> Seq(Segmentos)], NEW s \in Segmentos
    PROVE  BaseCompacta(s) \in 0 .. s.base
  <1>1. TAM_MEMORIA \in Nat /\ s.base \in Nat
    BY Tamanios DEF Segmentos, Numeros
  <1>2. \A d \in Ocupadas : d \in Nat
    <2> SUFFICES ASSUME NEW d \in Ocupadas PROVE d \in Nat
      OBVIOUS
    <2>0. PICK p \in Procesos : \E r \in Range(diccionario_tablas[p]) : d \in Rango(r)
      BY DEF Ocupadas
    <2>1. PICK r \in Range(diccionario_tablas[p]) : d \in Rango(r)
      BY <2>0
    <2>2. PICK j \in DOMAIN diccionario_tablas[p] : r = diccionario_tablas[p][j]
      BY <2>1 DEF Range
    <2>3. r \in Segmentos
      BY <2>2
    <2> QED
      BY <1>1, <2>1, <2>3 DEF Rango, Segmentos, Numeros
  <1>3. {d \in Ocupadas : d < s.base} \in SUBSET (0 .. s.base - 1)
    BY <1>1, <1>2
  <1> DEFINE b == s.base
  <1>3a. 0 \in Int /\ b - 1 \in Int /\ b = b - 1 - 0 + 1 /\ (0 > b - 1 <=> b = 0)
    BY <1>1
  <1>4. IsFiniteSet(0 .. s.base - 1) /\ Cardinality(0 .. s.base - 1) = s.base
    <2> HIDE DEF b
    <2>1. IsFiniteSet(0 .. b - 1) /\ Cardinality(0 .. b - 1) = b
      BY <1>3a, FS_Interval
    <2> QED
      BY <2>1 DEF b
  <1>5. /\ IsFiniteSet({d \in Ocupadas : d < s.base})
        /\ Cardinality({d \in Ocupadas : d < s.base}) <= Cardinality(0 .. s.base - 1)
    BY <1>3, <1>4, FS_Subset
  <1>6. Cardinality({d \in Ocupadas : d < s.base}) \in Nat
    BY <1>5, FS_CardinalityType
  <1> QED
    BY <1>1, <1>4, <1>5, <1>6 DEF BaseCompacta

LEMMA TablaCompactada ==
    ASSUME diccionario_tablas \in [Procesos -> Seq(Segmentos)], NEW t \in Seq(Segmentos)
    PROVE  Compactada(t) \in Seq(Segmentos)
  <1>1. DOMAIN t = 1 .. Len(t) /\ Len(t) \in Nat /\ \A i \in 1 .. Len(t) : t[i] \in Segmentos
    BY LenProperties
  <1>2. ASSUME NEW i \in 1 .. Len(t)
        PROVE  [t[i] EXCEPT !.base = BaseCompacta(t[i])] \in Segmentos
    <2>1. BaseCompacta(t[i]) \in 0 .. t[i].base
      BY <1>1, BaseBaja
    <2>2. [t[i] EXCEPT !.base = BaseCompacta(t[i])]
            = [ID |-> t[i].ID, base |-> BaseCompacta(t[i]), limite |-> t[i].limite]
      BY <1>1 DEF Segmentos
    <2>3. /\ t[i].ID \in Nat /\ t[i].base \in Numeros /\ t[i].limite \in Numeros
          /\ t[i].base + t[i].limite <= TAM_MEMORIA
      BY <1>1 DEF Segmentos
    <2>4. /\ BaseCompacta(t[i]) \in Numeros
          /\ BaseCompacta(t[i]) + t[i].limite <= TAM_MEMORIA
      BY <2>1, <2>3, Tamanios DEF Numeros
    <2> QED
      BY <2>2, <2>3, <2>4 DEF Segmentos
  <1>3. Compactada(t) \in [1 .. Len(t) -> Segmentos]
    BY <1>1, <1>2 DEF Compactada
  <1> QED
    BY <1>1, <1>3, SeqDef

-----------------------------------------------------------------------------
(* The inductive invariant *)

Lugares == {"ready", "cpu", "kernel", "fs", "exit", "fin"}

DeLaCPU == {f \in [Registros -> Seq(Caracteres)] : \A r \in Registros : f[r] \in Textos(Ancho[r])}
DelPCB == {f \in [Registros -> Seq(Caracteres)] :
              \A r \in Registros : f[r] \in {INICIAL} \cup Textos(Ancho[r])}

Guardado == [program_counter : Nat, registros : DelPCB, tablaSegmentos : Seq(Segmentos)]
Contextos == [PID : Procesos, program_counter : Nat, registros : DelPCB,
              tablaSegmentos : Seq(Segmentos)]

Tipado ==
    /\ escenario \in Escenarios
    /\ lugar \in [Procesos -> Lugares]
    /\ PCB \in [Procesos -> Guardado]
    /\ pedido \in [Procesos -> Instrucciones \cup {SinPedido}]
    /\ fisica \in [Procesos -> Numeros]
    /\ lista_registros \in DeLaCPU
    /\ diccionario_tablas \in [Procesos -> Seq(Segmentos)]
    /\ user_space \in [Direcciones -> Caracteres]
    /\ caido \in BOOLEAN

\* Only a program that ended has counted its EXIT.
Contados == \A p \in Procesos :
    /\ PCB[p].program_counter <= escenario.lineas + 1
    /\ lugar[p] \in {"ready", "kernel", "fs"} => PCB[p].program_counter <= escenario.lineas

ContextoDeAlguien == contexto # SinContexto =>
    /\ contexto \in Contextos
    /\ lugar[PID] = "cpu" /\ contexto.program_counter <= escenario.lineas

\* The kernel answers a segment request before it gives the CPU to another process.
UnoSolo == \A p, q \in Procesos :
    lugar[p] \in {"cpu", "kernel"} /\ lugar[q] \in {"cpu", "kernel"} => p = q

CPUInv == Tipado /\ Contados /\ ContextoDeAlguien /\ UnoSolo /\ TablasAlDia

LEMMA ElRegistroSeGuarda == DeLaCPU \subseteq DelPCB
  BY DEF DeLaCPU, DelPCB

LEMMA NuevoEsGuardado == PCBNuevo \in Guardado
  <1>1. [r \in Registros |-> INICIAL] \in DelPCB
    BY InicialEsSecuencia DEF DelPCB
  <1> QED
    BY <1>1, Segmento0EsSegmento DEF PCBNuevo, Guardado

\* The registers after a SET, a MOV_IN or a context switch.
LEMMA CargarUno ==
    ASSUME NEW f \in DeLaCPU, NEW r \in Registros, NEW valor \in Seq(Caracteres)
    PROVE  [f EXCEPT ![r] = Cargar(@, valor)] \in DeLaCPU
  <1>1. Ancho[r] \in Nat /\ f[r] \in Textos(Ancho[r])
    BY Anchos DEF DeLaCPU
  <1>2. Cargar(f[r], valor) \in Textos(Ancho[r])
    BY <1>1, CargarTexto
  <1>3. Cargar(f[r], valor) \in Seq(Caracteres)
    BY <1>1, <1>2, TextoEsSecuencia
  <1> QED
    BY <1>2, <1>3 DEF DeLaCPU

LEMMA CargarTodos ==
    ASSUME NEW f \in DeLaCPU, NEW g \in DelPCB
    PROVE  [r \in Registros |-> Cargar(f[r], g[r])] \in DeLaCPU
  <1>1. ASSUME NEW r \in Registros
        PROVE  Cargar(f[r], g[r]) \in Textos(Ancho[r]) /\ Cargar(f[r], g[r]) \in Seq(Caracteres)
    <2>1. Ancho[r] \in Nat /\ f[r] \in Textos(Ancho[r]) /\ g[r] \in Seq(Caracteres)
      BY Anchos DEF DeLaCPU, DelPCB
    <2>2. Cargar(f[r], g[r]) \in Textos(Ancho[r])
      BY <2>1, CargarTexto
    <2> QED
      BY <2>1, <2>2, TextoEsSecuencia
  <1> QED
    BY <1>1 DEF DeLaCPU

LEMMA InvAlInicio == Init => CPUInv
  <1> SUFFICES ASSUME Init PROVE CPUInv
    OBVIOUS
  <1>1. lista_registros \in DeLaCPU
    <2>1. ASSUME NEW r \in Registros PROVE [i \in 1 .. Ancho[r] |-> "0"] \in Textos(Ancho[r])
      BY Letras DEF Textos
    <2>2. ASSUME NEW r \in Registros PROVE [i \in 1 .. Ancho[r] |-> "0"] \in Seq(Caracteres)
      BY <2>1, Anchos, TextoEsSecuencia
    <2> QED
      BY <2>1, <2>2 DEF Init, DeLaCPU
  <1>2. escenario.lineas \in Nat
    BY CPUAssumption DEF Init
  <1>3. user_space \in [Direcciones -> Caracteres]
    BY Letras DEF Init
  <1>4. lugar \in [Procesos -> Lugares] /\ pedido \in [Procesos -> Instrucciones \cup {SinPedido}]
    BY Zenon DEF Init, Lugares
  <1>5. fisica \in [Procesos -> Numeros]
    <2>1. 0 \in Numeros
      BY Tamanios DEF Numeros
    <2> QED
      BY <2>1, Zenon DEF Init
  <1>6. PCB \in [Procesos -> Guardado] /\ diccionario_tablas \in [Procesos -> Seq(Segmentos)]
    BY NuevoEsGuardado, Segmento0EsSegmento DEF Init
  <1>7. Tipado
    BY <1>1, <1>3, <1>4, <1>5, <1>6 DEF Init, Tipado
  <1>8. Contados
    <2>1. \A p \in Procesos : PCB[p].program_counter = 0
      BY DEF Init, PCBNuevo
    <2> QED
      BY <1>2, <2>1 DEF Contados
  <1>9. TablasAlDia
    BY DEF Init, TablasAlDia, PCBNuevo
  <1> QED
    BY <1>7, <1>8, <1>9 DEF Init, CPUInv, ContextoDeAlguien, UnoSolo
-----------------------------------------------------------------------------
(* The steps that keep it *)

LEMMA InstruccionTipada ==
    ASSUME NEW ins \in Instrucciones
    PROVE  /\ ins.op = "SET" => ins.valor \in Seq(Caracteres)
           /\ ins.op \in {"MOV_IN", "MOV_OUT", "F_READ", "F_WRITE"} => ins.direccion \in Nat
           /\ ins.op \in {"F_READ", "F_WRITE", "CREATE_SEGMENT"} => ins.bytes \in Nat
           /\ ins.op = "CREATE_SEGMENT" => ins.segmento \in Nat
  BY InstruccionesAssumption

\* The context that the CPU works on.
LEMMA HayContexto ==
    ASSUME CPUInv, NEW ins, Fetch(ins)
    PROVE  /\ PID \in Procesos /\ lugar[PID] = "cpu"
           /\ contexto \in Contextos /\ contexto # SinContexto
           /\ contexto.program_counter \in Nat /\ escenario.lineas \in Nat
           /\ contexto.program_counter <= escenario.lineas
           /\ ins.op # "EXIT" => contexto.program_counter + 1 <= escenario.lineas
           /\ contexto.registros \in DelPCB
           /\ contexto.tablaSegmentos \in Seq(Segmentos)
           /\ contexto.tablaSegmentos = diccionario_tablas[PID]
  <1>1. contexto \in Contextos /\ lugar[PID] = "cpu"
        /\ contexto.program_counter <= escenario.lineas
    BY DEF CPUInv, ContextoDeAlguien, Fetch
  <1>2. escenario.lineas \in Nat
    BY CPUAssumption DEF CPUInv, Tipado
  <1>3. contexto.tablaSegmentos = diccionario_tablas[PID] /\ contexto # SinContexto
    BY DEF CPUInv, TablasAlDia, Fetch
  <1>4. /\ PID \in Procesos /\ contexto.program_counter \in Nat
        /\ contexto.registros \in DelPCB /\ contexto.tablaSegmentos \in Seq(Segmentos)
    BY <1>1 DEF Contextos, PID
  <1>5. ins.op # "EXIT" => contexto.program_counter < escenario.lineas
    BY DEF Fetch
  <1>6. ins.op # "EXIT" => contexto.program_counter + 1 <= escenario.lineas
    BY <1>2, <1>4, <1>5
  <1> QED
    BY <1>1, <1>2, <1>3, <1>4, <1>6

\* An instruction after which the CPU goes on.
LEMMA SigueEnLaCPU ==
    ASSUME CPUInv, NEW ins, Fetch(ins), ins.op # "EXIT", Avanza,
           lista_registros' \in DeLaCPU, user_space' \in [Direcciones -> Caracteres],
           UNCHANGED <<lugar, PCB, parametros, diccionario_tablas, caido, escenario>>
    PROVE  CPUInv'
  <1>1. /\ contexto' \in Contextos
        /\ contexto'.PID = contexto.PID /\ contexto'.tablaSegmentos = contexto.tablaSegmentos
        /\ contexto'.program_counter = contexto.program_counter + 1
    BY HayContexto DEF Avanza, Contextos
  <1>2. Tipado' /\ Contados' /\ UnoSolo'
    BY DEF CPUInv, Tipado, Contados, UnoSolo, parametros
  <1>3. ContextoDeAlguien'
    BY <1>1, HayContexto DEF ContextoDeAlguien, PID
  <1>4. TablasAlDia'
    BY <1>1, HayContexto DEF CPUInv, TablasAlDia, PID, parametros
  <1> QED
    BY <1>2, <1>3, <1>4 DEF CPUInv

\* An instruction that gives the CPU back.
LEMMA DejaLaCPU ==
    ASSUME CPUInv, NEW ins, Fetch(ins), NEW regs \in DelPCB,
           NEW hasta \in {"ready", "kernel", "fs", "exit"},
           hasta = "exit" \/ ins.op # "EXIT", Devuelve(regs, hasta),
           pedido' \in [Procesos -> Instrucciones \cup {SinPedido}],
           fisica' \in [Procesos -> Numeros],
           UNCHANGED <<lista_registros, memoria, caido, escenario>>
    PROVE  CPUInv'
  <1>0. PICK p \in Procesos : p = PID
    BY HayContexto
  <1>1. PICK g : g = [program_counter |-> contexto.program_counter + 1, registros |-> regs,
                      tablaSegmentos |-> contexto.tablaSegmentos]
    OBVIOUS
  <1>2. /\ g \in Guardado /\ g.tablaSegmentos = diccionario_tablas[p]
        /\ g.program_counter <= escenario.lineas + 1
        /\ hasta # "exit" => g.program_counter <= escenario.lineas
    <2>1. /\ g.program_counter = contexto.program_counter + 1 /\ g.registros = regs
          /\ g.tablaSegmentos = contexto.tablaSegmentos
      BY <1>1
    <2> QED
      BY <1>0, <1>1, <2>1, HayContexto DEF Guardado
  <1>3. PCB' = [PCB EXCEPT ![p] = g] /\ lugar' = [lugar EXCEPT ![p] = hasta]
        /\ contexto' = SinContexto
    BY <1>0, <1>1 DEF Devuelve
  <1>4. lugar[p] = "cpu" /\ lugar \in [Procesos -> Lugares] /\ PCB \in [Procesos -> Guardado]
    BY <1>0, HayContexto DEF CPUInv, Tipado
  <1>5. lugar' \in [Procesos -> Lugares] /\ PCB' \in [Procesos -> Guardado]
    BY <1>2, <1>3, <1>4 DEF Lugares
  <1>6. /\ PCB'[p] = g /\ lugar'[p] = hasta
        /\ \A q \in Procesos \ {p} : PCB'[q] = PCB[q] /\ lugar'[q] = lugar[q]
    BY <1>3, <1>4
  <1>7. Tipado'
    BY <1>5 DEF CPUInv, Tipado, memoria
  <1>8. Contados'
    BY <1>2, <1>6 DEF CPUInv, Contados
  <1>9. UnoSolo'
    BY <1>4, <1>6 DEF CPUInv, UnoSolo
  <1>10. TablasAlDia'
    <2>1. diccionario_tablas' = diccionario_tablas
      BY DEF memoria
    <2>2. ASSUME NEW q \in Procesos, lugar'[q] # "fin"
          PROVE  PCB'[q].tablaSegmentos = diccionario_tablas[q]
      <3>1. CASE q = p
        BY <1>2, <1>6, <3>1
      <3>2. CASE q # p
        <4>1. PCB'[q] = PCB[q] /\ lugar[q] # "fin"
          BY <1>6, <2>2, <3>2
        <4> QED
          BY <4>1 DEF CPUInv, TablasAlDia
      <3> QED
        BY <3>1, <3>2
    <2> QED
      BY <1>3, <2>1, <2>2 DEF TablasAlDia
  <1> QED
    BY <1>3, <1>7, <1>8, <1>9, <1>10 DEF CPUInv, ContextoDeAlguien

LEMMA PasoDespachar == ASSUME CPUInv, NEW p \in Procesos, Despachar(p) PROVE CPUInv'
  <1>1. /\ PCB[p].program_counter \in Nat /\ PCB[p].registros \in DelPCB
        /\ PCB[p].tablaSegmentos \in Seq(Segmentos)
    BY DEF CPUInv, Tipado, Guardado
  <1>2. /\ PCB[p].program_counter <= escenario.lineas
        /\ PCB[p].tablaSegmentos = diccionario_tablas[p]
    BY DEF Despachar, CPUInv, Contados, TablasAlDia
  <1>3. lista_registros' \in DeLaCPU
    BY <1>1, CargarTodos DEF Despachar, CargarRegistros, CPUInv, Tipado
  <1>4. lugar' = [lugar EXCEPT ![p] = "cpu"] /\ lugar \in [Procesos -> Lugares]
    BY DEF Despachar, CPUInv, Tipado
  <1>5. lugar' \in [Procesos -> Lugares] /\ lugar'[p] = "cpu"
        /\ \A q \in Procesos \ {p} : lugar'[q] = lugar[q]
    BY <1>4 DEF Lugares
  <1>6. /\ contexto' \in Contextos /\ contexto'.PID = p
        /\ contexto'.program_counter = PCB[p].program_counter
        /\ contexto'.tablaSegmentos = PCB[p].tablaSegmentos
    BY <1>1 DEF Despachar, Recibido, Contextos
  <1>7. Tipado'
    BY <1>3, <1>5 DEF Despachar, CPUInv, Tipado, parametros, memoria
  <1>8. Contados'
    BY <1>2, <1>5 DEF Despachar, CPUInv, Contados
  <1>9. ContextoDeAlguien'
    BY <1>2, <1>5, <1>6 DEF Despachar, ContextoDeAlguien, PID
  <1>10. UnoSolo'
    BY <1>5 DEF Despachar, Libre, UnoSolo
  <1>11. TablasAlDia'
    <2>1. PCB' = PCB /\ diccionario_tablas' = diccionario_tablas
      BY DEF Despachar, memoria
    <2>2. \A q \in Procesos : lugar'[q] # "fin" => lugar[q] # "fin"
      BY <1>5 DEF Despachar
    <2> QED
      BY <1>2, <1>6, <2>1, <2>2 DEF CPUInv, TablasAlDia, PID
  <1> QED
    BY <1>7, <1>8, <1>9, <1>10, <1>11 DEF CPUInv

LEMMA PasoSet == ASSUME CPUInv, NEW ins \in Instrucciones, Set(ins) PROVE CPUInv'
  <1>1. ins.registro \in Registros /\ ins.valor \in Seq(Caracteres) /\ lista_registros \in DeLaCPU
    BY InstruccionTipada DEF Set, CPUInv, Tipado
  <1>2. lista_registros' = [lista_registros EXCEPT ![ins.registro] = Cargar(@, ins.valor)]
    BY DEF Set
  <1>3. lista_registros' \in DeLaCPU
    BY <1>1, <1>2, CargarUno
  <1>4. user_space' \in [Direcciones -> Caracteres]
    BY DEF Set, memoria, CPUInv, Tipado
  <1>5. ins.op # "EXIT" /\ Fetch(ins) /\ Avanza
        /\ UNCHANGED <<lugar, PCB, parametros, diccionario_tablas, caido, escenario>>
    BY DEF Set, memoria
  <1> QED
    BY <1>3, <1>4, <1>5, SigueEnLaCPU

LEMMA PasoMovIn == ASSUME CPUInv, NEW ins \in Instrucciones, MovIn(ins) PROVE CPUInv'
  <1> DEFINE dir == Traduce(ins, Bytes(ins))
             leido == [i \in 1 .. Bytes(ins) |-> user_space[dir + i - 1]]
  <1>1. ins.registro \in Registros /\ lista_registros \in DeLaCPU
        /\ user_space \in [Direcciones -> Caracteres]
    BY DEF MovIn, CPUInv, Tipado
  <1>2. Bytes(ins) \in Nat
    BY <1>1, LenProperties DEF Bytes, DeLaCPU
  <1>3. dir \in Nat /\ dir + Bytes(ins) <= TAM_MEMORIA
    <2>1. ins.direccion \in Nat /\ Fetch(ins) /\ dir # -1
      BY InstruccionTipada DEF MovIn
    <2> QED
      BY <1>2, <2>1, HayContexto, TraduceEnMemoria DEF Traduce
  <1>4. leido \in Seq(Caracteres)
    <2>1. ASSUME NEW i \in 1 .. Bytes(ins) PROVE user_space[dir + i - 1] \in Caracteres
      <3>1. dir + i - 1 \in Direcciones
        BY <1>2, <1>3, Tamanios DEF Direcciones
      <3> QED
        BY <1>1, <3>1
    <2>2. leido \in [1 .. Bytes(ins) -> Caracteres]
      BY <2>1
    <2> QED
      BY <1>2, <2>2, SeqDef
  <1>5. lista_registros' = [lista_registros EXCEPT ![ins.registro] = Cargar(@, leido)]
    BY DEF MovIn
  <1> HIDE DEF dir, leido
  <1>6. lista_registros' \in DeLaCPU
    BY <1>1, <1>4, <1>5, CargarUno
  <1>7. user_space' \in [Direcciones -> Caracteres]
    BY <1>1 DEF MovIn, memoria
  <1>8. ins.op # "EXIT" /\ Fetch(ins) /\ Avanza
        /\ UNCHANGED <<lugar, PCB, parametros, diccionario_tablas, caido, escenario>>
    BY DEF MovIn, memoria
  <1> QED
    BY <1>6, <1>7, <1>8, SigueEnLaCPU

LEMMA PasoMovOut == ASSUME CPUInv, NEW ins \in Instrucciones, MovOut(ins) PROVE CPUInv'
  <1> DEFINE dir == Traduce(ins, Bytes(ins))
  <1>1. ins.registro \in Registros /\ lista_registros \in DeLaCPU
        /\ user_space \in [Direcciones -> Caracteres]
    BY DEF MovOut, CPUInv, Tipado
  <1>2. lista_registros[ins.registro] \in Seq(Caracteres)
    BY <1>1 DEF DeLaCPU
  <1>3. Bytes(ins) \in Nat /\ Bytes(ins) = Len(lista_registros[ins.registro])
    BY <1>2, LenProperties DEF Bytes
  <1>4. dir \in Nat
    <2>1. ins.direccion \in Nat /\ Fetch(ins) /\ dir # -1
      BY InstruccionTipada DEF MovOut
    <2> QED
      BY <1>3, <2>1, HayContexto, TraduceEnMemoria DEF Traduce
  <1>5. ASSUME NEW d \in dir .. dir + Bytes(ins) - 1
        PROVE  lista_registros[ins.registro][d - dir + 1] \in Caracteres
    <2>1. d - dir + 1 \in 1 .. Len(lista_registros[ins.registro])
      BY <1>3, <1>4
    <2> QED
      BY <1>2, <2>1, LenProperties
  <1>6. user_space' \in [Direcciones -> Caracteres]
    <2>1. user_space' = [d \in Direcciones |-> IF d \in dir .. dir + Bytes(ins) - 1
                                              THEN lista_registros[ins.registro][d - dir + 1]
                                              ELSE user_space[d]]
      BY DEF MovOut
    <2> HIDE DEF dir
    <2> QED
      BY <1>1, <1>5, <2>1, Zenon
  <1>7. ins.op # "EXIT" /\ Fetch(ins) /\ Avanza /\ lista_registros' = lista_registros
        /\ UNCHANGED <<lugar, PCB, parametros, diccionario_tablas, caido, escenario>>
    BY DEF MovOut
  <1> QED
    BY <1>1, <1>6, <1>7, SigueEnLaCPU

LEMMA PasoMovInDesconocido ==
    ASSUME CPUInv, NEW ins \in Instrucciones, MovInDesconocido(ins) PROVE CPUInv'
  BY DEF MovInDesconocido, CPUInv, Tipado, Contados, ContextoDeAlguien, PID, UnoSolo,
         TablasAlDia, parametros, cpu, memoria

LEMMA PasoYield == ASSUME CPUInv, NEW ins \in Instrucciones, Yield(ins) PROVE CPUInv'
  <1>1. /\ Fetch(ins) /\ ins.op # "EXIT" /\ Devuelve(lista_registros, "ready")
        /\ UNCHANGED <<lista_registros, memoria, caido, escenario>>
        /\ pedido' = pedido /\ fisica' = fisica
    BY DEF Yield, parametros
  <1>2. lista_registros \in DelPCB
    BY ElRegistroSeGuarda DEF CPUInv, Tipado
  <1>3. /\ pedido' \in [Procesos -> Instrucciones \cup {SinPedido}]
        /\ fisica' \in [Procesos -> Numeros]
    BY <1>1 DEF CPUInv, Tipado
  <1> QED
    BY <1>1, <1>2, <1>3, DejaLaCPU

LEMMA PasoPedirFS == ASSUME CPUInv, NEW ins \in Instrucciones, PedirFS(ins) PROVE CPUInv'
  <1>1. /\ Fetch(ins) /\ ins.op # "EXIT" /\ Devuelve(lista_registros, "fs")
        /\ UNCHANGED <<lista_registros, memoria, caido, escenario>>
    BY DEF PedirFS
  <1>2. lista_registros \in DelPCB
    BY ElRegistroSeGuarda DEF CPUInv, Tipado
  <1>3. PICK p \in Procesos : p = PID
    BY <1>1, HayContexto
  <1>4. PICK dir : dir = MMU(diccionario_tablas[p], ins.direccion, ins.bytes)
    OBVIOUS
  <1>5. /\ dir # -1 /\ fisica' = [fisica EXCEPT ![p] = dir]
        /\ pedido' = [pedido EXCEPT ![p] = ins]
    BY <1>1, <1>3, <1>4, HayContexto DEF PedirFS, Traduce
  <1>6. dir \in Numeros
    <2>1. ins.direccion \in Nat /\ ins.bytes \in Nat
      BY InstruccionTipada DEF PedirFS
    <2>2. diccionario_tablas[p] \in Seq(Segmentos)
      BY DEF CPUInv, Tipado
    <2>3. dir \in Nat /\ dir + ins.bytes <= TAM_MEMORIA
      BY <1>4, <1>5, <2>1, <2>2, TraduceEnMemoria
    <2> QED
      BY <2>1, <2>3, Tamanios DEF Numeros
  <1>7. /\ pedido' \in [Procesos -> Instrucciones \cup {SinPedido}]
        /\ fisica' \in [Procesos -> Numeros]
    BY <1>5, <1>6 DEF CPUInv, Tipado
  <1> QED
    BY <1>1, <1>2, <1>7, DejaLaCPU

LEMMA PasoPedirSegmento ==
    ASSUME CPUInv, NEW ins \in Instrucciones, PedirSegmento(ins) PROVE CPUInv'
  <1>1. /\ Fetch(ins) /\ ins.op # "EXIT" /\ Devuelve(lista_registros, "kernel")
        /\ UNCHANGED <<lista_registros, memoria, caido, escenario>>
        /\ pedido' = [pedido EXCEPT ![PID] = ins] /\ fisica' = fisica
    BY DEF PedirSegmento
  <1>2. lista_registros \in DelPCB
    BY ElRegistroSeGuarda DEF CPUInv, Tipado
  <1>3. PID \in Procesos
    BY <1>1, HayContexto
  <1>4. /\ pedido' \in [Procesos -> Instrucciones \cup {SinPedido}]
        /\ fisica' \in [Procesos -> Numeros]
    BY <1>1, <1>3 DEF CPUInv, Tipado
  <1> QED
    BY <1>1, <1>2, <1>4, DejaLaCPU

LEMMA PasoExit == ASSUME CPUInv, NEW ins \in Instrucciones, Exit(ins) PROVE CPUInv'
  <1>1. /\ Fetch(ins) /\ Devuelve(lista_registros, "exit")
        /\ UNCHANGED <<lista_registros, memoria, caido, escenario>>
        /\ pedido' = pedido /\ fisica' = fisica
    BY DEF Exit, parametros
  <1>2. lista_registros \in DelPCB
    BY ElRegistroSeGuarda DEF CPUInv, Tipado
  <1>3. /\ pedido' \in [Procesos -> Instrucciones \cup {SinPedido}]
        /\ fisica' \in [Procesos -> Numeros]
    BY <1>1 DEF CPUInv, Tipado
  <1> QED
    BY <1>1, <1>2, <1>3, DejaLaCPU

LEMMA PasoExitProcessError ==
    ASSUME CPUInv, NEW ins \in Instrucciones, ExitProcessError(ins) PROVE CPUInv'
  <1>1. PICK regs \in {lista_registros, contexto.registros} :
            /\ Fetch(ins) /\ Devuelve(regs, "exit")
            /\ UNCHANGED <<lista_registros, memoria, caido, escenario>>
            /\ pedido' = pedido /\ fisica' = fisica
    <2>1. PICK regs : regs = IF ins.op \in {"F_READ", "F_WRITE"} THEN lista_registros
                             ELSE contexto.registros
      OBVIOUS
    <2>2. regs \in {lista_registros, contexto.registros}
      BY <2>1
    <2>3. Devuelve(regs, "exit")
      BY <2>1, Zenon DEF ExitProcessError
    <2>4. Fetch(ins) /\ UNCHANGED <<lista_registros, memoria, caido, escenario>>
          /\ pedido' = pedido /\ fisica' = fisica
      BY DEF ExitProcessError, parametros
    <2> QED
      BY <2>2, <2>3, <2>4
  <1>2. regs \in DelPCB
    BY <1>1, ElRegistroSeGuarda, HayContexto DEF CPUInv, Tipado
  <1>3. /\ pedido' \in [Procesos -> Instrucciones \cup {SinPedido}]
        /\ fisica' \in [Procesos -> Numeros]
    BY <1>1 DEF CPUInv, Tipado
  <1> QED
    BY <1>1, <1>2, <1>3, DejaLaCPU

\* The answer of the memory to a request for a segment.
LEMMA RespondeATabla ==
    ASSUME CPUInv, NEW p \in Procesos, lugar[p] = "kernel", NEW tabla \in Seq(Segmentos),
           Responde(p, tabla), UNCHANGED <<fisica, cpu, user_space, caido, escenario>>
    PROVE  CPUInv'
  <1>1. /\ lugar \in [Procesos -> Lugares] /\ PCB \in [Procesos -> Guardado]
        /\ pedido \in [Procesos -> Instrucciones \cup {SinPedido}]
        /\ diccionario_tablas \in [Procesos -> Seq(Segmentos)]
    BY DEF CPUInv, Tipado
  <1>2. PICK g : g = [PCB[p] EXCEPT !.tablaSegmentos = tabla]
    OBVIOUS
  <1>3. /\ g \in Guardado /\ g.tablaSegmentos = tabla
        /\ g.program_counter = PCB[p].program_counter
    BY <1>1, <1>2 DEF Guardado
  <1>4. PCB' = [PCB EXCEPT ![p] = g]
    BY <1>2 DEF Responde
  <1>5. /\ PCB' \in [Procesos -> Guardado] /\ PCB'[p] = g
        /\ \A q \in Procesos \ {p} : PCB'[q] = PCB[q]
    BY <1>1, <1>3, <1>4
  <1>6. /\ lugar' \in [Procesos -> Lugares] /\ lugar'[p] = "ready"
        /\ \A q \in Procesos \ {p} : lugar'[q] = lugar[q]
    BY <1>1 DEF Responde, Lugares
  <1>7. /\ pedido' \in [Procesos -> Instrucciones \cup {SinPedido}]
        /\ \A q \in Procesos \ {p} : pedido'[q] = pedido[q]
    BY <1>1 DEF Responde
  <1>8. /\ diccionario_tablas' \in [Procesos -> Seq(Segmentos)] /\ diccionario_tablas'[p] = tabla
        /\ \A q \in Procesos \ {p} : diccionario_tablas'[q] = diccionario_tablas[q]
    BY <1>1 DEF Responde
  <1>9. Tipado'
    BY <1>5, <1>6, <1>7, <1>8 DEF CPUInv, Tipado, cpu
  <1>10. Contados'
    BY <1>3, <1>5, <1>6 DEF CPUInv, Contados
  <1>11. contexto' = contexto /\ (contexto # SinContexto => PID \in Procesos /\ PID # p)
    BY DEF CPUInv, ContextoDeAlguien, Contextos, PID, cpu
  <1>12. ContextoDeAlguien'
    BY <1>6, <1>11 DEF CPUInv, ContextoDeAlguien, PID
  <1>13. UnoSolo'
    BY <1>6 DEF CPUInv, UnoSolo
  <1>14. TablasAlDia'
    <2>1. ASSUME NEW q \in Procesos, lugar'[q] # "fin"
          PROVE  PCB'[q].tablaSegmentos = diccionario_tablas'[q]
      BY <1>3, <1>5, <1>6, <1>8, <2>1 DEF CPUInv, TablasAlDia
    <2>2. contexto' # SinContexto => contexto'.tablaSegmentos = diccionario_tablas'[PID']
      BY <1>8, <1>11 DEF CPUInv, TablasAlDia, PID
    <2> QED
      BY <2>1, <2>2 DEF TablasAlDia
  <1> QED
    BY <1>9, <1>10, <1>12, <1>13, <1>14 DEF CPUInv

LEMMA PasoCrearSegmento == ASSUME CPUInv, NEW p \in Procesos, CrearSegmento(p) PROVE CPUInv'
  <1>1. lugar[p] = "kernel" /\ pedido[p].op = "CREATE_SEGMENT"
    BY DEF CrearSegmento, Atendida
  <1>2. pedido[p] \in Instrucciones
    BY <1>1 DEF CPUInv, Tipado, SinPedido
  <1>3. pedido[p].segmento \in Nat /\ pedido[p].bytes \in Nat
    BY <1>1, <1>2, InstruccionTipada
  <1>4. PICK b \in Direcciones :
            /\ HuecoUtil(b, pedido[p].bytes)
            /\ Responde(p, Append(diccionario_tablas[p], [ID |-> pedido[p].segmento, base |-> b,
                                                          limite |-> pedido[p].bytes]))
    BY DEF CrearSegmento
  <1>5. b \in Nat /\ b + pedido[p].bytes <= TAM_MEMORIA
    BY <1>4, Tamanios DEF Direcciones, HuecoUtil
  <1>6. diccionario_tablas[p] \in Seq(Segmentos)
    BY DEF CPUInv, Tipado
  <1>7. Append(diccionario_tablas[p], [ID |-> pedido[p].segmento, base |-> b,
                                       limite |-> pedido[p].bytes]) \in Seq(Segmentos)
    BY <1>3, <1>5, <1>6, TablaConUnoMas
  <1>8. UNCHANGED <<fisica, cpu, user_space, caido, escenario>>
    BY DEF CrearSegmento
  <1> QED
    BY <1>1, <1>4, <1>7, <1>8, RespondeATabla

LEMMA PasoBorrarSegmento == ASSUME CPUInv, NEW p \in Procesos, BorrarSegmento(p) PROVE CPUInv'
  <1> DEFINE tabla == diccionario_tablas[p]
             i == Segmento(tabla, pedido[p].segmento)
  <1>1. tabla \in Seq(Segmentos)
    BY DEF CPUInv, Tipado
  <1>2. i \in 0 .. Len(tabla)
    BY <1>1, LenProperties, Seleccion
  <1>3. RemoveAt(tabla, i) \in Seq(Segmentos)
    BY <1>1, <1>2, TablaSinUno
  <1>4. /\ lugar[p] = "kernel" /\ Responde(p, RemoveAt(tabla, i))
        /\ UNCHANGED <<fisica, cpu, user_space, caido, escenario>>
    BY DEF BorrarSegmento, Atendida
  <1> QED
    BY <1>3, <1>4, RespondeATabla

LEMMA PasoSinEspacio == ASSUME CPUInv, NEW p \in Procesos, SinEspacio(p) PROVE CPUInv'
  <1>1. /\ lugar \in [Procesos -> Lugares] /\ lugar[p] = "kernel"
        /\ lugar' = [lugar EXCEPT ![p] = "exit"]
        /\ pedido \in [Procesos -> Instrucciones \cup {SinPedido}]
        /\ pedido' = [pedido EXCEPT ![p] = SinPedido]
        /\ PCB' = PCB /\ fisica' = fisica /\ diccionario_tablas' = diccionario_tablas
        /\ contexto' = contexto /\ lista_registros' = lista_registros
        /\ UNCHANGED <<user_space, caido, escenario>>
    BY DEF SinEspacio, Atendida, CPUInv, Tipado, cpu, memoria
  <1>2. /\ lugar' \in [Procesos -> Lugares] /\ lugar'[p] = "exit"
        /\ \A q \in Procesos \ {p} : lugar'[q] = lugar[q] /\ pedido'[q] = pedido[q]
        /\ pedido' \in [Procesos -> Instrucciones \cup {SinPedido}]
    BY <1>1 DEF Lugares
  <1>3. Tipado'
    BY <1>1, <1>2 DEF CPUInv, Tipado
  <1>4. Contados'
    BY <1>1, <1>2 DEF CPUInv, Contados
  <1>5. contexto # SinContexto => PID \in Procesos /\ PID # p
    BY <1>1 DEF CPUInv, ContextoDeAlguien, Contextos, PID
  <1>6. ContextoDeAlguien'
    BY <1>1, <1>2, <1>5 DEF CPUInv, ContextoDeAlguien, PID
  <1>7. UnoSolo'
    BY <1>2 DEF CPUInv, UnoSolo
  <1>8. TablasAlDia'
    <2>1. ASSUME NEW q \in Procesos, lugar'[q] # "fin"
          PROVE  PCB'[q].tablaSegmentos = diccionario_tablas'[q]
      BY <1>1, <1>2, <2>1 DEF CPUInv, TablasAlDia
    <2>2. contexto' # SinContexto => contexto'.tablaSegmentos = diccionario_tablas'[PID']
      BY <1>1 DEF CPUInv, TablasAlDia, PID
    <2> QED
      BY <2>1, <2>2 DEF TablasAlDia
  <1> QED
    BY <1>3, <1>4, <1>6, <1>7, <1>8 DEF CPUInv

\* The bytes of a segment that moved are where the new table says, in the memory.
LEMMA MemoriaCompactada ==
    ASSUME CPUInv, Compactar
    PROVE  user_space' \in [Direcciones -> Caracteres]
  <1> DEFINE segmentos == UNION {Range(diccionario_tablas[q]) : q \in Procesos}
  <1>1. user_space \in [Direcciones -> Caracteres]
        /\ diccionario_tablas \in [Procesos -> Seq(Segmentos)]
    BY DEF CPUInv, Tipado
  <1>2. ASSUME NEW s \in segmentos, NEW d \in Destino(s)
        PROVE  ByteCompactado(s, d) \in Caracteres
    <2>1. PICK q \in Procesos : s \in Range(diccionario_tablas[q])
      BY <1>2
    <2>2. s \in Segmentos
      BY <1>1, <2>1, LenProperties DEF Range
    <2>3. BaseCompacta(s) \in 0 .. s.base
      BY <1>1, <2>2, BaseBaja
    <2>4. s.base \in Nat /\ s.limite \in Nat /\ s.base + s.limite <= TAM_MEMORIA
      BY <2>2, Tamanios DEF Segmentos, Numeros
    <2>5. d - BaseCompacta(s) + s.base \in Direcciones
      BY <1>2, <2>3, <2>4, Tamanios DEF Direcciones, Destino
    <2> QED
      BY <1>1, <2>5, Letras DEF ByteCompactado
  <1>3. user_space' =
          [d \in Direcciones |->
             IF \E s \in segmentos : d \in Destino(s)
             THEN ByteCompactado(CHOOSE s \in segmentos : d \in Destino(s), d)
             ELSE IF d \in Ocupadas THEN " " ELSE user_space[d]]
    BY DEF Compactar
  <1> HIDE DEF segmentos
  <1>4. ASSUME NEW d \in Direcciones PROVE user_space'[d] \in Caracteres
    <2>1. CASE \E s \in segmentos : d \in Destino(s)
      <3>1. PICK e : e = CHOOSE s \in segmentos : d \in Destino(s)
        OBVIOUS
      <3>2. e \in segmentos /\ d \in Destino(e)
        BY <2>1, <3>1, Zenon
      <3>3. user_space'[d] = ByteCompactado(e, d)
        BY <1>3, <2>1, <3>1, Zenon
      <3> QED
        BY <1>2, <3>2, <3>3
    <2>2. CASE ~ \E s \in segmentos : d \in Destino(s)
      <3>1. user_space'[d] = IF d \in Ocupadas THEN " " ELSE user_space[d]
        BY <1>3, <2>2, Zenon
      <3> QED
        BY <1>1, <3>1, Letras, Zenon
    <2> QED
      BY <2>1, <2>2
  <1> QED
    BY <1>3, <1>4

\* While compaction_manager runs, the kernel is at the request for a segment of some process.
Pide == run_pc # "pedir" =>
    \E p \in Procesos : lugar[p] = "kernel" /\ pedido[p].op = "CREATE_SEGMENT"

LEMMA PasoCompactar == ASSUME CPUInv, Pide, Compactar PROVE CPUInv'
  <1>0. PICK p \in Procesos : lugar[p] = "kernel"
    BY DEF Compactar, Pide
  <1>1. UNCHANGED <<lugar, pedido, fisica, contexto, lista_registros, caido, escenario>>
    BY DEF Compactar, parametros, cpu
  <1>2. /\ PCB \in [Procesos -> Guardado]
        /\ diccionario_tablas \in [Procesos -> Seq(Segmentos)]
    BY DEF CPUInv, Tipado
  <1>3. diccionario_tablas' \in [Procesos -> Seq(Segmentos)]
    <2>1. \A q \in Procesos : Compactada(diccionario_tablas[q]) \in Seq(Segmentos)
      BY <1>2, TablaCompactada
    <2> QED
      BY <2>1 DEF Compactar
  <1>4. ASSUME NEW q \in Procesos
        PROVE  /\ PCB'[q] \in Guardado /\ PCB'[q].program_counter = PCB[q].program_counter
               /\ lugar[q] # "fin" => PCB'[q].tablaSegmentos = diccionario_tablas'[q]
    <2>1. PCB'[q] = IF lugar[q] # "fin"
                    THEN [PCB[q] EXCEPT !.tablaSegmentos = diccionario_tablas'[q]]
                    ELSE PCB[q]
      BY DEF Compactar
    <2>2. PCB[q] \in Guardado /\ diccionario_tablas'[q] \in Seq(Segmentos)
      BY <1>2, <1>3
    <2>3. CASE lugar[q] # "fin"
      BY <2>1, <2>2, <2>3 DEF Guardado
    <2>4. CASE lugar[q] = "fin"
      BY <2>1, <2>2, <2>4
    <2> QED
      BY <2>3, <2>4
  <1>5. PCB' \in [Procesos -> Guardado]
    <2>1. PCB' = [q \in Procesos |-> PCB'[q]]
      BY DEF Compactar
    <2> QED
      BY <1>4, <2>1
  <1>6. Tipado'
    BY <1>1, <1>3, <1>5, MemoriaCompactada DEF CPUInv, Tipado
  <1>7. Contados' /\ UnoSolo'
    BY <1>1, <1>4 DEF CPUInv, Contados, UnoSolo
  <1>8. contexto = SinContexto /\ contexto' = SinContexto
    <2>1. contexto # SinContexto => PID \in Procesos /\ lugar[PID] = "cpu"
      BY DEF CPUInv, ContextoDeAlguien, Contextos, PID
    <2> QED
      BY <1>0, <1>1, <2>1 DEF CPUInv, UnoSolo
  <1>9. TablasAlDia'
    BY <1>1, <1>4, <1>8 DEF TablasAlDia
  <1> QED
    BY <1>6, <1>7, <1>8, <1>9 DEF CPUInv, ContextoDeAlguien

LEMMA PasoAtenderFS == ASSUME CPUInv, NEW p \in Procesos, AtenderFS(p) PROVE CPUInv'
  <1>1. /\ lugar[p] = "fs" /\ lugar' = [lugar EXCEPT ![p] = "ready"]
        /\ pedido' = [pedido EXCEPT ![p] = SinPedido] /\ fisica' = [fisica EXCEPT ![p] = 0]
        /\ UNCHANGED <<PCB, contexto, lista_registros, diccionario_tablas, caido, escenario>>
    BY DEF AtenderFS, cpu
  <1>2. /\ lugar \in [Procesos -> Lugares] /\ fisica \in [Procesos -> Numeros]
        /\ pedido \in [Procesos -> Instrucciones \cup {SinPedido}]
        /\ user_space \in [Direcciones -> Caracteres]
    BY DEF CPUInv, Tipado
  <1>3. 0 \in Numeros
    BY Tamanios DEF Numeros
  <1>4. /\ lugar' \in [Procesos -> Lugares] /\ lugar'[p] = "ready"
        /\ fisica' \in [Procesos -> Numeros]
        /\ pedido' \in [Procesos -> Instrucciones \cup {SinPedido}]
        /\ \A q \in Procesos \ {p} :
              lugar'[q] = lugar[q] /\ pedido'[q] = pedido[q] /\ fisica'[q] = fisica[q]
    BY <1>1, <1>2, <1>3 DEF Lugares
  <1>5. user_space' \in [Direcciones -> Caracteres]
    <2>1. CASE user_space' = user_space
      BY <1>2, <2>1
    <2>2. ASSUME NEW c \in Caracteres,
                 user_space' = [d \in Direcciones |->
                                  IF d \in fisica[p] .. fisica[p] + pedido[p].bytes - 1 THEN c
                                  ELSE user_space[d]]
          PROVE  user_space' \in [Direcciones -> Caracteres]
      BY <1>2, <2>2, Zenon
    <2> QED
      BY <2>1, <2>2 DEF AtenderFS
  <1>6. Tipado'
    BY <1>1, <1>4, <1>5 DEF CPUInv, Tipado
  <1>7. Contados' /\ UnoSolo'
    BY <1>1, <1>4 DEF CPUInv, Contados, UnoSolo
  <1>8. contexto # SinContexto => PID \in Procesos /\ PID # p
    BY <1>1 DEF CPUInv, ContextoDeAlguien, Contextos, PID
  <1>9. ContextoDeAlguien'
    BY <1>1, <1>4, <1>8 DEF CPUInv, ContextoDeAlguien, PID
  <1>10. TablasAlDia'
    <2>1. ASSUME NEW q \in Procesos, lugar'[q] # "fin"
          PROVE  PCB'[q].tablaSegmentos = diccionario_tablas'[q]
      BY <1>1, <1>4, <2>1 DEF CPUInv, TablasAlDia
    <2>2. contexto' # SinContexto => contexto'.tablaSegmentos = diccionario_tablas'[PID']
      BY <1>1 DEF CPUInv, TablasAlDia, PID
    <2> QED
      BY <2>1, <2>2 DEF TablasAlDia
  <1> QED
    BY <1>6, <1>7, <1>9, <1>10 DEF CPUInv

LEMMA PasoRetirar == ASSUME CPUInv, NEW p \in Procesos, Retirar(p) PROVE CPUInv'
  <1>1. /\ lugar[p] = "exit" /\ lugar' = [lugar EXCEPT ![p] = "fin"]
        /\ diccionario_tablas' = [diccionario_tablas EXCEPT ![p] = <<Segmento0>>]
        /\ PCB' = [PCB EXCEPT ![p] = PCBNuevo]
        /\ UNCHANGED <<pedido, fisica, contexto, lista_registros, user_space, caido, escenario>>
    BY DEF Retirar, parametros, cpu
  <1>2. /\ lugar \in [Procesos -> Lugares] /\ PCB \in [Procesos -> Guardado]
        /\ diccionario_tablas \in [Procesos -> Seq(Segmentos)]
    BY DEF CPUInv, Tipado
  <1>3. /\ lugar' \in [Procesos -> Lugares] /\ lugar'[p] = "fin"
        /\ PCB' \in [Procesos -> Guardado] /\ PCB'[p] = PCBNuevo
        /\ diccionario_tablas' \in [Procesos -> Seq(Segmentos)]
        /\ \A q \in Procesos \ {p} : /\ lugar'[q] = lugar[q] /\ PCB'[q] = PCB[q]
                                     /\ diccionario_tablas'[q] = diccionario_tablas[q]
    BY <1>1, <1>2, NuevoEsGuardado, Segmento0EsSegmento DEF Lugares
  <1>4. Tipado'
    BY <1>1, <1>3 DEF CPUInv, Tipado
  <1>5. Contados'
    <2>1. escenario' = escenario /\ escenario.lineas \in Nat
      BY <1>1, CPUAssumption DEF CPUInv, Tipado
    <2>2. PCB'[p].program_counter = 0
      BY <1>3 DEF PCBNuevo
    <2>3. ASSUME NEW q \in Procesos
          PROVE  /\ PCB'[q].program_counter <= escenario.lineas + 1
                 /\ lugar'[q] \in {"ready", "kernel", "fs"} =>
                        PCB'[q].program_counter <= escenario.lineas
      <3>1. CASE q = p
        BY <1>3, <2>1, <2>2, <3>1
      <3>2. CASE q # p
        BY <1>3, <3>2 DEF CPUInv, Contados
      <3> QED
        BY <3>1, <3>2
    <2> QED
      BY <2>1, <2>3 DEF Contados
  <1>6. UnoSolo'
    BY <1>3 DEF CPUInv, UnoSolo
  <1>7. contexto # SinContexto => PID \in Procesos /\ PID # p
    BY <1>1 DEF CPUInv, ContextoDeAlguien, Contextos, PID
  <1>8. ContextoDeAlguien'
    BY <1>1, <1>3, <1>7 DEF CPUInv, ContextoDeAlguien, PID
  <1>9. TablasAlDia'
    <2>1. ASSUME NEW q \in Procesos, lugar'[q] # "fin"
          PROVE  PCB'[q].tablaSegmentos = diccionario_tablas'[q]
      BY <1>3, <2>1 DEF CPUInv, TablasAlDia
    <2>2. contexto' # SinContexto => contexto'.tablaSegmentos = diccionario_tablas'[PID']
      BY <1>1, <1>3, <1>7 DEF CPUInv, TablasAlDia, PID
    <2> QED
      BY <2>1, <2>2 DEF TablasAlDia
  <1> QED
    BY <1>4, <1>5, <1>6, <1>8, <1>9 DEF CPUInv
-----------------------------------------------------------------------------
(* The agreement of compaction_manager and operarFS *)

EnFS == {p \in Procesos : lugar[p] = "fs"}

AcuerdoTipado ==
    /\ compactionBlockers \in Nat /\ compaction_required \in BOOLEAN
    /\ compaction_permission \in Nat
    /\ run_pc \in {"pedir", "leerContador", "esperarPermiso", "compactar"}
    /\ fs_pc \in {"leerContador", "leerRequerida", "darPermiso", "olvidar", "hayBlocked",
                  "restar"}
    /\ pendiente \in BOOLEAN

\* operarFS counts down after the process is back in READY.
BloqueosContados ==
    compactionBlockers = Cardinality(EnFS) + (IF fs_pc = "restar" THEN 1 ELSE 0)

Transfieren == \A p \in EnFS : pedido[p].op \in {"F_READ", "F_WRITE"}

\* operarFS found nothing to wait for and said so, or compaction_manager did.
Acordado ==
    \/ fs_pc \in {"leerRequerida", "darPermiso", "olvidar"}
    \/ compaction_permission > 0 \/ run_pc = "compactar"

NadieEspera == ~pendiente /\ run_pc # "pedir" /\ Acordado => EnFS = {}

\* While a request for a segment is in the kernel no program runs to ask for a transfer: what
\* operarFS saw stays so, if it saw it since the request.
AcuerdoInv ==
    /\ AcuerdoTipado /\ BloqueosContados /\ Transfieren /\ Pide /\ NadieEspera
    /\ ~pendiente => Desviados = {}

LEMMA InvDaTypeOK == CPUInv /\ AcuerdoInv => TypeOK
  <1> SUFFICES ASSUME CPUInv, AcuerdoInv PROVE TypeOK
    OBVIOUS
  <1>1. escenario.lineas \in Nat
    BY CPUAssumption DEF CPUInv, Tipado
  <1>2. \A r \in Registros : lista_registros[r] \in Textos(Ancho[r])
    BY DEF CPUInv, Tipado, DeLaCPU
  <1>3. ASSUME NEW p \in Procesos
        PROVE  /\ PCB[p].program_counter \in 0 .. escenario.lineas + 1
               /\ \A r \in Registros : PCB[p].registros[r] \in {INICIAL} \cup Textos(Ancho[r])
    <2>1. PCB[p].program_counter \in Nat /\ PCB[p].registros \in DelPCB
      BY DEF CPUInv, Tipado, Guardado
    <2>2. PCB[p].program_counter <= escenario.lineas + 1
      BY DEF CPUInv, Contados
    <2> QED
      BY <1>1, <2>1, <2>2 DEF DelPCB
  <1>4. AcuerdoTipado
    BY DEF AcuerdoInv
  <1> QED
    BY <1>2, <1>3, <1>4 DEF CPUInv, Tipado, Lugares, Numeros, TypeOK, AcuerdoTipado

LEMMA AcuerdoAlInicio == Init => AcuerdoInv /\ Desviados = {}
  <1> SUFFICES ASSUME Init PROVE AcuerdoInv /\ Desviados = {}
    OBVIOUS
  <1>1. EnFS = {} /\ Desviados = {}
    BY DEF Init, EnFS, Desviados
  <1>2. Cardinality(EnFS) = 0
    BY <1>1, FS_EmptySet
  <1>3. /\ compactionBlockers = 0 /\ compaction_required = FALSE /\ compaction_permission = 0
        /\ run_pc = "pedir" /\ fs_pc = "leerContador" /\ pendiente = FALSE
    BY DEF Init
  <1>4. AcuerdoTipado /\ Pide /\ NadieEspera
    BY <1>3 DEF AcuerdoTipado, Pide, NadieEspera
  <1>5. BloqueosContados
    BY <1>2, <1>3 DEF BloqueosContados
  <1> QED
    BY <1>1, <1>4, <1>5 DEF AcuerdoInv, Transfieren

LEMMA LosQueEsperan ==
    /\ IsFiniteSet(EnFS) /\ Cardinality(EnFS) \in Nat
    /\ Cardinality(EnFS) = 0 => EnFS = {}
    /\ Desviados \subseteq EnFS
  <1>1. IsFiniteSet(EnFS)
    BY CPUAssumption, FS_Subset DEF EnFS
  <1> QED
    BY <1>1, FS_CardinalityType, FS_EmptySet DEF EnFS, Desviados

\* A program runs only when compaction_manager does not.
LEMMA EnLaCPU ==
    ASSUME CPUInv, AcuerdoInv, \E p \in Procesos : lugar[p] = "cpu"
    PROVE  run_pc = "pedir"
  BY DEF CPUInv, AcuerdoInv, UnoSolo, Pide

\* A step of a process that is not at the file system, before or after.
LEMMA MismasTransferencias ==
    ASSUME AcuerdoInv, NEW p \in Procesos, lugar[p] # "fs", lugar'[p] # "fs",
           \A q \in Procesos \ {p} :
              /\ lugar'[q] = lugar[q] /\ pedido'[q] = pedido[q] /\ fisica'[q] = fisica[q]
              /\ diccionario_tablas'[q] = diccionario_tablas[q],
           UNCHANGED acuerdo, Pide'
    PROVE  AcuerdoInv' /\ Desviados' = Desviados
  <1>1. EnFS' = EnFS /\ p \notin EnFS
    BY DEF EnFS
  <1>2. Desviados' = Desviados
    BY DEF Desviados
  <1>3. Transfieren'
    <2>1. \A q \in EnFS : pedido'[q] = pedido[q]
      BY <1>1 DEF EnFS
    <2> QED
      BY <1>1, <2>1 DEF AcuerdoInv, Transfieren
  <1>4. (AcuerdoTipado /\ BloqueosContados /\ NadieEspera)'
    BY <1>1 DEF AcuerdoInv, AcuerdoTipado, BloqueosContados, NadieEspera, Acordado, acuerdo,
                permiso
  <1> QED
    BY <1>2, <1>3, <1>4 DEF AcuerdoInv, acuerdo

\* A step of compaction_manager or of operarFS that moves no process.
LEMMA MismosProgramas ==
    ASSUME UNCHANGED programas
    PROVE  /\ EnFS' = EnFS /\ Desviados' = Desviados /\ Transfieren' = Transfieren
           /\ lugar' = lugar /\ pedido' = pedido
  <1>1. /\ lugar' = lugar /\ pedido' = pedido /\ fisica' = fisica
        /\ diccionario_tablas' = diccionario_tablas
    BY DEF programas, parametros, memoria
  <1>2. EnFS' = EnFS /\ Desviados' = Desviados
    BY <1>1 DEF EnFS, Desviados
  <1> QED
    BY <1>1, <1>2 DEF Transfieren

SoloAcuerdo ==
    \/ LeerBloqueos \/ EsperarPermiso
    \/ LeerContador \/ LeerRequerida \/ DarPermiso \/ Olvidar \/ AtenderOtra \/ Restar

LEMMA LosProgramasSiguen == SoloAcuerdo => UNCHANGED programas
  BY DEF SoloAcuerdo, LeerBloqueos, EsperarPermiso, LeerContador, LeerRequerida, DarPermiso,
         Olvidar, AtenderOtra, Restar, Avisa

\* An instruction that asks for no transfer.
LEMMA AcuerdoEjecutar ==
    ASSUME CPUInv, AcuerdoInv, NEW ins \in Instrucciones, Ejecutar(ins), ~PedirFS(ins)
    PROVE  AcuerdoInv' /\ Desviados' = Desviados
  <1>1. Fetch(ins)
    BY DEF Ejecutar, Set, MovIn, MovOut, MovInDesconocido, Yield, PedirSegmento, Exit,
           ExitProcessError
  <1>2. PICK p \in Procesos : p = PID
    BY <1>1, HayContexto
  <1>3. lugar[p] = "cpu" /\ lugar \in [Procesos -> Lugares]
        /\ pedido \in [Procesos -> Instrucciones \cup {SinPedido}]
    BY <1>1, <1>2, HayContexto DEF CPUInv, Tipado
  <1>4. /\ fisica' = fisica /\ diccionario_tablas' = diccionario_tablas /\ UNCHANGED acuerdo
        /\ pedido' = pedido \/ pedido' = [pedido EXCEPT ![p] = ins]
    BY <1>2 DEF Ejecutar, Set, MovIn, MovOut, MovInDesconocido, Yield, PedirSegmento, Exit,
                ExitProcessError, parametros, memoria
  <1>5. \/ lugar' = lugar
        \/ \E hasta \in {"ready", "kernel", "exit"} : lugar' = [lugar EXCEPT ![p] = hasta]
    BY <1>2 DEF Ejecutar, Set, MovIn, MovOut, MovInDesconocido, Yield, PedirSegmento, Exit,
                ExitProcessError, Devuelve
  <1>6. lugar'[p] # "fs" /\ \A q \in Procesos \ {p} : lugar'[q] = lugar[q]
    BY <1>3, <1>5
  <1>7. \A q \in Procesos \ {p} : pedido'[q] = pedido[q]
    BY <1>3, <1>4
  <1>8. Pide'
    BY <1>3, <1>4, EnLaCPU DEF Pide, acuerdo
  <1> QED
    BY <1>3, <1>4, <1>6, <1>7, <1>8, MismasTransferencias

LEMMA AcuerdoPedirFS ==
    ASSUME CPUInv, AcuerdoInv, NEW ins \in Instrucciones, PedirFS(ins)
    PROVE  AcuerdoInv' /\ Desviados' = Desviados
  <1>1. PICK p \in Procesos : p = PID
    BY HayContexto DEF PedirFS
  <1>2. /\ lugar[p] = "cpu" /\ lugar \in [Procesos -> Lugares]
        /\ pedido \in [Procesos -> Instrucciones \cup {SinPedido}]
        /\ fisica \in [Procesos -> Numeros]
    BY <1>1, HayContexto DEF CPUInv, Tipado, PedirFS
  <1>3. PICK dir : dir = MMU(diccionario_tablas[p], ins.direccion, ins.bytes)
    OBVIOUS
  <1>4. /\ fisica' = [fisica EXCEPT ![p] = dir] /\ pedido' = [pedido EXCEPT ![p] = ins]
        /\ lugar' = [lugar EXCEPT ![p] = "fs"] /\ diccionario_tablas' = diccionario_tablas
        /\ ins.op \in {"F_READ", "F_WRITE"}
        /\ compactionBlockers' = compactionBlockers + 1
        /\ UNCHANGED <<compaction_required, compaction_permission, run_pc, fs_pc, pendiente>>
    BY <1>1, <1>3, HayContexto DEF PedirFS, Traduce, Devuelve, memoria, permiso
  <1>5. /\ fisica'[p] = dir /\ pedido'[p] = ins /\ lugar'[p] = "fs"
        /\ \A q \in Procesos \ {p} :
              lugar'[q] = lugar[q] /\ pedido'[q] = pedido[q] /\ fisica'[q] = fisica[q]
    BY <1>2, <1>4
  <1>6. EnFS' = EnFS \cup {p} /\ p \notin EnFS
    BY <1>2, <1>5 DEF EnFS
  <1>7. Desviados' = Desviados
    BY <1>2, <1>3, <1>4, <1>5 DEF Desviados
  <1>8. Cardinality(EnFS') = Cardinality(EnFS) + 1
    BY <1>6, LosQueEsperan, FS_AddElement
  <1>9. run_pc = "pedir"
    BY <1>2, EnLaCPU
  <1>10. Transfieren'
    <2>1. \A q \in EnFS : pedido'[q] = pedido[q]
      BY <1>5, <1>6 DEF EnFS
    <2> QED
      BY <1>4, <1>5, <1>6, <2>1 DEF AcuerdoInv, Transfieren
  <1>11. AcuerdoTipado' /\ Pide' /\ NadieEspera'
    BY <1>4, <1>9 DEF AcuerdoInv, AcuerdoTipado, Pide, NadieEspera
  <1>12. BloqueosContados'
    BY <1>4, <1>8, LosQueEsperan DEF AcuerdoInv, BloqueosContados
  <1> QED
    BY <1>4, <1>7, <1>10, <1>11, <1>12 DEF AcuerdoInv

LEMMA AcuerdoAtenderFS ==
    ASSUME CPUInv, AcuerdoInv, NEW p \in Procesos, AtenderFS(p)
    PROVE  AcuerdoInv' /\ Desviados' = Desviados \ {p}
  <1>1. /\ lugar[p] = "fs" /\ lugar' = [lugar EXCEPT ![p] = "ready"]
        /\ pedido' = [pedido EXCEPT ![p] = SinPedido] /\ fisica' = [fisica EXCEPT ![p] = 0]
        /\ diccionario_tablas' = diccionario_tablas
        /\ fs_pc = "hayBlocked" /\ fs_pc' = "restar"
        /\ UNCHANGED <<compactionBlockers, compaction_required, compaction_permission, run_pc,
                       pendiente>>
    BY DEF AtenderFS, permiso
  <1>2. /\ lugar \in [Procesos -> Lugares] /\ fisica \in [Procesos -> Numeros]
        /\ pedido \in [Procesos -> Instrucciones \cup {SinPedido}]
    BY DEF CPUInv, Tipado
  <1>3. /\ lugar'[p] = "ready"
        /\ \A q \in Procesos \ {p} :
              lugar'[q] = lugar[q] /\ pedido'[q] = pedido[q] /\ fisica'[q] = fisica[q]
    BY <1>1, <1>2
  <1>4. EnFS' = EnFS \ {p} /\ p \in EnFS
    BY <1>1, <1>3 DEF EnFS
  <1>5. Desviados' = Desviados \ {p}
    BY <1>1, <1>3 DEF Desviados
  <1>6. Cardinality(EnFS') = Cardinality(EnFS) - 1
    BY <1>4, LosQueEsperan, FS_RemoveElement
  <1>7. Transfieren'
    <2>1. \A q \in EnFS' : q \in EnFS /\ pedido'[q] = pedido[q]
      BY <1>3, <1>4 DEF EnFS
    <2> QED
      BY <2>1 DEF AcuerdoInv, Transfieren
  <1>8. Pide'
    <2>1. \A q \in Procesos : lugar[q] = "kernel" => lugar'[q] = "kernel" /\ pedido'[q] = pedido[q]
      BY <1>1, <1>3
    <2> QED
      BY <1>1, <2>1 DEF AcuerdoInv, Pide
  <1>9. AcuerdoTipado' /\ NadieEspera'
    BY <1>1, <1>4 DEF AcuerdoInv, AcuerdoTipado, NadieEspera, Acordado
  <1>10. BloqueosContados'
    BY <1>1, <1>6, LosQueEsperan DEF AcuerdoInv, BloqueosContados
  <1> QED
    BY <1>1, <1>5, <1>7, <1>8, <1>9, <1>10 DEF AcuerdoInv

\* A step of another process of the kernel, or of one that starts or ends.
LEMMA AcuerdoDelKernel ==
    ASSUME CPUInv, AcuerdoInv, NEW p \in Procesos,
           \/ Despachar(p) \/ CrearSegmento(p) \/ BorrarSegmento(p) \/ SinEspacio(p)
           \/ Retirar(p)
    PROVE  AcuerdoInv' /\ Desviados' = Desviados
  <1>1. /\ lugar \in [Procesos -> Lugares]
        /\ pedido \in [Procesos -> Instrucciones \cup {SinPedido}]
        /\ diccionario_tablas \in [Procesos -> Seq(Segmentos)]
    BY DEF CPUInv, Tipado
  <1>2. \E hasta \in {"cpu", "ready", "exit", "fin"} : lugar' = [lugar EXCEPT ![p] = hasta]
    BY DEF Despachar, CrearSegmento, BorrarSegmento, SinEspacio, Retirar, Responde
  <1>3. lugar[p] # "fs" /\ fisica' = fisica /\ UNCHANGED acuerdo
    BY DEF Despachar, CrearSegmento, BorrarSegmento, SinEspacio, Retirar, Atendida, parametros
  <1>4. pedido' = pedido \/ pedido' = [pedido EXCEPT ![p] = SinPedido]
    BY DEF Despachar, CrearSegmento, BorrarSegmento, SinEspacio, Retirar, Responde, parametros
  <1>5. \A q \in Procesos \ {p} : diccionario_tablas'[q] = diccionario_tablas[q]
    BY <1>1 DEF Despachar, CrearSegmento, BorrarSegmento, SinEspacio, Retirar, Responde, memoria
  <1>6. lugar'[p] # "fs" /\ \A q \in Procesos \ {p} : lugar'[q] = lugar[q]
    BY <1>1, <1>2
  <1>7. \A q \in Procesos \ {p} : pedido'[q] = pedido[q]
    BY <1>1, <1>4
  <1>8. Pide'
    <2>1. CASE run_pc = "pedir"
      BY <1>3, <2>1 DEF Pide, acuerdo
    <2>2. CASE run_pc # "pedir"
      <3>1. PICK k \in Procesos : lugar[k] = "kernel" /\ pedido[k].op = "CREATE_SEGMENT"
        BY <2>2 DEF AcuerdoInv, Pide
      <3>2. k # p
        BY <2>2, <3>1 DEF Despachar, Libre, CrearSegmento, BorrarSegmento, SinEspacio, Atendida,
                          Retirar
      <3> QED
        BY <1>6, <1>7, <3>1, <3>2 DEF Pide
    <2> QED
      BY <2>1, <2>2
  <1> QED
    BY <1>3, <1>5, <1>6, <1>7, <1>8, MismasTransferencias

\* compaction_manager.
LEMMA AcuerdoSolicitar ==
    ASSUME AcuerdoInv, NEW p \in Procesos, Solicitar(p) PROVE AcuerdoInv'
  <1>1. /\ EnFS' = EnFS /\ Desviados' = Desviados /\ Transfieren' = Transfieren
        /\ lugar' = lugar /\ pedido' = pedido
    BY MismosProgramas DEF Solicitar
  <1>2. lugar[p] = "kernel" /\ pedido[p].op = "CREATE_SEGMENT"
    BY DEF Solicitar, Atendida
  <1>3. Pide'
    BY <1>1, <1>2 DEF Pide
  <1>4. AcuerdoTipado' /\ BloqueosContados'
    BY <1>1 DEF Solicitar, AcuerdoInv, AcuerdoTipado, BloqueosContados, AlgoPendiente
  <1>5. ~pendiente' => ~Acordado' /\ ~pendiente
    BY DEF Solicitar, AlgoPendiente, Acordado, AcuerdoInv, AcuerdoTipado
  <1> QED
    BY <1>1, <1>3, <1>4, <1>5 DEF AcuerdoInv, NadieEspera

LEMMA AcuerdoLeerBloqueos == ASSUME AcuerdoInv, LeerBloqueos PROVE AcuerdoInv'
  <1>1. /\ EnFS' = EnFS /\ Desviados' = Desviados /\ Transfieren' = Transfieren
        /\ lugar' = lugar /\ pedido' = pedido
    BY MismosProgramas DEF LeerBloqueos
  <1>2. /\ UNCHANGED <<compactionBlockers, compaction_required, compaction_permission, fs_pc,
                       pendiente>>
        /\ run_pc = "leerContador"
        /\ run_pc' = IF compactionBlockers > 0 THEN "esperarPermiso" ELSE "compactar"
    BY DEF LeerBloqueos, permiso
  <1>3. run_pc' = "compactar" => EnFS = {}
    BY <1>2, LosQueEsperan DEF AcuerdoInv, BloqueosContados
  <1>4. AcuerdoTipado' /\ BloqueosContados' /\ Pide'
    BY <1>1, <1>2 DEF AcuerdoInv, AcuerdoTipado, BloqueosContados, Pide
  <1>5. NadieEspera'
    BY <1>1, <1>2, <1>3 DEF AcuerdoInv, NadieEspera, Acordado
  <1> QED
    BY <1>1, <1>2, <1>4, <1>5 DEF AcuerdoInv

LEMMA AcuerdoEsperarPermiso == ASSUME AcuerdoInv, EsperarPermiso PROVE AcuerdoInv'
  <1>1. /\ EnFS' = EnFS /\ Desviados' = Desviados /\ Transfieren' = Transfieren
        /\ lugar' = lugar /\ pedido' = pedido
    BY MismosProgramas DEF EsperarPermiso
  <1>2. /\ UNCHANGED <<compactionBlockers, compaction_required, fs_pc, pendiente>>
        /\ run_pc = "esperarPermiso" /\ run_pc' = "compactar" /\ compaction_permission > 0
        /\ compaction_permission' = compaction_permission - 1
    BY DEF EsperarPermiso
  <1>3. AcuerdoTipado' /\ BloqueosContados' /\ Pide'
    BY <1>1, <1>2 DEF AcuerdoInv, AcuerdoTipado, BloqueosContados, Pide
  <1>4. NadieEspera'
    BY <1>1, <1>2 DEF AcuerdoInv, NadieEspera, Acordado
  <1> QED
    BY <1>1, <1>2, <1>3, <1>4 DEF AcuerdoInv

\* The addresses that a compaction changes are those of nobody who waits.
LEMMA AcuerdoCompactar == ASSUME AcuerdoInv, Compactar PROVE AcuerdoInv'
  <1>1. /\ UNCHANGED <<lugar, pedido, compactionBlockers, compaction_required,
                       compaction_permission, fs_pc, pendiente>>
        /\ run_pc = "compactar" /\ run_pc' = "pedir"
    BY DEF Compactar, parametros, permiso
  <1>2. EnFS' = EnFS
    BY <1>1 DEF EnFS
  <1>3. AcuerdoTipado' /\ BloqueosContados' /\ Pide' /\ NadieEspera' /\ Transfieren'
    BY <1>1, <1>2 DEF AcuerdoInv, AcuerdoTipado, BloqueosContados, Pide, NadieEspera,
                      Transfieren
  <1>4. ~pendiente' => Desviados' = {}
    <2>1. ~pendiente' => EnFS' = {}
      BY <1>1, <1>2 DEF AcuerdoInv, NadieEspera, Acordado
    <2> QED
      BY <2>1 DEF EnFS, Desviados
  <1> QED
    BY <1>3, <1>4 DEF AcuerdoInv

\* operarFS.
LEMMA AcuerdoDeOperarFS ==
    ASSUME AcuerdoInv,
           \/ LeerContador \/ LeerRequerida \/ DarPermiso \/ Olvidar \/ AtenderOtra \/ Restar
    PROVE  AcuerdoInv'
  <1>1. UNCHANGED <<programas, run_pc, pendiente>>
    BY DEF LeerContador, LeerRequerida, DarPermiso, Olvidar, AtenderOtra, Restar, Avisa
  <1>2. /\ EnFS' = EnFS /\ Desviados' = Desviados /\ Transfieren' = Transfieren
        /\ lugar' = lugar /\ pedido' = pedido
    BY <1>1, MismosProgramas
  <1>3. Cardinality(EnFS) \in Nat
    BY LosQueEsperan
  <1>4. AcuerdoTipado' /\ BloqueosContados'
    <2>1. CASE LeerContador \/ LeerRequerida \/ AtenderOtra
      BY <1>1, <1>2, <2>1 DEF LeerContador, LeerRequerida, AtenderOtra, Avisa, permiso,
                              AcuerdoInv, AcuerdoTipado, BloqueosContados
    <2>2. CASE DarPermiso
      BY <1>1, <1>2, <2>2 DEF DarPermiso, Avisa, AcuerdoInv, AcuerdoTipado, BloqueosContados
    <2>3. CASE Olvidar
      BY <1>1, <1>2, <2>3 DEF Olvidar, Avisa, AcuerdoInv, AcuerdoTipado, BloqueosContados
    <2>4. CASE Restar
      <3>1. /\ fs_pc = "restar" /\ fs_pc' = "leerContador"
            /\ compactionBlockers' = compactionBlockers - 1
            /\ UNCHANGED <<compaction_required, compaction_permission>>
        BY <2>4 DEF Restar, Avisa, permiso
      <3>2. compactionBlockers = Cardinality(EnFS) + 1
        BY <3>1 DEF AcuerdoInv, BloqueosContados
      <3> QED
        BY <1>1, <1>2, <1>3, <3>1, <3>2 DEF AcuerdoInv, AcuerdoTipado, BloqueosContados
    <2> QED
      BY <2>1, <2>2, <2>3, <2>4
  <1>5. Acordado' => Acordado \/ EnFS = {}
    BY <1>1, LosQueEsperan DEF LeerContador, LeerRequerida, DarPermiso, Olvidar, AtenderOtra,
            Restar, Avisa, permiso, AcuerdoInv, AcuerdoTipado, BloqueosContados, Acordado
  <1>6. Pide' /\ NadieEspera'
    BY <1>1, <1>2, <1>5 DEF AcuerdoInv, Pide, NadieEspera
  <1> QED
    BY <1>1, <1>2, <1>4, <1>6 DEF AcuerdoInv

LEMMA InvEnUnPaso == CPUInv /\ AcuerdoInv /\ [Next]_vars => (CPUInv /\ AcuerdoInv)'
  <1> SUFFICES ASSUME CPUInv, AcuerdoInv, [Next]_vars PROVE (CPUInv /\ AcuerdoInv)'
    OBVIOUS
  <1>1. ASSUME NEW ins \in Instrucciones, Ejecutar(ins) PROVE (CPUInv /\ AcuerdoInv)'
    <2>1. CPUInv'
      BY <1>1, PasoSet, PasoMovIn, PasoMovOut, PasoMovInDesconocido, PasoYield, PasoPedirFS,
         PasoPedirSegmento, PasoExit, PasoExitProcessError DEF Ejecutar
    <2> QED
      BY <1>1, <2>1, AcuerdoEjecutar, AcuerdoPedirFS
  <1>2. ASSUME NEW p \in Procesos,
               \/ Despachar(p) \/ CrearSegmento(p) \/ BorrarSegmento(p) \/ SinEspacio(p)
               \/ AtenderFS(p) \/ Retirar(p)
        PROVE  (CPUInv /\ AcuerdoInv)'
    <2>1. CPUInv'
      BY <1>2, PasoDespachar, PasoCrearSegmento, PasoBorrarSegmento, PasoSinEspacio,
         PasoAtenderFS, PasoRetirar
    <2> QED
      BY <1>2, <2>1, AcuerdoDelKernel, AcuerdoAtenderFS
  <1>3. CASE Compactar
    BY <1>3, PasoCompactar, AcuerdoCompactar DEF AcuerdoInv
  <1>4. ASSUME UNCHANGED programas PROVE CPUInv'
    BY <1>4 DEF programas, CPUInv, Tipado, Contados, ContextoDeAlguien, PID, UnoSolo,
                TablasAlDia, parametros, cpu, memoria
  <1>5. ASSUME NEW p \in Procesos, Solicitar(p) PROVE (CPUInv /\ AcuerdoInv)'
    BY <1>4, <1>5, AcuerdoSolicitar DEF Solicitar
  <1>6. CASE SoloAcuerdo
    BY <1>4, <1>6, LosProgramasSiguen, AcuerdoLeerBloqueos, AcuerdoEsperarPermiso,
       AcuerdoDeOperarFS DEF SoloAcuerdo
  <1>7. CASE UNCHANGED vars
    <2>1. UNCHANGED programas /\ UNCHANGED acuerdo
      BY <1>7 DEF vars
    <2>2. AcuerdoInv'
      BY <2>1, MismosProgramas DEF AcuerdoInv, AcuerdoTipado, BloqueosContados, Pide,
                                   NadieEspera, Acordado, acuerdo, permiso
    <2> QED
      BY <1>4, <2>1, <2>2
  <1> QED
    BY <1>1, <1>2, <1>3, <1>5, <1>6, <1>7 DEF Next, SoloAcuerdo

LEMMA InvSiempre == Spec => [](CPUInv /\ AcuerdoInv)
  BY InvAlInicio, AcuerdoAlInicio, InvEnUnPaso, PTL DEF Spec
-----------------------------------------------------------------------------
(* The machine that each program sees: what holds of segments and requests *)

\* Segment 0 is of all, and nobody deletes it.
NadieBorraElCompartido ==
    \A ins \in Instrucciones : ins.op = "DELETE_SEGMENT" => ins.segmento # 0

ConElCompartido == \A p \in Procesos :
    diccionario_tablas[p] # <<>> /\ diccionario_tablas[p][1] = Segmento0

Disjuntos(s, t) == Rango(s) \cap Rango(t) = {}

\* No other segment shares a byte with it, nor with one that is not the same entry of a table.
Apartes ==
    /\ \A p \in Procesos : \A i \in DOMAIN diccionario_tablas[p] :
          i # 1 => Disjuntos(Segmento0, diccionario_tablas[p][i])
    /\ \A p, q \in Procesos :
          \A i \in DOMAIN diccionario_tablas[p], j \in DOMAIN diccionario_tablas[q] :
              i # 1 /\ j # 1 /\ (p # q \/ i # j)
                  => Disjuntos(diccionario_tablas[p][i], diccionario_tablas[q][j])

\* Only who waits for the kernel or for the file system has asked for something.
SinPedidos == \A p \in Procesos : lugar[p] \notin {"fs", "kernel"} => pedido[p] = SinPedido

MaquinaInv == CPUInv /\ AcuerdoInv /\ ConElCompartido /\ Apartes /\ SinPedidos

\* A segment of some table, segment 0 included.
Asignado(s) == \E p \in Procesos : s \in Range(diccionario_tablas[p])

LEMMA AsignadoEs ==
    ASSUME CPUInv, NEW p \in Procesos, NEW i \in DOMAIN diccionario_tablas[p]
    PROVE  /\ Asignado(diccionario_tablas[p][i]) /\ diccionario_tablas[p][i] \in Segmentos
           /\ i \in 1 .. Len(diccionario_tablas[p]) /\ Len(diccionario_tablas[p]) \in Nat
           /\ Rango(diccionario_tablas[p][i]) \subseteq Ocupadas
  <1>1. diccionario_tablas[p] \in Seq(Segmentos)
    BY DEF CPUInv, Tipado
  <1>2. /\ i \in 1 .. Len(diccionario_tablas[p]) /\ Len(diccionario_tablas[p]) \in Nat
        /\ diccionario_tablas[p][i] \in Segmentos
    BY <1>1, LenProperties
  <1>3. diccionario_tablas[p][i] \in Range(diccionario_tablas[p])
    BY DEF Range
  <1> QED
    BY <1>2, <1>3 DEF Asignado, Ocupadas

LEMMA AsignadoEnTabla ==
    ASSUME CPUInv, NEW s, Asignado(s)
    PROVE  /\ \E p \in Procesos : \E i \in DOMAIN diccionario_tablas[p] :
                  s = diccionario_tablas[p][i]
           /\ s \in Segmentos /\ Rango(s) \subseteq Ocupadas
  <1>1. PICK p \in Procesos : s \in Range(diccionario_tablas[p])
    BY DEF Asignado
  <1>2. PICK i \in DOMAIN diccionario_tablas[p] : s = diccionario_tablas[p][i]
    BY <1>1 DEF Range
  <1> QED
    BY <1>2, AsignadoEs

\* The numbers of a segment.
LEMMA Numero ==
    ASSUME NEW s \in Segmentos
    PROVE  /\ s.ID \in Nat /\ s.base \in Nat /\ s.limite \in Nat
           /\ s.base + s.limite <= TAM_MEMORIA
           /\ s = [ID |-> s.ID, base |-> s.base, limite |-> s.limite]
           /\ Rango(s) = s.base .. s.base + s.limite - 1
           /\ Rango(s) \subseteq Direcciones
  BY Tamanios DEF Segmentos, Numeros, Rango, Direcciones

\* Two segments that share a byte begin at the same place.
LEMMA MismaBase ==
    ASSUME MaquinaInv, NEW s, NEW t, Asignado(s), Asignado(t), ~Disjuntos(s, t)
    PROVE  s.base = t.base
  <1>1. PICK p \in Procesos : \E i \in DOMAIN diccionario_tablas[p] : s = diccionario_tablas[p][i]
    BY AsignadoEnTabla DEF MaquinaInv
  <1>2. PICK i \in DOMAIN diccionario_tablas[p] : s = diccionario_tablas[p][i]
    BY <1>1
  <1>3. PICK q \in Procesos : \E j \in DOMAIN diccionario_tablas[q] : t = diccionario_tablas[q][j]
    BY AsignadoEnTabla DEF MaquinaInv
  <1>4. PICK j \in DOMAIN diccionario_tablas[q] : t = diccionario_tablas[q][j]
    BY <1>3
  <1>5. /\ i = 1 => s = Segmento0
        /\ j = 1 => t = Segmento0
    BY <1>2, <1>4 DEF MaquinaInv, ConElCompartido
  <1>6. ~Disjuntos(t, s)
    BY DEF Disjuntos
  <1>7. CASE i = 1 \/ j = 1
    BY <1>2, <1>4, <1>5, <1>6, <1>7 DEF MaquinaInv, Apartes
  <1>8. CASE i # 1 /\ j # 1
    <2>1. p = q /\ i = j
      BY <1>2, <1>4, <1>8 DEF MaquinaInv, Apartes
    <2> QED
      BY <1>2, <1>4, <2>1
  <1> QED
    BY <1>7, <1>8

\* Segment 0 is in the memory.
LEMMA ElCompartido ==
    /\ Segmento0.ID = 0 /\ Segmento0.base = 0 /\ Segmento0.limite = TAM_SEGMENTO_0
    /\ Rango(Segmento0) = 0 .. TAM_SEGMENTO_0 - 1
  BY Tamanios DEF Segmento0, Rango

LEMMA OcupadasFinitas ==
    ASSUME CPUInv
    PROVE  Ocupadas \subseteq Direcciones /\ IsFiniteSet(Ocupadas)
  <1>1. Ocupadas \subseteq Direcciones
    <2> SUFFICES ASSUME NEW d \in Ocupadas PROVE d \in Direcciones
      OBVIOUS
    <2>1. PICK s \in UNION {Range(diccionario_tablas[p]) : p \in Procesos} : d \in Rango(s)
      BY DEF Ocupadas
    <2>2. Asignado(s)
      BY DEF Asignado
    <2> QED
      BY <2>1, <2>2, AsignadoEnTabla, Numero
  <1>2. 0 \in Int /\ TAM_MEMORIA - 1 \in Int
    BY Tamanios
  <1>3. IsFiniteSet(Direcciones)
    BY <1>2, FS_Interval DEF Direcciones
  <1> QED
    BY <1>1, <1>3, FS_Subset

\* A compaction leaves a segment after all that was below it.
LEMMA CompactaEnOrden ==
    ASSUME CPUInv, NEW s, NEW t, Asignado(s), Asignado(t), s.base + s.limite <= t.base
    PROVE  BaseCompacta(s) + s.limite <= BaseCompacta(t)
  <1> DEFINE A == {d \in Ocupadas : d < s.base}
             B == {d \in Ocupadas : d < t.base}
             C == s.base .. s.base + s.limite - 1
  <1>1. s \in Segmentos /\ t \in Segmentos /\ Rango(s) \subseteq Ocupadas
    BY AsignadoEnTabla
  <1>2. /\ s.base \in Nat /\ s.limite \in Nat /\ t.base \in Nat
        /\ C \subseteq Ocupadas
    BY <1>1, Numero
  <1>3. IsFiniteSet(Ocupadas) /\ \A d \in Ocupadas : d \in Nat
    BY OcupadasFinitas DEF Direcciones
  <1>4. IsFiniteSet(A) /\ IsFiniteSet(B)
    BY <1>3, FS_Subset
  <1>5. IsFiniteSet(C) /\ Cardinality(C) = s.limite
    <2>1. PICK b, l : b = s.base /\ l = s.limite
      OBVIOUS
    <2>2. b \in Int /\ b + l - 1 \in Int /\ l = (b + l - 1) - b + 1 /\ (b > b + l - 1 <=> l = 0)
      BY <1>2, <2>1
    <2>3. IsFiniteSet(b .. b + l - 1) /\ Cardinality(b .. b + l - 1) = l
      BY <2>2, FS_Interval
    <2> QED
      BY <2>1, <2>3
  <1>6. A \cap C = {} /\ A \cup C \subseteq B
    BY <1>2, <1>3
  <1> HIDE DEF A, B, C
  <1>7. /\ IsFiniteSet(A \cup C)
        /\ Cardinality(A \cup C) = Cardinality(A) + Cardinality(C) - Cardinality(A \cap C)
    BY <1>4, <1>5, FS_Union
  <1>8. Cardinality(A \cap C) = 0
    BY <1>6, FS_EmptySet
  <1>9. Cardinality(A \cup C) <= Cardinality(B)
    BY <1>4, <1>6, FS_Subset
  <1>10. Cardinality(A) \in Nat /\ Cardinality(B) \in Nat /\ Cardinality(A \cup C) \in Nat
    BY <1>4, <1>7, FS_CardinalityType
  <1>11. Cardinality(A) + s.limite <= Cardinality(B)
    BY <1>2, <1>5, <1>7, <1>8, <1>9, <1>10
  <1> QED
    BY <1>11 DEF A, B, BaseCompacta
-----------------------------------------------------------------------------
(* The steps that keep the segments apart *)

\* list_remove.
LEMMA QuitarUno ==
    ASSUME NEW S, NEW t \in Seq(S), NEW k \in 1 .. Len(t)
    PROVE  /\ RemoveAt(t, k) \in Seq(S) /\ Len(RemoveAt(t, k)) = Len(t) - 1
           /\ \A i \in 1 .. k - 1 : RemoveAt(t, k)[i] = t[i]
           /\ \A i \in k .. Len(t) - 1 : RemoveAt(t, k)[i] = t[i + 1]
  <1> DEFINE n == Len(t)
             a == SubSeq(t, 1, k - 1)
             b == SubSeq(t, k + 1, n)
  <1>1. n \in Nat /\ k \in Nat /\ k >= 1 /\ k <= n /\ \A i \in 1 .. n : t[i] \in S
    BY LenProperties, ElementOfSeq
  <1>2. /\ a \in Seq(S) /\ Len(a) = k - 1 /\ \A i \in 1 .. k - 1 : a[i] = t[i]
    BY <1>1, SubSeqProperties
  <1>3. /\ b \in Seq(S) /\ Len(b) = n - k /\ \A i \in 1 .. n - k : b[i] = t[i + k]
    BY <1>1, SubSeqProperties
  <1> HIDE DEF a, b, n
  <1>4. PICK w : w = a \o b
    OBVIOUS
  <1>5. /\ w \in Seq(S) /\ Len(w) = (k - 1) + (n - k)
        /\ \A i \in 1 .. (k - 1) + (n - k) : w[i] = IF i <= k - 1 THEN a[i] ELSE b[i - (k - 1)]
    BY <1>2, <1>3, <1>4, ConcatProperties
  <1>6. ASSUME NEW i \in 1 .. k - 1 PROVE w[i] = t[i]
    BY <1>1, <1>2, <1>5
  <1>7. ASSUME NEW i \in k .. n - 1 PROVE w[i] = t[i + 1]
    <2>1. i \in 1 .. (k - 1) + (n - k) /\ ~ (i <= k - 1) /\ i - (k - 1) \in 1 .. n - k
          /\ (i - (k - 1)) + k = i + 1
      BY <1>1
    <2>2. w[i] = b[i - (k - 1)]
      BY <1>5, <2>1
    <2>3. b[i - (k - 1)] = t[(i - (k - 1)) + k]
      BY <1>3, <2>1
    <2> QED
      BY <2>1, <2>2, <2>3
  <1>8. RemoveAt(t, k) = w
    BY <1>4 DEF RemoveAt, a, b, n
  <1>9. /\ w \in Seq(S) /\ Len(w) = n - 1
        /\ \A i \in 1 .. k - 1 : w[i] = t[i]
        /\ \A i \in k .. n - 1 : w[i] = t[i + 1]
    BY <1>1, <1>5, <1>6, <1>7
  <1> QED
    BY <1>8, <1>9 DEF n

\* An entry that is not there.
LEMMA QuitarNinguno == ASSUME NEW S, NEW t \in Seq(S) PROVE RemoveAt(t, 0) = t
  <1> DEFINE n == Len(t)
             a == SubSeq(t, 1, 0 - 1)
             b == SubSeq(t, 0 + 1, n)
  <1>1. n \in Nat /\ \A i \in 1 .. n : t[i] \in S
    BY LenProperties, ElementOfSeq
  <1>2. a = <<>>
    BY SubSeqEmpty
  <1>3. /\ b \in Seq(S) /\ Len(b) = n /\ \A i \in 1 .. n : b[i] = t[i]
    BY <1>1, SubSeqProperties
  <1>4. b = t
    <2> HIDE DEF b
    <2> QED
      BY <1>1, <1>3, SeqEqual
  <1>5. <<>> \o t = t
    BY ConcatEmptySeq
  <1> QED
    BY <1>2, <1>4, <1>5 DEF RemoveAt, a, b, n

\* The segment that selecting an ID finds is the first that has it.
LEMMA SegmentoEs ==
    ASSUME NEW t, Len(t) \in Nat, NEW id
    PROVE  /\ Segmento(t, id) \in 0 .. Len(t)
           /\ Segmento(t, id) # 0 => t[Segmento(t, id)].ID = id
           /\ \A i \in 1 .. Len(t) : t[i].ID = id => Segmento(t, id) # 0 /\ Segmento(t, id) <= i
  <1> DEFINE I == {i \in 1 .. Len(t) : t[i].ID = id}
  <1>1. Segmento(t, id) = IF I # {} THEN Min(I) ELSE 0
    BY DEF Segmento, SelectInSeq
  <1>2. I \in SUBSET Nat /\ \A i : i \in I <=> i \in 1 .. Len(t) /\ t[i].ID = id
    OBVIOUS
  <1> HIDE DEF I
  <1>3. I # {} => Min(I) \in I /\ \A i \in I : Min(I) <= i
    BY <1>2, HayMinimo
  <1>4. PICK m : m = Segmento(t, id)
    OBVIOUS
  <1>5. /\ I = {} => m = 0
        /\ I # {} => m \in I /\ \A i \in I : m <= i
    BY <1>1, <1>3, <1>4
  <1>6. CASE I = {}
    BY <1>2, <1>4, <1>5, <1>6
  <1>7. CASE I # {}
    BY <1>2, <1>4, <1>5, <1>7
  <1> QED
    BY <1>6, <1>7

LEMMA TablaDe ==
    ASSUME MaquinaInv, NEW p \in Procesos
    PROVE  /\ diccionario_tablas[p] \in Seq(Segmentos)
           /\ Len(diccionario_tablas[p]) \in Nat /\ Len(diccionario_tablas[p]) >= 1
           /\ DOMAIN diccionario_tablas[p] = 1 .. Len(diccionario_tablas[p])
           /\ \A i \in 1 .. Len(diccionario_tablas[p]) : diccionario_tablas[p][i] \in Segmentos
           /\ diccionario_tablas[p][1] = Segmento0
           /\ 1 \in DOMAIN diccionario_tablas[p]
  <1>1. diccionario_tablas[p] \in Seq(Segmentos) /\ diccionario_tablas[p] # <<>>
        /\ diccionario_tablas[p][1] = Segmento0
    BY DEF MaquinaInv, CPUInv, Tipado, ConElCompartido
  <1>2. /\ Len(diccionario_tablas[p]) \in Nat
        /\ DOMAIN diccionario_tablas[p] = 1 .. Len(diccionario_tablas[p])
        /\ \A i \in 1 .. Len(diccionario_tablas[p]) : diccionario_tablas[p][i] \in Segmentos
    BY <1>1, LenProperties
  <1>3. Len(diccionario_tablas[p]) # 0
    BY <1>1, EmptySeq
  <1> QED
    BY <1>1, <1>2, <1>3

LEMMA SinRequerirEl0 ==
    ASSUME MaquinaInv, NEW p \in Procesos, NEW id, id # 0
    PROVE  Segmento(diccionario_tablas[p], id) \in 0 .. Len(diccionario_tablas[p])
           /\ Segmento(diccionario_tablas[p], id) # 1
  BY TablaDe, SegmentoEs, ElCompartido

\* The table of one process changes.
LEMMA OtraTabla ==
    ASSUME MaquinaInv, NEW p \in Procesos, NEW t,
           diccionario_tablas' = [diccionario_tablas EXCEPT ![p] = t],
           t # <<>>, t[1] = Segmento0,
           \A i \in DOMAIN t : i # 1 => Disjuntos(Segmento0, t[i]),
           \A i, j \in DOMAIN t : i # 1 /\ j # 1 /\ i # j => Disjuntos(t[i], t[j]),
           \A q \in Procesos \ {p} : \A i \in DOMAIN t, j \in DOMAIN diccionario_tablas[q] :
               i # 1 /\ j # 1 => Disjuntos(t[i], diccionario_tablas[q][j])
    PROVE  ConElCompartido' /\ Apartes'
  <1>1. /\ diccionario_tablas'[p] = t
        /\ \A q \in Procesos \ {p} : diccionario_tablas'[q] = diccionario_tablas[q]
    BY DEF MaquinaInv, CPUInv, Tipado
  <1>2. ConElCompartido'
    BY <1>1 DEF ConElCompartido, MaquinaInv, Segmento0
  <1>3. \A s, r : Disjuntos(s, r) => Disjuntos(r, s)
    BY DEF Disjuntos
  <1>4. ASSUME NEW q \in Procesos, NEW i \in DOMAIN diccionario_tablas'[q], i # 1
        PROVE  Disjuntos(Segmento0, diccionario_tablas'[q][i])
    BY <1>1, <1>4 DEF MaquinaInv, Apartes
  <1>5. ASSUME NEW q \in Procesos, NEW r \in Procesos,
               NEW i \in DOMAIN diccionario_tablas'[q], NEW j \in DOMAIN diccionario_tablas'[r],
               i # 1, j # 1, q # r \/ i # j
        PROVE  Disjuntos(diccionario_tablas'[q][i], diccionario_tablas'[r][j])
    <2>1. CASE q = p /\ r = p
      BY <1>1, <1>5, <2>1
    <2>2. CASE q = p /\ r # p
      BY <1>1, <1>5, <2>2
    <2>3. CASE q # p /\ r = p
      <3>1. Disjuntos(t[j], diccionario_tablas[q][i])
        BY <1>1, <1>5, <2>3
      <3> QED
        BY <1>1, <1>3, <2>3, <3>1
    <2>4. CASE q # p /\ r # p
      BY <1>1, <1>5, <2>4 DEF MaquinaInv, Apartes
    <2> QED
      BY <2>1, <2>2, <2>3, <2>4
  <1>6. Apartes'
    BY <1>4, <1>5 DEF Apartes, Disjuntos, Rango, Segmento0
  <1> QED
    BY <1>2, <1>6

\* A new segment is in a hole.
LEMMA CrearAparte ==
    ASSUME MaquinaInv, NEW p \in Procesos, NEW s \in Segmentos, Rango(s) \cap Ocupadas = {},
           diccionario_tablas' = [diccionario_tablas EXCEPT ![p] = Append(@, s)]
    PROVE  ConElCompartido' /\ Apartes'
  <1>1. PICK t : t = Append(diccionario_tablas[p], s)
    OBVIOUS
  <1>2. PICK n : n = Len(diccionario_tablas[p])
    OBVIOUS
  <1>3. /\ n \in Nat /\ n >= 1 /\ DOMAIN diccionario_tablas[p] = 1 .. n
        /\ DOMAIN t = 1 .. n + 1 /\ t[n + 1] = s /\ t # <<>>
        /\ \A i \in 1 .. n : t[i] = diccionario_tablas[p][i]
        /\ t[1] = Segmento0
    BY <1>1, <1>2, TablaDe, AppendProperties
  <1>4. ASSUME NEW q \in Procesos, NEW j \in DOMAIN diccionario_tablas[q]
        PROVE  Disjuntos(s, diccionario_tablas[q][j]) /\ Disjuntos(diccionario_tablas[q][j], s)
    BY AsignadoEs DEF Disjuntos, MaquinaInv
  <1>5. Disjuntos(Segmento0, s)
    BY <1>3, <1>4, TablaDe
  <1>6. ASSUME NEW i \in DOMAIN t, i # 1 PROVE Disjuntos(Segmento0, t[i])
    <2>1. CASE i = n + 1
      BY <1>3, <1>5, <2>1
    <2>2. CASE i # n + 1
      BY <1>3, <1>6, <2>2 DEF MaquinaInv, Apartes
    <2> QED
      BY <2>1, <2>2
  <1>7. ASSUME NEW i \in DOMAIN t, NEW j \in DOMAIN t, i # 1, j # 1, i # j
        PROVE  Disjuntos(t[i], t[j])
    <2>1. CASE i = n + 1
      BY <1>3, <1>4, <1>7, <2>1
    <2>2. CASE j = n + 1
      BY <1>3, <1>4, <1>7, <2>2
    <2>3. CASE i # n + 1 /\ j # n + 1
      BY <1>3, <1>7, <2>3 DEF MaquinaInv, Apartes
    <2> QED
      BY <2>1, <2>2, <2>3
  <1>8. ASSUME NEW q \in Procesos \ {p}, NEW i \in DOMAIN t,
               NEW j \in DOMAIN diccionario_tablas[q], i # 1, j # 1
        PROVE  Disjuntos(t[i], diccionario_tablas[q][j])
    <2>1. CASE i = n + 1
      BY <1>3, <1>4, <2>1
    <2>2. CASE i # n + 1
      BY <1>3, <1>8, <2>2 DEF MaquinaInv, Apartes
    <2> QED
      BY <2>1, <2>2
  <1>9. diccionario_tablas' = [diccionario_tablas EXCEPT ![p] = t]
    BY <1>1
  <1> QED
    BY <1>3, <1>6, <1>7, <1>8, <1>9, OtraTabla

\* A segment that is deleted was not segment 0.
LEMMA BorrarAparte ==
    ASSUME MaquinaInv, NEW p \in Procesos, NEW k \in 0 .. Len(diccionario_tablas[p]), k # 1,
           diccionario_tablas' = [diccionario_tablas EXCEPT ![p] = RemoveAt(@, k)]
    PROVE  ConElCompartido' /\ Apartes'
  <1>1. PICK d : d = diccionario_tablas[p]
    OBVIOUS
  <1>2. PICK t : t = RemoveAt(d, k)
    OBVIOUS
  <1>3. PICK n : n = Len(d)
    OBVIOUS
  <1>4. n \in Nat /\ n >= 1 /\ DOMAIN d = 1 .. n /\ d[1] = Segmento0 /\ d \in Seq(Segmentos)
    BY <1>1, <1>3, TablaDe
  <1>5. diccionario_tablas' = [diccionario_tablas EXCEPT ![p] = t]
    BY <1>1, <1>2
  <1>6. CASE k = 0
    <2>1. t = d
      BY <1>2, <1>4, <1>6, QuitarNinguno
    <2>2. diccionario_tablas' = diccionario_tablas
      BY <1>1, <1>5, <2>1 DEF MaquinaInv, CPUInv, Tipado
    <2> QED
      BY <2>2 DEF MaquinaInv, ConElCompartido, Apartes, Disjuntos, Rango, Segmento0
  <1>7. CASE k # 0
    <2>1. /\ k \in 2 .. n /\ t \in Seq(Segmentos) /\ Len(t) = n - 1
          /\ \A i \in 1 .. k - 1 : t[i] = d[i]
          /\ \A i \in k .. n - 1 : t[i] = d[i + 1]
      <3>1. k \in 1 .. Len(d) /\ k \in 2 .. n
        BY <1>1, <1>3, <1>4, <1>7
      <3>2. /\ RemoveAt(d, k) \in Seq(Segmentos) /\ Len(RemoveAt(d, k)) = Len(d) - 1
            /\ \A i \in 1 .. k - 1 : RemoveAt(d, k)[i] = d[i]
            /\ \A i \in k .. Len(d) - 1 : RemoveAt(d, k)[i] = d[i + 1]
        BY <1>4, <3>1, QuitarUno
      <3> QED
        BY <1>2, <1>3, <3>1, <3>2
    <2>2. DOMAIN t = 1 .. n - 1 /\ n - 1 # 0 /\ t # <<>>
      BY <1>4, <2>1, LenProperties, EmptySeq
    <2>3. t[1] = Segmento0
      BY <1>4, <2>1
    <2> DEFINE Antes(i) == IF i < k THEN i ELSE i + 1
    <2>4. ASSUME NEW i \in 1 .. n - 1, i # 1
          PROVE  Antes(i) \in 1 .. n /\ Antes(i) # 1 /\ t[i] = d[Antes(i)]
      BY <1>4, <2>1, <2>4
    <2>5. \A i, j \in 1 .. n - 1 : i # j => Antes(i) # Antes(j)
      BY <1>4, <2>1
    <2> HIDE DEF Antes
    <2>6. ASSUME NEW i \in DOMAIN t, i # 1 PROVE Disjuntos(Segmento0, t[i])
      BY <1>1, <1>4, <2>2, <2>4, <2>6 DEF MaquinaInv, Apartes
    <2>7. ASSUME NEW i \in DOMAIN t, NEW j \in DOMAIN t, i # 1, j # 1, i # j
          PROVE  Disjuntos(t[i], t[j])
      BY <1>1, <1>4, <2>2, <2>4, <2>5, <2>7 DEF MaquinaInv, Apartes
    <2>8. ASSUME NEW q \in Procesos \ {p}, NEW i \in DOMAIN t,
                 NEW j \in DOMAIN diccionario_tablas[q], i # 1, j # 1
          PROVE  Disjuntos(t[i], diccionario_tablas[q][j])
      BY <1>1, <1>4, <2>2, <2>4, <2>8 DEF MaquinaInv, Apartes
    <2> QED
      BY <1>5, <2>2, <2>3, <2>6, <2>7, <2>8, OtraTabla
  <1> QED
    BY <1>6, <1>7

\* A program that ended has only segment 0.
LEMMA RetirarAparte ==
    ASSUME MaquinaInv, NEW p \in Procesos,
           diccionario_tablas' = [diccionario_tablas EXCEPT ![p] = <<Segmento0>>]
    PROVE  ConElCompartido' /\ Apartes'
  <1>1. PICK t : t = <<Segmento0>>
    OBVIOUS
  <1>2. t # <<>> /\ t[1] = Segmento0 /\ \A i \in DOMAIN t : i = 1
    BY <1>1
  <1>3. diccionario_tablas' = [diccionario_tablas EXCEPT ![p] = t]
    BY <1>1
  <1> QED
    BY <1>2, <1>3, OtraTabla

\* Where a compaction leaves a segment.
Movido(s) == [s EXCEPT !.base = BaseCompacta(s)]

LEMMA MovidoEs ==
    ASSUME CPUInv, NEW s, Asignado(s)
    PROVE  /\ Movido(s) = [ID |-> s.ID, base |-> BaseCompacta(s), limite |-> s.limite]
           /\ Movido(s).ID = s.ID /\ Movido(s).base = BaseCompacta(s)
           /\ Movido(s).limite = s.limite
           /\ BaseCompacta(s) \in Nat /\ BaseCompacta(s) <= s.base
           /\ BaseCompacta(s) + s.limite <= TAM_MEMORIA
           /\ Rango(Movido(s)) = BaseCompacta(s) .. BaseCompacta(s) + s.limite - 1
  <1>1. s \in Segmentos
    BY AsignadoEnTabla
  <1>2. /\ s.base \in Nat /\ s.limite \in Nat /\ s.base + s.limite <= TAM_MEMORIA
        /\ s = [ID |-> s.ID, base |-> s.base, limite |-> s.limite]
    BY <1>1, Numero
  <1>3. BaseCompacta(s) \in 0 .. s.base
    BY <1>1, BaseBaja DEF CPUInv, Tipado
  <1>4. Movido(s) = [ID |-> s.ID, base |-> BaseCompacta(s), limite |-> s.limite]
    BY <1>2 DEF Movido
  <1> QED
    BY <1>2, <1>3, <1>4, Tamanios DEF Rango

\* Segments that began at two places share no byte after they moved.
LEMMA MovidosAparte ==
    ASSUME MaquinaInv, NEW s, NEW t, Asignado(s), Asignado(t), Disjuntos(s, t)
    PROVE  Disjuntos(Movido(s), Movido(t))
  <1>1. /\ s.base \in Nat /\ s.limite \in Nat /\ t.base \in Nat /\ t.limite \in Nat
        /\ Rango(s) = s.base .. s.base + s.limite - 1
        /\ Rango(t) = t.base .. t.base + t.limite - 1
    BY AsignadoEnTabla, Numero DEF MaquinaInv
  <1>2. /\ BaseCompacta(s) \in Nat /\ BaseCompacta(t) \in Nat
        /\ Rango(Movido(s)) = BaseCompacta(s) .. BaseCompacta(s) + s.limite - 1
        /\ Rango(Movido(t)) = BaseCompacta(t) .. BaseCompacta(t) + t.limite - 1
    BY MovidoEs DEF MaquinaInv
  <1>3. CASE s.limite = 0 \/ t.limite = 0
    <2>1. Rango(Movido(s)) = {} \/ Rango(Movido(t)) = {}
      BY <1>2, <1>3
    <2> QED
      BY <2>1 DEF Disjuntos
  <1>4. CASE s.limite # 0 /\ t.limite # 0
    <2>1. s.base \in Rango(s) /\ t.base \in Rango(t)
      BY <1>1, <1>4
    <2>2. s.base \notin Rango(t) /\ t.base \notin Rango(s)
      BY <2>1 DEF Disjuntos
    <2>3. s.base + s.limite <= t.base \/ t.base + t.limite <= s.base
      BY <1>1, <2>2
    <2>4. \/ BaseCompacta(s) + s.limite <= BaseCompacta(t)
          \/ BaseCompacta(t) + t.limite <= BaseCompacta(s)
      BY <2>3, CompactaEnOrden DEF MaquinaInv
    <2> QED
      BY <1>1, <1>2, <2>4 DEF Disjuntos
  <1> QED
    BY <1>3, <1>4

LEMMA ElCompartidoNoSeMueve ==
    ASSUME MaquinaInv, Asignado(Segmento0)
    PROVE  Movido(Segmento0) = Segmento0
  <1>1. BaseCompacta(Segmento0) \in Nat /\ BaseCompacta(Segmento0) <= 0
    BY MovidoEs, ElCompartido DEF MaquinaInv
  <1>2. BaseCompacta(Segmento0) = 0
    BY <1>1
  <1> QED
    BY <1>2 DEF Movido, Segmento0

\* The tables after a compaction.
LEMMA TablasMovidas ==
    ASSUME MaquinaInv, Compactar, NEW q \in Procesos
    PROVE  /\ DOMAIN diccionario_tablas'[q] = DOMAIN diccionario_tablas[q]
           /\ Len(diccionario_tablas'[q]) = Len(diccionario_tablas[q])
           /\ \A i \in DOMAIN diccionario_tablas[q] :
                 /\ Asignado(diccionario_tablas[q][i])
                 /\ diccionario_tablas'[q][i] = Movido(diccionario_tablas[q][i])
  <1>1. diccionario_tablas'[q] = Compactada(diccionario_tablas[q])
    BY DEF Compactar
  <1>2. PICK t : t = Compactada(diccionario_tablas[q])
    OBVIOUS
  <1>3. PICK d : d = diccionario_tablas[q]
    OBVIOUS
  <1>4. DOMAIN t = DOMAIN d /\ \A i \in DOMAIN d : t[i] = Movido(d[i])
    BY <1>2, <1>3 DEF Compactada, Movido
  <1>5. /\ DOMAIN d = 1 .. Len(d) /\ Len(d) \in Nat
    BY <1>3, TablaDe
  <1>6. t \in Seq(Segmentos)
    BY <1>2, TablaDe, TablaCompactada DEF MaquinaInv, CPUInv, Tipado
  <1>7. Len(t) = Len(d)
    BY <1>4, <1>5, <1>6, LenProperties
  <1>8. \A i \in DOMAIN d : Asignado(d[i])
    BY <1>3, AsignadoEs DEF MaquinaInv
  <1> QED
    BY <1>1, <1>2, <1>3, <1>4, <1>7, <1>8

LEMMA CompactarAparte ==
    ASSUME MaquinaInv, Compactar
    PROVE  ConElCompartido' /\ Apartes'
  <1>1. ASSUME NEW q \in Procesos
        PROVE  /\ Asignado(Segmento0) /\ Movido(Segmento0) = Segmento0
               /\ diccionario_tablas'[q][1] = Segmento0 /\ diccionario_tablas'[q] # <<>>
    <2>1. 1 \in DOMAIN diccionario_tablas[q] /\ diccionario_tablas[q][1] = Segmento0
      BY TablaDe
    <2>2. Asignado(Segmento0)
      BY <2>1, TablasMovidas
    <2>3. Movido(Segmento0) = Segmento0
      BY <2>2, ElCompartidoNoSeMueve
    <2>4. diccionario_tablas'[q][1] = Segmento0 /\ 1 \in DOMAIN diccionario_tablas'[q]
      BY <2>1, <2>3, TablasMovidas
    <2> QED
      BY <2>2, <2>3, <2>4
  <1>2. ConElCompartido'
    BY <1>1 DEF ConElCompartido, Segmento0
  <1>3. ASSUME NEW q \in Procesos, NEW i \in DOMAIN diccionario_tablas'[q], i # 1
        PROVE  Disjuntos(Segmento0, diccionario_tablas'[q][i])
    <2>1. i \in DOMAIN diccionario_tablas[q] /\ Asignado(diccionario_tablas[q][i])
          /\ diccionario_tablas'[q][i] = Movido(diccionario_tablas[q][i])
      BY TablasMovidas
    <2>2. Disjuntos(Segmento0, diccionario_tablas[q][i])
      BY <1>3, <2>1 DEF MaquinaInv, Apartes
    <2>3. Disjuntos(Movido(Segmento0), Movido(diccionario_tablas[q][i]))
      BY <1>1, <2>1, <2>2, MovidosAparte
    <2> QED
      BY <1>1, <2>1, <2>3
  <1>4. ASSUME NEW q \in Procesos, NEW r \in Procesos,
               NEW i \in DOMAIN diccionario_tablas'[q], NEW j \in DOMAIN diccionario_tablas'[r],
               i # 1, j # 1, q # r \/ i # j
        PROVE  Disjuntos(diccionario_tablas'[q][i], diccionario_tablas'[r][j])
    <2>1. i \in DOMAIN diccionario_tablas[q] /\ Asignado(diccionario_tablas[q][i])
          /\ diccionario_tablas'[q][i] = Movido(diccionario_tablas[q][i])
      BY TablasMovidas
    <2>2. j \in DOMAIN diccionario_tablas[r] /\ Asignado(diccionario_tablas[r][j])
          /\ diccionario_tablas'[r][j] = Movido(diccionario_tablas[r][j])
      BY TablasMovidas
    <2>3. Disjuntos(diccionario_tablas[q][i], diccionario_tablas[r][j])
      BY <1>4, <2>1, <2>2 DEF MaquinaInv, Apartes
    <2>4. Disjuntos(Movido(diccionario_tablas[q][i]), Movido(diccionario_tablas[r][j]))
      BY <2>1, <2>2, <2>3, MovidosAparte
    <2> QED
      BY <2>1, <2>2, <2>4
  <1>5. Apartes'
    BY <1>3, <1>4 DEF Apartes, Disjuntos, Rango, Segmento0
  <1> QED
    BY <1>2, <1>5

LEMMA TablasQuietas ==
    ASSUME MaquinaInv, diccionario_tablas' = diccionario_tablas
    PROVE  ConElCompartido' /\ Apartes'
  BY DEF MaquinaInv, ConElCompartido, Apartes, Disjuntos, Rango, Segmento0

LEMMA MaquinaAlInicio == Init => MaquinaInv
  <1> SUFFICES ASSUME Init PROVE MaquinaInv
    OBVIOUS
  <1>1. CPUInv /\ AcuerdoInv
    BY InvAlInicio, AcuerdoAlInicio
  <1>2. PICK t : t = <<Segmento0>>
    OBVIOUS
  <1>3. t # <<>> /\ t[1] = Segmento0 /\ \A i \in DOMAIN t : i = 1
    BY <1>2
  <1>4. \A p \in Procesos : diccionario_tablas[p] = t /\ pedido[p] = SinPedido
    BY <1>2 DEF Init
  <1> QED
    BY <1>1, <1>3, <1>4 DEF MaquinaInv, ConElCompartido, Apartes, SinPedidos

\* The requests of an instruction that gives the CPU back, and of an answer.
LEMMA PedidosDelQueDeja ==
    ASSUME MaquinaInv, NEW ins, Fetch(ins), NEW regs, NEW hasta, Devuelve(regs, hasta),
           \/ pedido' = pedido
           \/ hasta \in {"fs", "kernel"} /\ pedido' = [pedido EXCEPT ![PID] = ins]
    PROVE  SinPedidos'
  <1>1. PICK p \in Procesos : p = PID /\ lugar[p] = "cpu"
    BY HayContexto DEF MaquinaInv
  <1>2. lugar' = [lugar EXCEPT ![p] = hasta]
    BY <1>1 DEF Devuelve
  <1>3. lugar'[p] = hasta /\ \A q \in Procesos \ {p} : lugar'[q] = lugar[q]
    BY <1>2 DEF MaquinaInv, CPUInv, Tipado
  <1>4. \A q \in Procesos : /\ q # p => pedido'[q] = pedido[q]
                            /\ hasta \notin {"fs", "kernel"} => pedido'[q] = pedido[q]
    BY <1>1 DEF MaquinaInv, CPUInv, Tipado
  <1> QED
    BY <1>1, <1>3, <1>4 DEF MaquinaInv, SinPedidos

LEMMA PedidosDelQueVuelve ==
    ASSUME MaquinaInv, NEW p \in Procesos, NEW hasta, lugar' = [lugar EXCEPT ![p] = hasta],
           pedido' = [pedido EXCEPT ![p] = SinPedido]
    PROVE  SinPedidos'
  BY DEF MaquinaInv, CPUInv, Tipado, SinPedidos

LEMMA MaquinaEnUnPaso ==
    NadieBorraElCompartido => (MaquinaInv /\ [Next]_vars => MaquinaInv')
  <1> SUFFICES ASSUME NadieBorraElCompartido, MaquinaInv, [Next]_vars
               PROVE  ConElCompartido' /\ Apartes' /\ SinPedidos'
    BY InvEnUnPaso DEF MaquinaInv
  <1> DEFINE Bien == ConElCompartido' /\ Apartes' /\ SinPedidos'
  <1>1. ASSUME NEW ins \in Instrucciones, Set(ins) \/ MovIn(ins) \/ MovOut(ins)
        PROVE  Bien
    <2>1. UNCHANGED <<lugar, pedido, diccionario_tablas>>
      BY <1>1 DEF Set, MovIn, MovOut, memoria, parametros
    <2> QED
      BY <2>1, TablasQuietas DEF MaquinaInv, SinPedidos
  <1>2. ASSUME NEW ins \in Instrucciones, MovInDesconocido(ins) PROVE Bien
    <2>1. UNCHANGED <<lugar, pedido, diccionario_tablas>>
      BY <1>2 DEF MovInDesconocido, memoria, parametros
    <2> QED
      BY <2>1, TablasQuietas DEF MaquinaInv, SinPedidos
  <1>3. ASSUME NEW ins \in Instrucciones, Yield(ins) \/ Exit(ins) PROVE Bien
    <2>1. PICK hasta : Devuelve(lista_registros, hasta)
      BY <1>3 DEF Yield, Exit
    <2>2. Fetch(ins) /\ UNCHANGED <<pedido, diccionario_tablas>>
      BY <1>3 DEF Yield, Exit, parametros, memoria
    <2> QED
      BY <2>1, <2>2, TablasQuietas, PedidosDelQueDeja
  <1>4. ASSUME NEW ins \in Instrucciones, PedirFS(ins) PROVE Bien
    <2>1. /\ Fetch(ins) /\ Devuelve(lista_registros, "fs")
          /\ pedido' = [pedido EXCEPT ![PID] = ins] /\ diccionario_tablas' = diccionario_tablas
      BY <1>4 DEF PedirFS, memoria
    <2> QED
      BY <2>1, TablasQuietas, PedidosDelQueDeja
  <1>5. ASSUME NEW ins \in Instrucciones, PedirSegmento(ins) PROVE Bien
    <2>1. /\ Fetch(ins) /\ Devuelve(lista_registros, "kernel")
          /\ pedido' = [pedido EXCEPT ![PID] = ins] /\ diccionario_tablas' = diccionario_tablas
      BY <1>5 DEF PedirSegmento, memoria
    <2> QED
      BY <2>1, TablasQuietas, PedidosDelQueDeja
  <1>6. ASSUME NEW ins \in Instrucciones, ExitProcessError(ins) PROVE Bien
    <2>1. PICK regs : regs = IF ins.op \in {"F_READ", "F_WRITE"} THEN lista_registros
                             ELSE contexto.registros
      OBVIOUS
    <2>2. Devuelve(regs, "exit")
      BY <1>6, <2>1, Zenon DEF ExitProcessError
    <2>3. Fetch(ins) /\ UNCHANGED <<pedido, diccionario_tablas>>
      BY <1>6 DEF ExitProcessError, parametros, memoria
    <2> QED
      BY <2>2, <2>3, TablasQuietas, PedidosDelQueDeja
  <1>7. ASSUME NEW p \in Procesos, Despachar(p) PROVE Bien
    <2>1. /\ lugar' = [lugar EXCEPT ![p] = "cpu"] /\ lugar[p] = "ready"
          /\ UNCHANGED <<pedido, diccionario_tablas>>
      BY <1>7 DEF Despachar, parametros, memoria
    <2>2. SinPedidos'
      BY <2>1 DEF MaquinaInv, CPUInv, Tipado, SinPedidos
    <2> QED
      BY <2>1, <2>2, TablasQuietas
  <1>8. ASSUME NEW p \in Procesos, CrearSegmento(p) PROVE Bien
    <2>1. /\ lugar[p] = "kernel" /\ pedido[p].op = "CREATE_SEGMENT"
      BY <1>8 DEF CrearSegmento, Atendida
    <2>2. pedido[p].segmento \in Nat /\ pedido[p].bytes \in Nat
      BY <2>1, InstruccionTipada DEF MaquinaInv, CPUInv, Tipado, SinPedido
    <2>3. PICK b \in Direcciones :
              /\ HuecoUtil(b, pedido[p].bytes)
              /\ Responde(p, Append(diccionario_tablas[p],
                                    [ID |-> pedido[p].segmento, base |-> b,
                                     limite |-> pedido[p].bytes]))
      BY <1>8 DEF CrearSegmento
    <2>4. PICK s : s = [ID |-> pedido[p].segmento, base |-> b, limite |-> pedido[p].bytes]
      OBVIOUS
    <2>5. /\ s \in Segmentos /\ Rango(s) \cap Ocupadas = {}
      BY <2>2, <2>3, <2>4, Tamanios DEF Segmentos, Numeros, Direcciones, HuecoUtil, Rango
    <2>6. /\ diccionario_tablas' = [diccionario_tablas EXCEPT ![p] = Append(@, s)]
          /\ lugar' = [lugar EXCEPT ![p] = "ready"]
          /\ pedido' = [pedido EXCEPT ![p] = SinPedido]
      BY <2>3, <2>4 DEF Responde
    <2> QED
      BY <2>5, <2>6, CrearAparte, PedidosDelQueVuelve
  <1>9. ASSUME NEW p \in Procesos, BorrarSegmento(p) PROVE Bien
    <2>1. PICK k : k = Segmento(diccionario_tablas[p], pedido[p].segmento)
      OBVIOUS
    <2>2. /\ pedido[p].op = "DELETE_SEGMENT"
          /\ diccionario_tablas' = [diccionario_tablas EXCEPT ![p] = RemoveAt(@, k)]
          /\ lugar' = [lugar EXCEPT ![p] = "ready"]
          /\ pedido' = [pedido EXCEPT ![p] = SinPedido]
      BY <1>9, <2>1 DEF BorrarSegmento, Atendida, Responde
    <2>3. pedido[p].segmento # 0
      BY <2>2 DEF NadieBorraElCompartido, MaquinaInv, CPUInv, Tipado, SinPedido
    <2>4. k \in 0 .. Len(diccionario_tablas[p]) /\ k # 1
      BY <2>1, <2>3, SinRequerirEl0
    <2> QED
      BY <2>2, <2>4, BorrarAparte, PedidosDelQueVuelve
  <1>10. ASSUME NEW p \in Procesos, SinEspacio(p) PROVE Bien
    <2>1. /\ lugar' = [lugar EXCEPT ![p] = "exit"] /\ diccionario_tablas' = diccionario_tablas
          /\ pedido' = [pedido EXCEPT ![p] = SinPedido]
      BY <1>10 DEF SinEspacio, memoria
    <2> QED
      BY <2>1, TablasQuietas, PedidosDelQueVuelve
  <1>11. ASSUME Compactar PROVE Bien
    <2>1. UNCHANGED <<lugar, pedido>>
      BY <1>11 DEF Compactar, parametros
    <2> QED
      BY <1>11, <2>1, CompactarAparte DEF MaquinaInv, SinPedidos
  <1>12. ASSUME NEW p \in Procesos, AtenderFS(p) PROVE Bien
    <2>1. /\ lugar' = [lugar EXCEPT ![p] = "ready"] /\ diccionario_tablas' = diccionario_tablas
          /\ pedido' = [pedido EXCEPT ![p] = SinPedido]
      BY <1>12 DEF AtenderFS
    <2> QED
      BY <2>1, TablasQuietas, PedidosDelQueVuelve
  <1>13. ASSUME NEW p \in Procesos, Retirar(p) PROVE Bien
    <2>1. /\ lugar[p] = "exit" /\ lugar' = [lugar EXCEPT ![p] = "fin"] /\ pedido' = pedido
          /\ diccionario_tablas' = [diccionario_tablas EXCEPT ![p] = <<Segmento0>>]
      BY <1>13 DEF Retirar, parametros
    <2>2. SinPedidos'
      BY <2>1 DEF MaquinaInv, CPUInv, Tipado, SinPedidos
    <2> QED
      BY <2>1, <2>2, RetirarAparte
  <1>14. ASSUME UNCHANGED programas PROVE Bien
    <2>1. UNCHANGED <<lugar, pedido, diccionario_tablas>>
      BY <1>14 DEF programas, parametros, memoria
    <2> QED
      BY <2>1, TablasQuietas DEF MaquinaInv, SinPedidos
  <1>15. ASSUME NEW ins \in Instrucciones, Ejecutar(ins) PROVE Bien
    BY <1>1, <1>2, <1>3, <1>4, <1>5, <1>6, <1>15 DEF Ejecutar
  <1>16. ASSUME NEW p \in Procesos, Solicitar(p) PROVE Bien
    BY <1>14, <1>16 DEF Solicitar
  <1>17. ASSUME SoloAcuerdo PROVE Bien
    BY <1>14, <1>17, LosProgramasSiguen
  <1>18. ASSUME UNCHANGED vars PROVE Bien
    BY <1>14, <1>18 DEF vars
  <1> HIDE DEF Bien
  <1>19. Bien
    BY <1>7, <1>8, <1>9, <1>10, <1>11, <1>12, <1>13, <1>15, <1>16, <1>17, <1>18
       DEF Next, SoloAcuerdo
  <1> QED
    BY <1>19 DEF Bien

LEMMA MaquinaSiempre == NadieBorraElCompartido => (Spec => []MaquinaInv)
  <1> SUFFICES ASSUME NadieBorraElCompartido PROVE Spec => []MaquinaInv
    OBVIOUS
  <1>1. MaquinaInv /\ [Next]_vars => MaquinaInv'
    BY MaquinaEnUnPaso
  <1> QED
    BY <1>1, MaquinaAlInicio, PTL DEF Spec
-----------------------------------------------------------------------------
(* What each program sees *)

FaseDelLugar(l) ==
    CASE l \in {"ready", "cpu"} -> "corre" [] l \in {"fs", "kernel"} -> "espera"
      [] l = "exit" -> "termina" [] l = "fin" -> "fin"

Ceros == [r \in Registros |-> [i \in 1 .. Ancho[r] |-> "0"]]
Cargados(f) == [r \in Registros |-> Cargar([i \in 1 .. Ancho[r] |-> "0"], f[r])]

\* The bytes of s when the memory holds u, and the segments of the table t.
BytesEn(u, s) == [i \in 1 .. s.limite |-> u[s.base + i - 1]]
SegmentosEn(u, t) ==
    [i \in 1 .. Len(t) - 1 |-> [ID |-> t[i + 1].ID, bytes |-> BytesEn(u, t[i + 1])]]

LEMMA SonFunciones ==
    /\ FaseVista = [p \in Procesos |-> FaseVista[p]]
    /\ ContadorVisto = [p \in Procesos |-> ContadorVisto[p]]
    /\ RegistrosVistos = [p \in Procesos |-> RegistrosVistos[p]]
    /\ SegmentosVistos = [p \in Procesos |-> SegmentosVistos[p]]
  BY DEF FaseVista, ContadorVisto, RegistrosVistos, SegmentosVistos

LEMMA SiguenSiendoFunciones ==
    /\ FaseVista' = [p \in Procesos |-> FaseVista'[p]]
    /\ ContadorVisto' = [p \in Procesos |-> ContadorVisto'[p]]
    /\ RegistrosVistos' = [p \in Procesos |-> RegistrosVistos'[p]]
    /\ SegmentosVistos' = [p \in Procesos |-> SegmentosVistos'[p]]
  BY DEF FaseVista, ContadorVisto, RegistrosVistos, SegmentosVistos

\* A step that changes a function for p only, or for nobody.
LEMMA CambiaUno ==
    ASSUME NEW S, NEW p \in S, NEW f, NEW g,
           f = [x \in S |-> f[x]], g = [x \in S |-> g[x]], \A x \in S \ {p} : g[x] = f[x]
    PROVE  g = [f EXCEPT ![p] = g[p]]
  OBVIOUS

LEMMA CambiaNinguno ==
    ASSUME NEW S, NEW f, NEW g,
           f = [x \in S |-> f[x]], g = [x \in S |-> g[x]], \A x \in S : g[x] = f[x]
    PROVE  g = f
  <1>1. [x \in S |-> f[x]] = [x \in S |-> g[x]]
    OBVIOUS
  <1> QED
    BY <1>1

LEMMA Vista ==
    ASSUME NEW p \in Procesos, lugar[p] \in Lugares
    PROVE  /\ FaseVista[p] = FaseDelLugar(lugar[p])
           /\ lugar[p] \in {"exit", "fin"} =>
                 ContadorVisto[p] = 0 /\ RegistrosVistos[p] = Ceros
           /\ lugar[p] = "cpu" =>
                 /\ ContadorVisto[p] = contexto.program_counter
                 /\ RegistrosVistos[p] = [r \in Registros |-> lista_registros[r]]
           /\ lugar[p] \in {"ready", "fs", "kernel"} =>
                 /\ ContadorVisto[p] = PCB[p].program_counter
                 /\ RegistrosVistos[p] = Cargados(PCB[p].registros)
  <1>1. FaseVista[p] = FaseDe(p) /\ FaseDe(p) = FaseDelLugar(lugar[p])
    BY DEF FaseVista, FaseDe, FaseDelLugar
  <1>2. FaseDe(p) \in {"termina", "fin"} <=> lugar[p] \in {"exit", "fin"}
    BY <1>1 DEF FaseDelLugar, Lugares
  <1>3. ContadorVisto[p] = ContadorDe(p)
    BY DEF ContadorVisto
  <1>4. RegistrosVistos[p] = [r \in Registros |-> RegistroDe(p, r)]
    BY DEF RegistrosVistos
  <1> QED
    BY <1>1, <1>2, <1>3, <1>4 DEF ContadorDe, RegistroDe, Ceros, Cargados

LEMMA VistaLuego ==
    ASSUME NEW p \in Procesos, lugar'[p] \in Lugares
    PROVE  /\ FaseVista'[p] = FaseDelLugar(lugar'[p])
           /\ lugar'[p] \in {"exit", "fin"} =>
                 ContadorVisto'[p] = 0 /\ RegistrosVistos'[p] = Ceros
           /\ lugar'[p] = "cpu" =>
                 /\ ContadorVisto'[p] = contexto'.program_counter
                 /\ RegistrosVistos'[p] = [r \in Registros |-> lista_registros'[r]]
           /\ lugar'[p] \in {"ready", "fs", "kernel"} =>
                 /\ ContadorVisto'[p] = PCB'[p].program_counter
                 /\ RegistrosVistos'[p] = Cargados(PCB'[p].registros)
  <1>1. FaseVista'[p] = FaseDe(p)' /\ FaseDe(p)' = FaseDelLugar(lugar'[p])
    BY DEF FaseVista, FaseDe, FaseDelLugar
  <1>2. FaseDe(p)' \in {"termina", "fin"} <=> lugar'[p] \in {"exit", "fin"}
    BY <1>1 DEF FaseDelLugar, Lugares
  <1>3. ContadorVisto'[p] = ContadorDe(p)'
    BY DEF ContadorVisto
  <1>4. RegistrosVistos'[p] = [r \in Registros |-> RegistroDe(p, r)']
    BY DEF RegistrosVistos
  <1> QED
    BY <1>1, <1>2, <1>3, <1>4 DEF ContadorDe, RegistroDe, Ceros, Cargados

LEMMA SegmentosQueVe ==
    /\ CompartidoVisto = BytesEn(user_space, Segmento0)
    /\ CompartidoVisto' = BytesEn(user_space', Segmento0)
    /\ \A p \in Procesos :
          /\ SegmentosVistos[p] = SegmentosEn(user_space, diccionario_tablas[p])
          /\ SegmentosVistos'[p] = SegmentosEn(user_space', diccionario_tablas'[p])
  BY DEF CompartidoVisto, SegmentosVistos, SegmentosDe, BytesDe, BytesEn, SegmentosEn, Segmento0

LEMMA NadieVeOtraMemoria ==
    ASSUME UNCHANGED <<diccionario_tablas, user_space>>
    PROVE  SegmentosVistos' = SegmentosVistos /\ CompartidoVisto' = CompartidoVisto
  BY DEF CompartidoVisto, SegmentosVistos, SegmentosDe, BytesDe, Segmento0
-----------------------------------------------------------------------------
(* Registers *)

LEMMA InicialEntra ==
    ASSUME NEW r \in Registros
    PROVE  /\ INICIAL \in Seq(Caracteres) /\ Len(INICIAL) \in Nat /\ Len(INICIAL) <= Ancho[r]
           /\ \A i \in 1 .. Len(INICIAL) : INICIAL[i] = "0"
  <1> DEFINE S == {Ancho[q] : q \in Registros}
  <1>1. S \in SUBSET Nat /\ Ancho[r] \in S
    BY Anchos
  <1> HIDE DEF S
  <1>2. Min(S) \in Nat /\ Min(S) <= Ancho[r]
    BY <1>1, HayMinimo
  <1>3. PICK n \in Nat : n = Min(S)
    BY <1>2
  <1>4. INICIAL = [i \in 1 .. n |-> "0"]
    BY <1>3 DEF INICIAL, S
  <1>5. INICIAL \in [1 .. n -> Caracteres]
    BY <1>4, Letras
  <1>6. INICIAL \in Seq(Caracteres) /\ Len(INICIAL) = n
    BY <1>5, SeqDef, LenProperties
  <1> QED
    BY <1>2, <1>3, <1>4, <1>6

\* What a register holds after a value that fits was loaded does not depend on what it held.
LEMMA CargarRellena ==
    ASSUME NEW n \in Nat, NEW reg \in Textos(n), NEW valor \in Seq(Caracteres), Len(valor) <= n
    PROVE  Cargar(reg, valor) = [i \in 1 .. n |-> IF i <= Len(valor) THEN valor[i] ELSE "0"]
  <1>1. Len(reg) = n /\ Len(valor) \in Nat
    BY TextoEsSecuencia, LenProperties
  <1>2. ~(Len(valor) > Len(reg))
    BY <1>1
  <1> QED
    BY <1>1, <1>2 DEF Cargar

LEMMA CerosSonTextos ==
    ASSUME NEW r \in Registros
    PROVE  Ancho[r] \in Nat /\ [i \in 1 .. Ancho[r] |-> "0"] \in Textos(Ancho[r])
  BY Anchos, Letras DEF Textos

\* What the kernel keeps of a register fits in it.
LEMMA GuardadoEntra ==
    ASSUME NEW g \in DelPCB, NEW r \in Registros
    PROVE  g[r] \in Seq(Caracteres) /\ Len(g[r]) <= Ancho[r]
  <1>1. g[r] \in Seq(Caracteres) /\ g[r] \in {INICIAL} \cup Textos(Ancho[r])
    BY DEF DelPCB
  <1>2. CASE g[r] = INICIAL
    BY <1>2, InicialEntra
  <1>3. CASE g[r] \in Textos(Ancho[r])
    <2>1. Ancho[r] \in Nat
      BY Anchos
    <2>2. Len(g[r]) = Ancho[r]
      BY <1>3, <2>1, TextoEsSecuencia
    <2> QED
      BY <1>1, <2>1, <2>2
  <1> QED
    BY <1>1, <1>2, <1>3

LEMMA LoCargadoEsLoGuardado ==
    ASSUME NEW f \in DeLaCPU, NEW g \in DelPCB
    PROVE  [r \in Registros |-> Cargar(f[r], g[r])] = Cargados(g)
  <1>1. ASSUME NEW r \in Registros
        PROVE  Cargar(f[r], g[r]) = Cargar([i \in 1 .. Ancho[r] |-> "0"], g[r])
    <2>1. PICK n, reg, cero, valor : /\ n = Ancho[r] /\ reg = f[r] /\ valor = g[r]
                                     /\ cero = [i \in 1 .. Ancho[r] |-> "0"]
      OBVIOUS
    <2>2. n \in Nat /\ reg \in Textos(n) /\ cero \in Textos(n)
      BY <2>1, CerosSonTextos DEF DeLaCPU
    <2>3. valor \in Seq(Caracteres) /\ Len(valor) <= n
      BY <2>1, GuardadoEntra
    <2>4. Cargar(reg, valor) = Cargar(cero, valor)
      BY <2>2, <2>3, CargarRellena
    <2> QED
      BY <2>1, <2>4
  <1> QED
    BY <1>1, Zenon DEF Cargados

LEMMA RegistrosDeLaCPU ==
    ASSUME NEW f \in DeLaCPU
    PROVE  Cargados(f) = f /\ [r \in Registros |-> f[r]] = f
  <1>1. ASSUME NEW r \in Registros PROVE Cargar([i \in 1 .. Ancho[r] |-> "0"], f[r]) = f[r]
    <2>1. PICK n, cero, valor : /\ n = Ancho[r] /\ valor = f[r]
                                /\ cero = [i \in 1 .. Ancho[r] |-> "0"]
      OBVIOUS
    <2>2. n \in Nat /\ valor \in Textos(n) /\ cero \in Textos(n)
      BY <2>1, CerosSonTextos DEF DeLaCPU
    <2>3. valor \in Seq(Caracteres) /\ Len(valor) = n
      BY <2>2, TextoEsSecuencia
    <2>4. Cargar(cero, valor) = [i \in 1 .. n |-> IF i <= Len(valor) THEN valor[i] ELSE "0"]
      BY <2>2, <2>3, CargarRellena
    <2>5. valor = [i \in 1 .. n |-> valor[i]]
      BY <2>2 DEF Textos
    <2>6. \A i \in 1 .. n : (IF i <= Len(valor) THEN valor[i] ELSE "0") = valor[i]
      BY <2>2, <2>3
    <2> QED
      BY <2>1, <2>4, <2>5, <2>6, Zenon
  <1>2. f = [r \in Registros |-> f[r]]
    BY DEF DeLaCPU
  <1> QED
    BY <1>1, <1>2, Zenon DEF Cargados

\* The zeros of a new program.
LEMMA CerosDelIdeal ==
    /\ Ideal!EnCero = Ceros /\ Cargados(PCBNuevo.registros) = Ceros
  <1>1. ASSUME NEW r \in Registros
        PROVE  /\ Ideal!Rellenar(INICIAL, Ancho[r]) = [i \in 1 .. Ancho[r] |-> "0"]
               /\ Cargar([i \in 1 .. Ancho[r] |-> "0"], INICIAL) = [i \in 1 .. Ancho[r] |-> "0"]
    <2>1. PICK n, cero : n = Ancho[r] /\ cero = [i \in 1 .. Ancho[r] |-> "0"]
      OBVIOUS
    <2>2. n \in Nat /\ cero \in Textos(n) /\ cero = [i \in 1 .. n |-> "0"]
      BY <2>1, CerosSonTextos
    <2>3. Cargar(cero, INICIAL) = [i \in 1 .. n |-> IF i <= Len(INICIAL) THEN INICIAL[i] ELSE "0"]
      BY <2>1, <2>2, InicialEntra, CargarRellena
    <2>4. \A i \in 1 .. n : (IF i <= Len(INICIAL) THEN INICIAL[i] ELSE "0") = "0"
      BY <2>1, <2>2, InicialEntra
    <2>5. Ideal!Rellenar(INICIAL, n)
            = [i \in 1 .. n |-> IF i <= Len(INICIAL) THEN INICIAL[i] ELSE "0"]
      BY DEF Ideal!Rellenar
    <2> QED
      BY <2>1, <2>2, <2>3, <2>4, <2>5, Zenon
  <1>2. Ideal!EnCero = Ceros
    BY <1>1, Zenon DEF Ideal!EnCero, Ceros, Registros
  <1>3. PCBNuevo.registros = [r \in Registros |-> INICIAL]
    BY DEF PCBNuevo
  <1>4. \A r \in Registros : PCBNuevo.registros[r] = INICIAL
    BY <1>3
  <1>5. Cargados(PCBNuevo.registros) = Ceros
    BY <1>1, <1>4, Zenon DEF Cargados, Ceros
  <1> QED
    BY <1>2, <1>5
-----------------------------------------------------------------------------
(* The program on the CPU *)

\* The CPU and the kernel work for one program.
LEMMA NadieMas ==
    ASSUME MaquinaInv, NEW p \in Procesos, lugar[p] \in {"cpu", "kernel"},
           NEW q \in Procesos \ {p}
    PROVE  lugar[q] \in {"ready", "fs", "exit", "fin"}
  BY DEF MaquinaInv, CPUInv, Tipado, UnoSolo, Lugares

LEMMA TiposDeLaMaquina ==
    ASSUME MaquinaInv
    PROVE  /\ lugar \in [Procesos -> Lugares] /\ PCB \in [Procesos -> Guardado]
           /\ lista_registros \in DeLaCPU /\ user_space \in [Direcciones -> Caracteres]
           /\ diccionario_tablas \in [Procesos -> Seq(Segmentos)]
           /\ pedido \in [Procesos -> Instrucciones \cup {SinPedido}]
           /\ \A p \in Procesos : PCB[p].registros \in DelPCB
  BY DEF MaquinaInv, CPUInv, Tipado, Guardado

\* Who stays where it was, with the same counter and registers, sees the same.
LEMMA VistaAjena ==
    ASSUME NEW q \in Procesos, lugar[q] \in Lugares, lugar'[q] = lugar[q],
           PCB'[q].program_counter = PCB[q].program_counter,
           PCB'[q].registros = PCB[q].registros,
           lugar[q] = "cpu" => UNCHANGED cpu
    PROVE  /\ FaseVista'[q] = FaseVista[q] /\ ContadorVisto'[q] = ContadorVisto[q]
           /\ RegistrosVistos'[q] = RegistrosVistos[q]
  <1>1. FaseVista'[q] = FaseVista[q]
    <2>1. FaseVista[q] = FaseDelLugar(lugar[q])
      BY Vista
    <2>2. lugar'[q] \in Lugares
      OBVIOUS
    <2>3. FaseVista'[q] = FaseDelLugar(lugar'[q])
      BY <2>2, VistaLuego
    <2>4. PICK l : l = lugar[q]
      OBVIOUS
    <2> QED
      BY <2>1, <2>3, <2>4
  <1>2. CASE lugar[q] \in {"exit", "fin"}
    <2>1. ContadorVisto[q] = 0 /\ RegistrosVistos[q] = Ceros
      BY <1>2, Vista
    <2>2. ContadorVisto'[q] = 0 /\ RegistrosVistos'[q] = Ceros
      BY <1>2, VistaLuego
    <2> QED
      BY <1>1, <2>1, <2>2
  <1>3. CASE lugar[q] = "cpu"
    <2>1. contexto' = contexto /\ lista_registros' = lista_registros
      BY <1>3 DEF cpu
    <2>2. /\ ContadorVisto[q] = contexto.program_counter
          /\ RegistrosVistos[q] = [r \in Registros |-> lista_registros[r]]
      BY <1>3, Vista
    <2>3. /\ ContadorVisto'[q] = contexto'.program_counter
          /\ RegistrosVistos'[q] = [r \in Registros |-> lista_registros'[r]]
      BY <1>3, VistaLuego
    <2> QED
      BY <1>1, <2>1, <2>2, <2>3
  <1>4. CASE lugar[q] \in {"ready", "fs", "kernel"}
    <2>1. /\ ContadorVisto[q] = PCB[q].program_counter
          /\ RegistrosVistos[q] = Cargados(PCB[q].registros)
      BY <1>4, Vista
    <2>2. /\ ContadorVisto'[q] = PCB'[q].program_counter
          /\ RegistrosVistos'[q] = Cargados(PCB'[q].registros)
      BY <1>4, VistaLuego
    <2> QED
      BY <1>1, <2>1, <2>2
  <1> QED
    BY <1>2, <1>3, <1>4 DEF Lugares

\* After an instruction that goes on, only its program sees something new.
LEMMA VeElQueSigue ==
    ASSUME MaquinaInv, NEW ins, Fetch(ins), Avanza, UNCHANGED <<lugar, PCB>>,
           lista_registros' \in DeLaCPU
    PROVE  /\ Ideal!Avanza(PID) /\ FaseVista' = FaseVista
           /\ RegistrosVistos[PID] = lista_registros
           /\ RegistrosVistos' = [RegistrosVistos EXCEPT ![PID] = lista_registros']
  <1>1. PICK p \in Procesos : p = PID
    BY HayContexto DEF MaquinaInv
  <1>2. lugar[p] = "cpu" /\ contexto \in Contextos
    BY <1>1, HayContexto DEF MaquinaInv
  <1>3. contexto'.program_counter = contexto.program_counter + 1
    BY <1>2 DEF Avanza, Contextos
  <1>4. \A q \in Procesos : lugar[q] \in Lugares /\ lugar'[q] = lugar[q] /\ PCB'[q] = PCB[q]
    BY TiposDeLaMaquina
  <1>5. ASSUME NEW q \in Procesos \ {p}
        PROVE  /\ FaseVista'[q] = FaseVista[q] /\ ContadorVisto'[q] = ContadorVisto[q]
               /\ RegistrosVistos'[q] = RegistrosVistos[q]
    <2>1. lugar[q] \in {"ready", "fs", "exit", "fin"}
      BY <1>2, NadieMas
    <2> QED
      BY <1>4, <2>1, VistaAjena
  <1>6. FaseVista[p] = "corre" /\ FaseVista'[p] = "corre"
    <2>1. FaseVista[p] = FaseDelLugar("cpu")
      BY <1>2, <1>4, Vista
    <2>2. FaseVista'[p] = FaseDelLugar("cpu")
      BY <1>2, <1>4, VistaLuego
    <2> QED
      BY <2>1, <2>2 DEF FaseDelLugar
  <1>7. ContadorVisto'[p] = ContadorVisto[p] + 1
    <2>1. ContadorVisto[p] = contexto.program_counter
      BY <1>2, <1>4, Vista
    <2>2. ContadorVisto'[p] = contexto'.program_counter
      BY <1>2, <1>4, VistaLuego
    <2> QED
      BY <1>3, <2>1, <2>2
  <1>8. RegistrosVistos[p] = lista_registros /\ RegistrosVistos'[p] = lista_registros'
    <2>1. RegistrosVistos[p] = [r \in Registros |-> lista_registros[r]]
      BY <1>2, <1>4, Vista
    <2>2. RegistrosVistos'[p] = [r \in Registros |-> lista_registros'[r]]
      BY <1>2, <1>4, VistaLuego
    <2>3. [r \in Registros |-> lista_registros[r]] = lista_registros
      BY RegistrosDeLaCPU, TiposDeLaMaquina
    <2>4. [r \in Registros |-> lista_registros'[r]] = lista_registros'
      BY RegistrosDeLaCPU
    <2> QED
      BY <2>1, <2>2, <2>3, <2>4
  <1>9. FaseVista' = FaseVista
    BY <1>5, <1>6, SonFunciones, SiguenSiendoFunciones, CambiaNinguno
  <1>10. ContadorVisto' = [ContadorVisto EXCEPT ![p] = ContadorVisto'[p]]
    BY <1>5, SonFunciones, SiguenSiendoFunciones, CambiaUno
  <1>11. RegistrosVistos' = [RegistrosVistos EXCEPT ![p] = RegistrosVistos'[p]]
    BY <1>5, SonFunciones, SiguenSiendoFunciones, CambiaUno
  <1> QED
    BY <1>1, <1>6, <1>7, <1>8, <1>9, <1>10, <1>11 DEF Ideal!Avanza

\* After one that gives the CPU back, with the registers in the context.
LEMMA VeElQueDeja ==
    ASSUME MaquinaInv, NEW ins, Fetch(ins), NEW hasta \in {"ready", "fs", "kernel"},
           Devuelve(lista_registros, hasta)
    PROVE  /\ Ideal!Avanza(PID) /\ RegistrosVistos' = RegistrosVistos
           /\ FaseVista' = [FaseVista EXCEPT ![PID] = FaseDelLugar(hasta)]
           /\ FaseVista[PID] = "corre"
  <1>1. PICK p \in Procesos : p = PID
    BY HayContexto DEF MaquinaInv
  <1>2. lugar[p] = "cpu" /\ contexto \in Contextos
    BY <1>1, HayContexto DEF MaquinaInv
  <1>3. PICK g : g = [program_counter |-> contexto.program_counter + 1,
                      registros |-> lista_registros, tablaSegmentos |-> contexto.tablaSegmentos]
    OBVIOUS
  <1>4. g.program_counter = contexto.program_counter + 1 /\ g.registros = lista_registros
    BY <1>3
  <1>5. PCB' = [PCB EXCEPT ![p] = g] /\ lugar' = [lugar EXCEPT ![p] = hasta]
    BY <1>1, <1>3 DEF Devuelve
  <1>6. /\ PCB'[p] = g /\ lugar'[p] = hasta /\ hasta \in Lugares
        /\ \A q \in Procesos : lugar[q] \in Lugares
        /\ \A q \in Procesos \ {p} : PCB'[q] = PCB[q] /\ lugar'[q] = lugar[q]
    BY <1>5, TiposDeLaMaquina DEF Lugares
  <1>7. ASSUME NEW q \in Procesos \ {p}
        PROVE  /\ FaseVista'[q] = FaseVista[q] /\ ContadorVisto'[q] = ContadorVisto[q]
               /\ RegistrosVistos'[q] = RegistrosVistos[q]
    <2>1. lugar[q] \in {"ready", "fs", "exit", "fin"}
      BY <1>2, NadieMas
    <2> QED
      BY <1>6, <2>1, VistaAjena
  <1>8. FaseVista[p] = "corre" /\ FaseVista'[p] = FaseDelLugar(hasta)
    <2>1. FaseVista[p] = "corre"
      BY <1>2, <1>6, Vista DEF FaseDelLugar
    <2> QED
      BY <1>6, <2>1, VistaLuego
  <1>9. ContadorVisto'[p] = ContadorVisto[p] + 1
    <2>1. ContadorVisto[p] = contexto.program_counter
      BY <1>2, <1>6, Vista
    <2>2. PCB'[p] = g /\ lugar'[p] = hasta /\ hasta \in Lugares
      BY <1>6
    <2>3. ContadorVisto'[p] = PCB'[p].program_counter
      BY <2>2, VistaLuego
    <2> QED
      BY <1>4, <2>1, <2>2, <2>3
  <1>10. RegistrosVistos'[p] = RegistrosVistos[p]
    <2>1. RegistrosVistos[p] = lista_registros
      BY <1>2, <1>6, Vista, RegistrosDeLaCPU, TiposDeLaMaquina
    <2>2. RegistrosVistos'[p] = Cargados(lista_registros)
      BY <1>4, <1>6, VistaLuego
    <2> QED
      BY <2>1, <2>2, RegistrosDeLaCPU, TiposDeLaMaquina
  <1>11. RegistrosVistos' = RegistrosVistos
    BY <1>7, <1>10, SonFunciones, SiguenSiendoFunciones, CambiaNinguno
  <1>12. ContadorVisto' = [ContadorVisto EXCEPT ![p] = ContadorVisto'[p]]
    BY <1>7, SonFunciones, SiguenSiendoFunciones, CambiaUno
  <1>13. FaseVista' = [FaseVista EXCEPT ![p] = FaseVista'[p]]
    BY <1>7, SonFunciones, SiguenSiendoFunciones, CambiaUno
  <1> QED
    BY <1>1, <1>8, <1>9, <1>11, <1>12, <1>13 DEF Ideal!Avanza

\* A program that goes to EXIT, from the CPU or from the kernel: nothing of it is seen any more.
LEMMA VeElQueTermina ==
    ASSUME MaquinaInv, NEW p \in Procesos, lugar[p] \in {"cpu", "kernel"},
           lugar' = [lugar EXCEPT ![p] = "exit"], \A q \in Procesos \ {p} : PCB'[q] = PCB[q]
    PROVE  /\ FaseVista' = [FaseVista EXCEPT ![p] = "termina"]
           /\ ContadorVisto' = [ContadorVisto EXCEPT ![p] = 0]
           /\ RegistrosVistos' = [RegistrosVistos EXCEPT ![p] = Ideal!EnCero]
           /\ FaseVista[p] = IF lugar[p] = "cpu" THEN "corre" ELSE "espera"
  <1>1. /\ lugar'[p] = "exit" /\ "exit" \in Lugares
        /\ \A q \in Procesos : lugar[q] \in Lugares
        /\ \A q \in Procesos \ {p} : lugar'[q] = lugar[q]
    BY TiposDeLaMaquina DEF Lugares
  <1>2. ASSUME NEW q \in Procesos \ {p}
        PROVE  /\ FaseVista'[q] = FaseVista[q] /\ ContadorVisto'[q] = ContadorVisto[q]
               /\ RegistrosVistos'[q] = RegistrosVistos[q]
    <2>1. lugar[q] \in {"ready", "fs", "exit", "fin"}
      BY NadieMas
    <2> QED
      BY <1>1, <2>1, VistaAjena
  <1>3. FaseVista'[p] = "termina" /\ ContadorVisto'[p] = 0 /\ RegistrosVistos'[p] = Ideal!EnCero
    <2>1. FaseVista'[p] = FaseDelLugar("exit")
      BY <1>1, VistaLuego
    <2> QED
      BY <1>1, <2>1, VistaLuego, CerosDelIdeal DEF FaseDelLugar
  <1>4. FaseVista[p] = IF lugar[p] = "cpu" THEN "corre" ELSE "espera"
    BY <1>1, Vista DEF FaseDelLugar
  <1>5. FaseVista' = [FaseVista EXCEPT ![p] = FaseVista'[p]]
    BY <1>2, SonFunciones, SiguenSiendoFunciones, CambiaUno
  <1>6. ContadorVisto' = [ContadorVisto EXCEPT ![p] = ContadorVisto'[p]]
    BY <1>2, SonFunciones, SiguenSiendoFunciones, CambiaUno
  <1>7. RegistrosVistos' = [RegistrosVistos EXCEPT ![p] = RegistrosVistos'[p]]
    BY <1>2, SonFunciones, SiguenSiendoFunciones, CambiaUno
  <1> QED
    BY <1>3, <1>4, <1>5, <1>6, <1>7

\* A program that gets its answer.
LEMMA VeElQueVuelve ==
    ASSUME MaquinaInv, NEW p \in Procesos, lugar[p] \in {"fs", "kernel"},
           lugar' = [lugar EXCEPT ![p] = "ready"], UNCHANGED cpu,
           \A q \in Procesos : /\ PCB'[q].program_counter = PCB[q].program_counter
                               /\ PCB'[q].registros = PCB[q].registros
    PROVE  /\ FaseVista[p] = "espera" /\ FaseVista' = [FaseVista EXCEPT ![p] = "corre"]
           /\ ContadorVisto' = ContadorVisto /\ RegistrosVistos' = RegistrosVistos
  <1>1. /\ lugar'[p] = "ready" /\ "ready" \in Lugares
        /\ \A q \in Procesos : lugar[q] \in Lugares
        /\ \A q \in Procesos \ {p} : lugar'[q] = lugar[q]
    BY TiposDeLaMaquina DEF Lugares
  <1>2. ASSUME NEW q \in Procesos \ {p}
        PROVE  /\ FaseVista'[q] = FaseVista[q] /\ ContadorVisto'[q] = ContadorVisto[q]
               /\ RegistrosVistos'[q] = RegistrosVistos[q]
    BY <1>1, VistaAjena
  <1>3. FaseVista[p] = "espera" /\ FaseVista'[p] = "corre"
    <2>1. FaseVista[p] = FaseDelLugar(lugar[p]) /\ FaseVista'[p] = FaseDelLugar("ready")
      BY <1>1, Vista, VistaLuego
    <2> QED
      BY <2>1 DEF FaseDelLugar
  <1>4. ContadorVisto'[p] = ContadorVisto[p] /\ RegistrosVistos'[p] = RegistrosVistos[p]
    <2>1. /\ ContadorVisto[p] = PCB[p].program_counter
          /\ RegistrosVistos[p] = Cargados(PCB[p].registros)
      BY <1>1, Vista
    <2>2. /\ ContadorVisto'[p] = PCB'[p].program_counter
          /\ RegistrosVistos'[p] = Cargados(PCB'[p].registros)
      BY <1>1, VistaLuego
    <2>3. PCB'[p].program_counter = PCB[p].program_counter /\ PCB'[p].registros = PCB[p].registros
      OBVIOUS
    <2> QED
      BY <2>1, <2>2, <2>3
  <1>5. FaseVista' = [FaseVista EXCEPT ![p] = FaseVista'[p]]
    BY <1>2, SonFunciones, SiguenSiendoFunciones, CambiaUno
  <1>6. ContadorVisto' = ContadorVisto
    BY <1>2, <1>4, SonFunciones, SiguenSiendoFunciones, CambiaNinguno
  <1>7. RegistrosVistos' = RegistrosVistos
    BY <1>2, <1>4, SonFunciones, SiguenSiendoFunciones, CambiaNinguno
  <1> QED
    BY <1>3, <1>5, <1>6, <1>7
-----------------------------------------------------------------------------
(* Addresses *)

LEMMA MinimoDelIdeal ==
    ASSUME NEW S \in SUBSET Nat, S # {}
    PROVE  Ideal!Min(S) \in S /\ \A x \in S : Ideal!Min(S) <= x
  <1>1. Ideal!Min(S) = Min(S)
    BY DEF Ideal!Min, Min
  <1> QED
    BY <1>1, HayMinimo

\* A function on 1 .. n is a sequence.
LEMMA EsSecuencia ==
    ASSUME NEW n \in Nat, NEW f, f = [i \in 1 .. n |-> f[i]], NEW S, \A i \in 1 .. n : f[i] \in S
    PROVE  f \in Seq(S) /\ Len(f) = n /\ DOMAIN f = 1 .. n
  <1>1. f \in [1 .. n -> S]
    BY Zenon
  <1> QED
    BY <1>1, SeqDef, LenProperties

LEMMA BytesSon ==
    ASSUME NEW u \in [Direcciones -> Caracteres], NEW s \in Segmentos
    PROVE  /\ BytesEn(u, s) \in [1 .. s.limite -> Caracteres]
           /\ BytesEn(u, s) \in Seq(Caracteres) /\ Len(BytesEn(u, s)) = s.limite
           /\ \A i \in 1 .. s.limite : BytesEn(u, s)[i] = u[s.base + i - 1]
  <1>1. s.base \in Nat /\ s.limite \in Nat /\ s.base + s.limite <= TAM_MEMORIA
    BY Numero
  <1>2. \A i \in 1 .. s.limite : s.base + i - 1 \in Direcciones
    BY <1>1, Tamanios DEF Direcciones
  <1>3. BytesEn(u, s) \in [1 .. s.limite -> Caracteres]
    BY <1>2 DEF BytesEn
  <1>4. \A i \in 1 .. s.limite : BytesEn(u, s)[i] = u[s.base + i - 1]
    BY DEF BytesEn
  <1>5. PICK n, f : n = s.limite /\ f = BytesEn(u, s)
    OBVIOUS
  <1>6. n \in Nat /\ f = [i \in 1 .. n |-> f[i]] /\ \A i \in 1 .. n : f[i] \in Caracteres
    BY <1>1, <1>3, <1>5
  <1>7. f \in Seq(Caracteres) /\ Len(f) = n
    BY <1>6, EsSecuencia
  <1> QED
    BY <1>3, <1>4, <1>5, <1>7

\* What a program sees of its table.
Visible == [ID : Nat, bytes : Seq(Caracteres)]

LEMMA SegmentosSon ==
    ASSUME NEW u \in [Direcciones -> Caracteres], NEW t \in Seq(Segmentos), Len(t) >= 1
    PROVE  /\ SegmentosEn(u, t) \in Seq(Visible) /\ Len(SegmentosEn(u, t)) = Len(t) - 1
           /\ DOMAIN SegmentosEn(u, t) = 1 .. Len(t) - 1
           /\ \A i \in 1 .. Len(t) - 1 :
                 /\ SegmentosEn(u, t)[i] = [ID |-> t[i + 1].ID, bytes |-> BytesEn(u, t[i + 1])]
                 /\ t[i + 1] \in Segmentos
  <1>1. Len(t) \in Nat /\ \A i \in 1 .. Len(t) : t[i] \in Segmentos
    BY LenProperties, ElementOfSeq
  <1>2. PICK n : n = Len(t) - 1
    OBVIOUS
  <1>3. n \in Nat /\ \A i \in 1 .. n : t[i + 1] \in Segmentos
    BY <1>1, <1>2
  <1>4. PICK f : f = SegmentosEn(u, t)
    OBVIOUS
  <1>5. /\ \A i \in 1 .. n : f[i] = [ID |-> t[i + 1].ID, bytes |-> BytesEn(u, t[i + 1])]
        /\ f = [i \in 1 .. n |-> f[i]]
    BY <1>2, <1>4 DEF SegmentosEn
  <1>6. ASSUME NEW i \in 1 .. n PROVE f[i] \in Visible
    <2>1. t[i + 1] \in Segmentos
      BY <1>3
    <2>2. t[i + 1].ID \in Nat /\ BytesEn(u, t[i + 1]) \in Seq(Caracteres)
      BY <2>1, Numero, BytesSon
    <2> QED
      BY <1>5, <2>2 DEF Visible
  <1>7. f \in Seq(Visible) /\ Len(f) = n /\ DOMAIN f = 1 .. n
    BY <1>3, <1>5, <1>6, EsSecuencia
  <1> QED
    BY <1>2, <1>3, <1>4, <1>5, <1>7

\* What p sees now, in the terms of its table.
LEMMA LoQueVe ==
    ASSUME MaquinaInv, NEW p \in Procesos
    PROVE  /\ SegmentosVistos[p] \in Seq(Visible)
           /\ Len(SegmentosVistos[p]) = Len(diccionario_tablas[p]) - 1
           /\ \A i \in 1 .. Len(diccionario_tablas[p]) - 1 :
                 /\ SegmentosVistos[p][i] = [ID |-> diccionario_tablas[p][i + 1].ID,
                        bytes |-> BytesEn(user_space, diccionario_tablas[p][i + 1])]
                 /\ SegmentosVistos[p][i].ID = diccionario_tablas[p][i + 1].ID
                 /\ SegmentosVistos[p][i].bytes = BytesEn(user_space, diccionario_tablas[p][i + 1])
           /\ CompartidoVisto = BytesEn(user_space, Segmento0)
  <1>1. /\ SegmentosVistos[p] = SegmentosEn(user_space, diccionario_tablas[p])
        /\ CompartidoVisto = BytesEn(user_space, Segmento0)
    BY SegmentosQueVe
  <1>2. PICK u, t : u = user_space /\ t = diccionario_tablas[p]
    OBVIOUS
  <1>3. u \in [Direcciones -> Caracteres] /\ t \in Seq(Segmentos) /\ Len(t) >= 1
    BY <1>2, TablaDe, TiposDeLaMaquina
  <1>4. /\ SegmentosEn(u, t) \in Seq(Visible) /\ Len(SegmentosEn(u, t)) = Len(t) - 1
        /\ \A i \in 1 .. Len(t) - 1 :
             SegmentosEn(u, t)[i] = [ID |-> t[i + 1].ID, bytes |-> BytesEn(u, t[i + 1])]
    BY <1>3, SegmentosSon
  <1> QED
    BY <1>1, <1>2, <1>4

\* The list of the program is the table without segment 0.
LEMMA IndiceEs ==
    ASSUME MaquinaInv, NEW p \in Procesos, NEW id, id # 0
    PROVE  Ideal!Indice(p, id) = IF Segmento(diccionario_tablas[p], id) = 0 THEN 0
                                 ELSE Segmento(diccionario_tablas[p], id) - 1
  <1>1. PICK t, v : t = diccionario_tablas[p] /\ v = SegmentosVistos[p]
    OBVIOUS
  <1>2. PICK k : k = Segmento(t, id)
    OBVIOUS
  <1>3. /\ Len(t) \in Nat /\ Len(t) >= 1 /\ t[1].ID = 0
        /\ Len(v) = Len(t) - 1 /\ \A i \in 1 .. Len(t) - 1 : v[i].ID = t[i + 1].ID
    BY <1>1, TablaDe, LoQueVe, ElCompartido
  <1>4. /\ k \in 0 .. Len(t)
        /\ k # 0 => t[k].ID = id
        /\ \A i \in 1 .. Len(t) : t[i].ID = id => k # 0 /\ k <= i
    BY <1>2, <1>3, SegmentoEs
  <1> DEFINE I == {i \in 1 .. Len(v) : v[i].ID = id}
  <1>5. Ideal!Indice(p, id) = IF I # {} THEN Ideal!Min(I) ELSE 0
    BY <1>1 DEF Ideal!Indice, Ideal!SelectInSeq
  <1>6. I \in SUBSET Nat /\ \A i : i \in I <=> i \in 1 .. Len(v) /\ v[i].ID = id
    OBVIOUS
  <1> HIDE DEF I
  <1>7. CASE k = 0
    <2>1. I = {}
      BY <1>3, <1>4, <1>6, <1>7
    <2> QED
      BY <1>1, <1>2, <1>5, <1>7, <2>1
  <1>8. CASE k # 0
    <2>1. k # 1 /\ k - 1 \in 1 .. Len(v) /\ k = (k - 1) + 1
      BY <1>3, <1>4, <1>8
    <2>2. k - 1 \in I
      BY <1>3, <1>4, <1>6, <1>8, <2>1
    <2>3. ASSUME NEW i \in I PROVE k - 1 <= i
      BY <1>3, <1>4, <1>6
    <2>4. PICK m : m = Ideal!Min(I)
      OBVIOUS
    <2>5. m \in I /\ \A x \in I : m <= x
      BY <1>6, <2>2, <2>4, MinimoDelIdeal
    <2>6. m = k - 1
      BY <1>4, <1>6, <2>1, <2>2, <2>3, <2>5
    <2> QED
      BY <1>1, <1>2, <1>5, <1>8, <2>2, <2>4, <2>6
  <1> QED
    BY <1>7, <1>8

\* The segment of an address, in the table and for the program.
LEMMA SegmentoVisto ==
    ASSUME MaquinaInv, NEW p \in Procesos, NEW id \in Nat
    PROVE  /\ Segmento(diccionario_tablas[p], id) \in 0 .. Len(diccionario_tablas[p])
           /\ id = 0 => Segmento(diccionario_tablas[p], id) = 1
           /\ id # 0 => Segmento(diccionario_tablas[p], id) # 1
           /\ Segmento(diccionario_tablas[p], id) # 0 =>
                 Ideal!Segmento(p, id)
                   = BytesEn(user_space, diccionario_tablas[p][Segmento(diccionario_tablas[p], id)])
           /\ Segmento(diccionario_tablas[p], id) = 0 => id # 0 /\ Ideal!Indice(p, id) = 0
  <1>1. PICK t : t = diccionario_tablas[p]
    OBVIOUS
  <1>2. PICK k : k = Segmento(t, id)
    OBVIOUS
  <1>3. Len(t) \in Nat /\ Len(t) >= 1 /\ t[1] = Segmento0 /\ t[1].ID = 0
    BY <1>1, TablaDe, ElCompartido
  <1>4. /\ k \in 0 .. Len(t)
        /\ k # 0 => t[k].ID = id
        /\ \A i \in 1 .. Len(t) : t[i].ID = id => k # 0 /\ k <= i
    BY <1>2, <1>3, SegmentoEs
  <1>5. id = 0 => k = 1
    BY <1>3, <1>4
  <1>6. id # 0 => k # 1 /\ Ideal!Indice(p, id) = IF k = 0 THEN 0 ELSE k - 1
    BY <1>1, <1>2, <1>3, <1>4, IndiceEs
  <1>7. id = 0 => Ideal!Segmento(p, id) = BytesEn(user_space, t[k])
    BY <1>3, <1>5, LoQueVe DEF Ideal!Segmento
  <1>8. id # 0 /\ k # 0 => Ideal!Segmento(p, id) = BytesEn(user_space, t[k])
    <2> SUFFICES ASSUME id # 0, k # 0 PROVE Ideal!Segmento(p, id) = BytesEn(user_space, t[k])
      OBVIOUS
    <2>1. k - 1 \in 1 .. Len(t) - 1 /\ (k - 1) + 1 = k /\ k - 1 # 0
      BY <1>3, <1>4, <1>6
    <2>2. Ideal!Segmento(p, id) = SegmentosVistos[p][k - 1].bytes
      BY <1>6, <2>1 DEF Ideal!Segmento
    <2>3. SegmentosVistos[p][k - 1].bytes = BytesEn(user_space, t[(k - 1) + 1])
      BY <1>1, <2>1, LoQueVe
    <2> QED
      BY <2>1, <2>2, <2>3
  <1> QED
    BY <1>1, <1>2, <1>4, <1>5, <1>6, <1>7, <1>8

\* An access is within its segment for the MMU and for the program alike.
LEMMA ElAcceso ==
    ASSUME MaquinaInv, NEW p \in Procesos, NEW dir \in Nat, NEW n \in Nat
    PROVE  /\ MMU(diccionario_tablas[p], dir, n) # -1 <=> Ideal!Alcanza(p, dir, n)
           /\ MMU(diccionario_tablas[p], dir, n) # -1 =>
                 \E k \in DOMAIN diccionario_tablas[p] :
                     /\ k = Segmento(diccionario_tablas[p], Ideal!Num(dir))
                     /\ Ideal!Despl(dir) + n <= diccionario_tablas[p][k].limite
                     /\ MMU(diccionario_tablas[p], dir, n)
                          = diccionario_tablas[p][k].base + Ideal!Despl(dir)
                     /\ Ideal!Segmento(p, Ideal!Num(dir))
                          = BytesEn(user_space, diccionario_tablas[p][k])
  <1>1. PICK t : t = diccionario_tablas[p]
    OBVIOUS
  <1>2. PICK id, d : id = dir \div TAM_MAX_SEGMENTO /\ d = dir % TAM_MAX_SEGMENTO
    OBVIOUS
  <1>3. PICK k : k = Segmento(t, id)
    OBVIOUS
  <1>4. Ideal!Num(dir) = id /\ Ideal!Despl(dir) = d /\ id \in Nat /\ d \in Nat
    BY <1>2, Tamanios DEF Ideal!Num, Ideal!Despl
  <1>5. /\ k \in 0 .. Len(t) /\ Len(t) \in Nat /\ (id = 0 => k = 1) /\ (id # 0 => k # 1)
        /\ k # 0 => Ideal!Segmento(p, id) = BytesEn(user_space, t[k])
        /\ k = 0 => id # 0 /\ Ideal!Indice(p, id) = 0
        /\ id # 0 => Ideal!Indice(p, id) = IF k = 0 THEN 0 ELSE k - 1
    BY <1>1, <1>3, <1>4, SegmentoVisto, IndiceEs, TablaDe
  <1>6. MMU(t, dir, n) = IF k = 0 THEN -1
                         ELSE IF t[k].base + d + n > t[k].base + t[k].limite THEN -1
                         ELSE t[k].base + d
    BY <1>2, <1>3 DEF MMU
  <1>7. CASE k = 0
    <2>1. MMU(t, dir, n) = -1
      BY <1>6, <1>7
    <2>2. ~Ideal!Alcanza(p, dir, n)
      BY <1>4, <1>5, <1>7 DEF Ideal!Alcanza
    <2> QED
      BY <1>1, <2>1, <2>2
  <1>8. CASE k # 0
    <2>1. k \in DOMAIN t /\ t[k] \in Segmentos
      BY <1>1, <1>5, <1>8, TablaDe
    <2>2. t[k].base \in Nat /\ t[k].limite \in Nat /\ Len(BytesEn(user_space, t[k])) = t[k].limite
      BY <2>1, Numero, BytesSon, TiposDeLaMaquina
    <2>3. Ideal!Segmento(p, id) = BytesEn(user_space, t[k])
      BY <1>5, <1>8
    <2>4. Ideal!Alcanza(p, dir, n) <=> d + n <= t[k].limite
      BY <1>4, <1>5, <1>8, <2>2, <2>3 DEF Ideal!Alcanza
    <2>5. PICK b, l, m : b = t[k].base /\ l = t[k].limite /\ m = MMU(t, dir, n)
      OBVIOUS
    <2>6. m = IF b + d + n > b + l THEN -1 ELSE b + d
      BY <1>6, <1>8, <2>5
    <2>7. (m # -1 <=> d + n <= l) /\ (m # -1 => m = b + d)
      <3>1. b \in Nat /\ l \in Nat /\ d \in Nat
        BY <1>4, <2>2, <2>5
      <3>2. b + d + n > b + l <=> ~(d + n <= l)
        BY <3>1
      <3>3. b + d # -1
        BY <3>1
      <3> QED
        BY <2>6, <3>2, <3>3
    <2>8. MMU(diccionario_tablas[p], dir, n) = m /\ (m # -1 <=> Ideal!Alcanza(p, dir, n))
      BY <1>1, <2>4, <2>5, <2>7
    <2>9. ASSUME m # -1
          PROVE  /\ k \in DOMAIN diccionario_tablas[p]
                 /\ k = Segmento(diccionario_tablas[p], Ideal!Num(dir))
                 /\ Ideal!Despl(dir) + n <= diccionario_tablas[p][k].limite
                 /\ m = diccionario_tablas[p][k].base + Ideal!Despl(dir)
                 /\ Ideal!Segmento(p, Ideal!Num(dir))
                      = BytesEn(user_space, diccionario_tablas[p][k])
      <3>1. d + n <= t[k].limite /\ m = t[k].base + d
        BY <2>5, <2>7, <2>9
      <3>2. /\ k \in DOMAIN diccionario_tablas[p]
            /\ k = Segmento(diccionario_tablas[p], Ideal!Num(dir))
        BY <1>1, <1>3, <1>4, <2>1
      <3> QED
        BY <1>1, <1>4, <2>3, <3>1, <3>2
    <2> QED
      BY <2>8, <2>9
  <1> QED
    BY <1>7, <1>8

LEMMA Desplazamiento == ASSUME NEW dir \in Nat PROVE Ideal!Despl(dir) \in Nat
  BY Tamanios DEF Ideal!Despl

\* What an access reads.
LEMMA LaLectura ==
    ASSUME MaquinaInv, NEW p \in Procesos, NEW dir \in Nat, NEW n \in Nat, NEW a,
           a = MMU(diccionario_tablas[p], dir, n), a # -1
    PROVE  /\ Ideal!Lee(p, dir, n) = [i \in 1 .. n |-> user_space[a + i - 1]]
           /\ Ideal!Lee(p, dir, n) \in Textos(n)
  <1>1. PICK k \in DOMAIN diccionario_tablas[p] :
            /\ Ideal!Despl(dir) + n <= diccionario_tablas[p][k].limite
            /\ a = diccionario_tablas[p][k].base + Ideal!Despl(dir)
            /\ Ideal!Segmento(p, Ideal!Num(dir)) = BytesEn(user_space, diccionario_tablas[p][k])
    BY ElAcceso
  <1>2. PICK s, d, b : /\ s = diccionario_tablas[p][k] /\ d = Ideal!Despl(dir)
                       /\ b = BytesEn(user_space, s)
    OBVIOUS
  <1>3. s \in Segmentos /\ s.base \in Nat /\ s.limite \in Nat /\ d \in Nat
    <2>1. s \in Segmentos
      BY <1>2, TablaDe
    <2> QED
      BY <1>2, <2>1, Numero, Desplazamiento
  <1>4. d + n <= s.limite /\ a = s.base + d
    BY <1>1, <1>2
  <1>5. /\ b \in Seq(Caracteres) /\ Len(b) = s.limite
        /\ \A i \in 1 .. s.limite : b[i] = user_space[s.base + i - 1] /\ b[i] \in Caracteres
    BY <1>2, <1>3, BytesSon, TiposDeLaMaquina
  <1>6. PICK w : w = SubSeq(b, d + 1, d + n)
    OBVIOUS
  <1>7. /\ w \in Seq(Caracteres) /\ Len(w) = n
        /\ \A i \in 1 .. n : w[i] = b[d + i]
    <2>1. d + 1 \in 1 .. Len(b) + 1 /\ d + n \in (d + 1) - 1 .. Len(b)
          /\ (d + n) - (d + 1) + 1 = n /\ d + n <= Len(b)
      BY <1>3, <1>4, <1>5
    <2>2. \A i \in 1 .. n : /\ i + (d + 1) - 1 = d + i /\ d + i \in 1 .. Len(b)
      BY <1>3, <1>4, <1>5
    <2>3. PICK x, y : x = d + 1 /\ y = d + n
      OBVIOUS
    <2>4. SubSeq(b, x, y) = [i \in 1 .. n |-> b[d + i]]
      BY <2>1, <2>2, <2>3, <1>3
    <2>5. w = [i \in 1 .. n |-> w[i]] /\ \A i \in 1 .. n : w[i] = b[d + i] /\ w[i] \in Caracteres
      BY <1>5, <1>6, <2>2, <2>3, <2>4
    <2> QED
      BY <2>5, EsSecuencia
  <1>8. \A i \in 1 .. n : d + i \in 1 .. s.limite /\ s.base + (d + i) - 1 = a + i - 1
    BY <1>3, <1>4
  <1>9. \A i \in 1 .. n : w[i] = user_space[a + i - 1] /\ w[i] \in Caracteres
    BY <1>5, <1>7, <1>8
  <1>10. w = [i \in 1 .. n |-> w[i]]
    BY <1>7, LenProperties
  <1>11. w = [i \in 1 .. n |-> user_space[a + i - 1]]
    BY <1>9, <1>10, Zenon
  <1>12. w \in Textos(n)
    BY <1>9, <1>10, Zenon DEF Textos
  <1>13. Ideal!Lee(p, dir, n) = w
    BY <1>1, <1>2, <1>6 DEF Ideal!Lee
  <1> QED
    BY <1>11, <1>12, <1>13

\* The memory after the bytes valor were put from a on.
Puesto(u, a, valor, n) ==
    [d \in Direcciones |-> IF d \in a .. a + n - 1 THEN valor[d - a + 1] ELSE u[d]]

LEMMA EnElSegmento ==
    ASSUME NEW u \in [Direcciones -> Caracteres], NEW s \in Segmentos, NEW dir \in Nat,
           NEW n \in Nat, NEW valor \in Textos(n), Ideal!Despl(dir) + n <= s.limite
    PROVE  BytesEn(Puesto(u, s.base + Ideal!Despl(dir), valor, n), s)
             = Ideal!Sobre(BytesEn(u, s), dir, valor)
  <1>1. PICK b, l, d : b = s.base /\ l = s.limite /\ d = Ideal!Despl(dir)
    OBVIOUS
  <1>2. b \in Nat /\ l \in Nat /\ d \in Nat /\ b + l <= TAM_MEMORIA /\ d + n <= l
    <2>1. b \in Nat /\ l \in Nat /\ b + l <= TAM_MEMORIA
      BY <1>1, Numero
    <2>2. d \in Nat
      BY <1>1, Desplazamiento
    <2> QED
      BY <1>1, <2>1, <2>2
  <1>3. PICK w, v, o : /\ w = Puesto(u, b + d, valor, n) /\ v = BytesEn(u, s)
                       /\ o = Ideal!Sobre(v, dir, valor)
    OBVIOUS
  <1>4. Len(valor) = n /\ Len(v) = l /\ \A i \in 1 .. l : v[i] = u[b + i - 1]
    BY <1>1, <1>2, <1>3, TextoEsSecuencia, BytesSon
  <1>5. o = [i \in 1 .. l |-> IF i - d \in 1 .. n THEN valor[i - d] ELSE v[i]]
    BY <1>1, <1>3, <1>4 DEF Ideal!Sobre
  <1>6. ASSUME NEW i \in 1 .. l
        PROVE  w[b + i - 1] = IF i - d \in 1 .. n THEN valor[i - d] ELSE v[i]
    <2>1. b + i - 1 \in Direcciones
      BY <1>2, Tamanios DEF Direcciones
    <2>2. PICK e : e = b + i - 1
      OBVIOUS
    <2>3. w[e] = IF e \in b + d .. b + d + n - 1 THEN valor[e - (b + d) + 1] ELSE u[e]
      BY <1>3, <2>1, <2>2 DEF Puesto
    <2>4. e - (b + d) + 1 = i - d /\ (e \in b + d .. b + d + n - 1 <=> i - d \in 1 .. n)
      BY <1>2, <2>2
    <2> QED
      BY <1>4, <2>2, <2>3, <2>4
  <1>7. BytesEn(w, s) = [i \in 1 .. l |-> w[b + i - 1]]
    BY <1>1 DEF BytesEn
  <1>8. BytesEn(w, s) = o
    BY <1>5, <1>6, <1>7, Zenon
  <1> QED
    BY <1>1, <1>3, <1>8

LEMMA EnOtroSegmento ==
    ASSUME NEW u \in [Direcciones -> Caracteres], NEW s \in Segmentos, NEW r \in Segmentos,
           Disjuntos(s, r), NEW d \in Nat, NEW n \in Nat, NEW valor, d + n <= s.limite
    PROVE  BytesEn(Puesto(u, s.base + d, valor, n), r) = BytesEn(u, r)
  <1>1. PICK b, l, c, m : b = s.base /\ l = s.limite /\ c = r.base /\ m = r.limite
    OBVIOUS
  <1>2. /\ b \in Nat /\ l \in Nat /\ c \in Nat /\ m \in Nat /\ c + m <= TAM_MEMORIA
        /\ Rango(s) = b .. b + l - 1 /\ Rango(r) = c .. c + m - 1
    BY <1>1, Numero
  <1>3. PICK w : w = Puesto(u, b + d, valor, n)
    OBVIOUS
  <1>4. ASSUME NEW i \in 1 .. m PROVE w[c + i - 1] = u[c + i - 1]
    <2>1. PICK e : e = c + i - 1
      OBVIOUS
    <2>2. e \in Direcciones /\ e \in Rango(r)
      BY <1>2, <2>1, Tamanios DEF Direcciones
    <2>3. e \notin b .. b + l - 1
      BY <1>2, <2>2 DEF Disjuntos
    <2>4. e \notin b + d .. b + d + n - 1
      BY <1>1, <1>2, <2>1, <2>3
    <2>5. w[e] = u[e]
      BY <1>3, <2>2, <2>4 DEF Puesto
    <2> QED
      BY <2>1, <2>5
  <1>5. /\ BytesEn(w, r) = [i \in 1 .. m |-> w[c + i - 1]]
        /\ BytesEn(u, r) = [i \in 1 .. m |-> u[c + i - 1]]
    BY <1>1 DEF BytesEn
  <1>6. BytesEn(w, r) = BytesEn(u, r)
    BY <1>4, <1>5, Zenon
  <1> QED
    BY <1>1, <1>3, <1>6

\* A record of a sequence of a function changes.
LEMMA CambiaLosBytes ==
    ASSUME NEW S, NEW p \in S, NEW f, NEW g,
           f = [x \in S |-> f[x]], g = [x \in S |-> g[x]], \A x \in S \ {p} : g[x] = f[x],
           NEW n \in Nat, NEW k \in 1 .. n, NEW c, f[p] = [i \in 1 .. n |-> f[p][i]],
           g[p] = [i \in 1 .. n |-> g[p][i]], \A i \in 1 .. n : i # k => g[p][i] = f[p][i],
           g[p][k] = [f[p][k] EXCEPT !.bytes = c]
    PROVE  g = [f EXCEPT ![p][k].bytes = c]
  <1>1. PICK x, y : x = f[p] /\ y = g[p]
    OBVIOUS
  <1>2. /\ x = [i \in 1 .. n |-> x[i]] /\ y = [i \in 1 .. n |-> y[i]]
        /\ \A i \in 1 .. n : i # k => y[i] = x[i]
        /\ y[k] = [x[k] EXCEPT !.bytes = c]
    BY <1>1
  <1>3. y = [x EXCEPT ![k] = y[k]]
    BY <1>2, CambiaUno
  <1>4. g = [f EXCEPT ![p] = g[p]]
    BY CambiaUno
  <1> QED
    BY <1>1, <1>2, <1>3, <1>4

\* An access that writes changes the bytes of its program's segment, and no others.
LEMMA LaEscritura ==
    ASSUME MaquinaInv, NEW p \in Procesos, NEW dir \in Nat, NEW n \in Nat, NEW a,
           a = MMU(diccionario_tablas[p], dir, n), a # -1, NEW valor \in Textos(n),
           user_space' = Puesto(user_space, a, valor, n),
           diccionario_tablas' = diccionario_tablas
    PROVE  Ideal!Escribe(p, dir, valor)
  <1>1. PICK t, u, d, id : /\ t = diccionario_tablas[p] /\ u = user_space
                           /\ d = Ideal!Despl(dir) /\ id = Ideal!Num(dir)
    OBVIOUS
  <1>2. PICK k \in DOMAIN t :
            /\ k = Segmento(t, id) /\ d + n <= t[k].limite /\ a = t[k].base + d
    BY <1>1, ElAcceso
  <1>3. PICK s : s = t[k]
    OBVIOUS
  <1>4. PICK w : w = Puesto(u, s.base + d, valor, n)
    OBVIOUS
  <1>5. /\ Len(t) \in Nat /\ Len(t) >= 1 /\ DOMAIN t = 1 .. Len(t) /\ t[1] = Segmento0
        /\ s \in Segmentos /\ u \in [Direcciones -> Caracteres] /\ Segmento0 \in Segmentos
    BY <1>1, <1>3, TablaDe, TiposDeLaMaquina, Segmento0EsSegmento
  <1>6. d \in Nat /\ id \in Nat
    <2>1. d \in Nat
      BY <1>1, Desplazamiento
    <2> QED
      BY <1>1, <2>1, Tamanios DEF Ideal!Num
  <1>7. user_space' = w
    BY <1>1, <1>2, <1>3, <1>4
  <1>8. BytesEn(w, s) = Ideal!Sobre(BytesEn(u, s), dir, valor)
    <2>1. Ideal!Despl(dir) + n <= s.limite
      BY <1>1, <1>2, <1>3
    <2>2. BytesEn(Puesto(u, s.base + Ideal!Despl(dir), valor, n), s)
            = Ideal!Sobre(BytesEn(u, s), dir, valor)
      BY <1>5, <2>1, EnElSegmento
    <2> QED
      BY <1>1, <1>4, <2>2
  <1>9. ASSUME NEW r \in Segmentos, Disjuntos(s, r) PROVE BytesEn(w, r) = BytesEn(u, r)
    <2>1. d + n <= s.limite
      BY <1>2, <1>3
    <2>2. s \in Segmentos /\ u \in [Direcciones -> Caracteres] /\ d \in Nat /\ Disjuntos(s, r)
      BY <1>5, <1>6, <1>9
    <2>3. BytesEn(Puesto(u, s.base + d, valor, n), r) = BytesEn(u, r)
      BY <2>1, <2>2, EnOtroSegmento
    <2> QED
      BY <1>4, <2>3
  <1>10. /\ id = 0 => k = 1
         /\ id # 0 => k # 1 /\ Ideal!Indice(p, id) = k - 1
    <2>1. id = 0 => k = 1
      BY <1>1, <1>2, <1>6, SegmentoVisto
    <2>2. id # 0 => k # 1
      BY <1>1, <1>2, <1>6, SegmentoVisto
    <2>3. id # 0 => Ideal!Indice(p, id) = IF k = 0 THEN 0 ELSE k - 1
      BY <1>1, <1>2, IndiceEs
    <2>4. k # 0
      BY <1>2, <1>5
    <2> QED
      BY <2>1, <2>2, <2>3, <2>4
  <1>11. CompartidoVisto = BytesEn(u, Segmento0) /\ CompartidoVisto' = BytesEn(w, Segmento0)
    BY <1>1, <1>7, SegmentosQueVe
  <1>12. ASSUME NEW q \in Procesos
         PROVE  /\ SegmentosVistos[q] = SegmentosEn(u, diccionario_tablas[q])
                /\ SegmentosVistos'[q] = SegmentosEn(w, diccionario_tablas[q])
    BY <1>1, <1>7, SegmentosQueVe
  \* The other entries, of its own table and of the others', keep their bytes.
  <1>13. ASSUME NEW q \in Procesos, NEW j \in 1 .. Len(diccionario_tablas[q]) - 1,
                q # p \/ j + 1 # k
         PROVE  SegmentosVistos'[q][j] = SegmentosVistos[q][j]
    <2>1. PICK x : x = diccionario_tablas[q]
      OBVIOUS
    <2>2. /\ x \in Seq(Segmentos) /\ Len(x) \in Nat /\ Len(x) >= 1
          /\ j + 1 \in DOMAIN x /\ j + 1 # 1
      BY <2>1, TablaDe
    <2>3. x[j + 1] \in Segmentos
      BY <2>1, <2>2, TablaDe
    <2>4. Disjuntos(s, x[j + 1])
      <3>1. CASE k = 1
        BY <1>3, <1>5, <2>1, <2>2, <3>1 DEF MaquinaInv, Apartes
      <3>2. CASE k # 1
        BY <1>1, <1>3, <1>13, <2>1, <2>2, <3>2 DEF MaquinaInv, Apartes
      <3> QED
        BY <3>1, <3>2
    <2>5. BytesEn(w, x[j + 1]) = BytesEn(u, x[j + 1])
      BY <1>9, <2>3, <2>4
    <2>6. /\ SegmentosEn(u, x)[j] = [ID |-> x[j + 1].ID, bytes |-> BytesEn(u, x[j + 1])]
          /\ SegmentosEn(w, x)[j] = [ID |-> x[j + 1].ID, bytes |-> BytesEn(w, x[j + 1])]
      BY <2>1 DEF SegmentosEn
    <2> QED
      BY <1>12, <2>1, <2>5, <2>6
  <1>14. ASSUME NEW q \in Procesos
         PROVE  /\ SegmentosVistos[q]
                     = [j \in 1 .. Len(diccionario_tablas[q]) - 1 |-> SegmentosVistos[q][j]]
                /\ SegmentosVistos'[q]
                     = [j \in 1 .. Len(diccionario_tablas[q]) - 1 |-> SegmentosVistos'[q][j]]
    BY <1>12 DEF SegmentosEn
  <1>15. ASSUME NEW q \in Procesos, q # p \/ k = 1
         PROVE  SegmentosVistos'[q] = SegmentosVistos[q]
    <2>1. PICK m : m = Len(diccionario_tablas[q]) - 1
      OBVIOUS
    <2>2. m \in Nat /\ \A j \in 1 .. m : j + 1 # 1
      BY <2>1, TablaDe
    <2>3. \A j \in 1 .. m : SegmentosVistos'[q][j] = SegmentosVistos[q][j]
      BY <1>13, <1>15, <2>1, <2>2
    <2> QED
      BY <1>14, <2>1, <2>3, CambiaNinguno
  <1>16. CASE id = 0
    <2>1. k = 1 /\ s = Segmento0
      BY <1>3, <1>5, <1>10, <1>16
    <2>2. CompartidoVisto' = Ideal!Sobre(CompartidoVisto, dir, valor)
      BY <1>8, <1>11, <2>1
    <2>3. SegmentosVistos' = SegmentosVistos
      BY <1>15, <2>1, SonFunciones, SiguenSiendoFunciones, CambiaNinguno
    <2> QED
      BY <1>1, <1>16, <2>2, <2>3 DEF Ideal!Escribe
  <1>17. CASE id # 0
    <2>1. k # 1 /\ Ideal!Indice(p, id) = k - 1 /\ k \in 2 .. Len(t)
      BY <1>2, <1>5, <1>10, <1>17
    <2>2. CompartidoVisto' = CompartidoVisto
      <3>1. Disjuntos(Segmento0, s)
        BY <1>1, <1>3, <2>1, <1>2 DEF MaquinaInv, Apartes
      <3>2. Disjuntos(s, Segmento0)
        BY <3>1 DEF Disjuntos
      <3> QED
        BY <1>5, <1>9, <1>11, <3>2
    <2>3. PICK m, i : m = Len(t) - 1 /\ i = k - 1
      OBVIOUS
    <2>4. m \in Nat /\ i \in 1 .. m /\ i + 1 = k
      BY <1>5, <2>1, <2>3
    <2>5. PICK c : c = Ideal!Sobre(BytesEn(u, s), dir, valor)
      OBVIOUS
    <2>6. /\ SegmentosVistos[p][i] = [ID |-> s.ID, bytes |-> BytesEn(u, s)]
          /\ SegmentosVistos'[p][i] = [ID |-> s.ID, bytes |-> BytesEn(w, s)]
      <3>1. /\ SegmentosEn(u, t)[i] = [ID |-> t[i + 1].ID, bytes |-> BytesEn(u, t[i + 1])]
            /\ SegmentosEn(w, t)[i] = [ID |-> t[i + 1].ID, bytes |-> BytesEn(w, t[i + 1])]
        BY <2>3, <2>4 DEF SegmentosEn
      <3> QED
        BY <1>1, <1>3, <1>12, <2>4, <3>1
    <2>7. SegmentosVistos'[p][i] = [SegmentosVistos[p][i] EXCEPT !.bytes = c]
      BY <1>8, <2>5, <2>6
    <2>8. SegmentosVistos[p][i].bytes = BytesEn(u, s)
      BY <2>6
    <2>9. \A j \in 1 .. m : j # i => SegmentosVistos'[p][j] = SegmentosVistos[p][j]
      <3> SUFFICES ASSUME NEW j \in 1 .. m, j # i
                   PROVE  SegmentosVistos'[p][j] = SegmentosVistos[p][j]
        OBVIOUS
      <3>1. j \in 1 .. Len(diccionario_tablas[p]) - 1 /\ j + 1 # k
        BY <1>1, <2>3, <2>4
      <3> QED
        BY <1>13, <3>1
    <2>10. /\ SegmentosVistos[p] = [j \in 1 .. m |-> SegmentosVistos[p][j]]
           /\ SegmentosVistos'[p] = [j \in 1 .. m |-> SegmentosVistos'[p][j]]
      BY <1>1, <1>14, <2>3
    <2>11. \A q \in Procesos \ {p} : SegmentosVistos'[q] = SegmentosVistos[q]
      BY <1>15
    <2>12. SegmentosVistos' = [SegmentosVistos EXCEPT ![p][i].bytes = c]
      BY <2>4, <2>7, <2>9, <2>10, <2>11, SonFunciones, SiguenSiendoFunciones, CambiaLosBytes
    <2>13. Ideal!Indice(p, Ideal!Num(dir)) = i
      BY <1>1, <2>1, <2>3
    <2>14. SegmentosVistos' = [SegmentosVistos EXCEPT ![p][Ideal!Indice(p, Ideal!Num(dir))].bytes
                                                        = Ideal!Sobre(@, dir, valor)]
      BY <2>5, <2>8, <2>12, <2>13
    <2> QED
      BY <1>1, <1>17, <2>2, <2>14 DEF Ideal!Escribe
  <1> QED
    BY <1>16, <1>17
-----------------------------------------------------------------------------
(* A step of an instruction *)

LEMMA LaMismaNada == Ideal!NADA = SinPedido
  BY DEF Ideal!NADA, SinPedido

\* No instruction makes an address wrong.
LEMMA NadieMasSeDesvia ==
    ASSUME MaquinaInv, NEW ins \in Instrucciones, Ejecutar(ins)
    PROVE  Desviados' = Desviados
  BY AcuerdoEjecutar, AcuerdoPedirFS DEF MaquinaInv

\* A register of a program changes.
LEMMA CambiaUnRegistro ==
    ASSUME NEW S, NEW p \in S, NEW f, NEW g, NEW l, NEW m, f = [x \in S |-> f[x]], f[p] = l,
           g = [f EXCEPT ![p] = m], NEW r, NEW v, m = [l EXCEPT ![r] = v]
    PROVE  g = [f EXCEPT ![p][r] = v]
  OBVIOUS

LEMMA RegistroDeLaCPU ==
    ASSUME MaquinaInv, NEW r \in Registros
    PROVE  /\ lista_registros[r] \in Textos(Ancho[r]) /\ lista_registros[r] \in Seq(Caracteres)
           /\ Len(lista_registros[r]) = Ancho[r] /\ Ancho[r] \in Nat
  <1>1. PICK n, t : n = Ancho[r] /\ t = lista_registros[r]
    OBVIOUS
  <1>2. n \in Nat /\ t \in Textos(n)
    BY <1>1, Anchos, TiposDeLaMaquina DEF DeLaCPU
  <1>3. t \in Seq(Caracteres) /\ Len(t) = n
    BY <1>2, TextoEsSecuencia
  <1> QED
    BY <1>1, <1>2, <1>3

\* What the CPU knows of an instruction with an address, in the terms of its program.
LEMMA ElAccesoDe ==
    ASSUME MaquinaInv, NEW ins \in Instrucciones, Fetch(ins), NEW n \in Nat,
           ins.op \in {"MOV_IN", "MOV_OUT", "F_READ", "F_WRITE"}
    PROVE  /\ ins.direccion \in Nat
           /\ Traduce(ins, n) = MMU(diccionario_tablas[PID], ins.direccion, n)
           /\ Traduce(ins, n) # -1 <=> Ideal!Alcanza(PID, ins.direccion, n)
  <1>1. ins.direccion \in Nat
    BY InstruccionTipada
  <1>2. PID \in Procesos /\ contexto.tablaSegmentos = diccionario_tablas[PID]
    BY HayContexto DEF MaquinaInv
  <1>3. Traduce(ins, n) = MMU(diccionario_tablas[PID], ins.direccion, n)
    BY <1>2 DEF Traduce
  <1>4. PICK p \in Procesos : p = PID
    BY <1>2
  <1>5. MMU(diccionario_tablas[p], ins.direccion, n) # -1 <=> Ideal!Alcanza(p, ins.direccion, n)
    BY <1>1, ElAcceso
  <1> QED
    BY <1>1, <1>3, <1>4, <1>5

LEMMA IdealSet ==
    ASSUME MaquinaInv, NEW ins \in Instrucciones, Set(ins)
    PROVE  PID \in Procesos /\ Ideal!Ejecutar(PID, ins)
  <1>1. /\ Fetch(ins) /\ ins.op = "SET" /\ Avanza /\ UNCHANGED <<lugar, PCB, pedido>>
        /\ UNCHANGED <<diccionario_tablas, user_space>>
        /\ ins.registro \in Registros /\ Len(ins.valor) <= Ancho[ins.registro]
        /\ lista_registros' = [lista_registros EXCEPT
                                 ![ins.registro] = Cargar(lista_registros[ins.registro], ins.valor)]
    BY DEF Set, memoria, parametros
  <1>2. PICK r, valor, n : r = ins.registro /\ valor = ins.valor /\ n = Ancho[r]
    OBVIOUS
  <1>3. valor \in Seq(Caracteres) /\ r \in Registros /\ n \in Nat /\ Len(valor) <= n
        /\ lista_registros[r] \in Textos(n)
    BY <1>1, <1>2, InstruccionTipada, RegistroDeLaCPU
  <1>4. PICK v : v = Cargar(lista_registros[r], valor)
    OBVIOUS
  <1>5. v = Ideal!Rellenar(valor, n)
    BY <1>3, <1>4, CargarRellena DEF Ideal!Rellenar
  <1>6. lista_registros' = [lista_registros EXCEPT ![r] = v]
    BY <1>1, <1>2, <1>4
  <1>7. lista_registros' \in DeLaCPU
    <2>1. [lista_registros EXCEPT ![r] = Cargar(@, valor)] \in DeLaCPU
      BY <1>3, CargarUno, TiposDeLaMaquina
    <2> QED
      BY <1>4, <1>6, <2>1
  <1>8. PICK p \in Procesos : p = PID
    BY <1>1, HayContexto DEF MaquinaInv
  <1>9. /\ Ideal!Avanza(p) /\ FaseVista' = FaseVista
        /\ RegistrosVistos[p] = lista_registros
        /\ RegistrosVistos' = [RegistrosVistos EXCEPT ![p] = lista_registros']
    BY <1>1, <1>7, <1>8, VeElQueSigue
  <1>10. RegistrosVistos' = [RegistrosVistos EXCEPT ![p][r] = v]
    BY <1>6, <1>9, SonFunciones, CambiaUnRegistro
  <1>11. SegmentosVistos' = SegmentosVistos /\ CompartidoVisto' = CompartidoVisto
    BY <1>1, NadieVeOtraMemoria
  <1>12. Desviados' = Desviados
    BY NadieMasSeDesvia DEF Ejecutar
  <1>13. Ideal!Setear(p, ins.registro, ins.valor)
    BY <1>1, <1>2, <1>5, <1>9, <1>10, <1>11, <1>12 DEF Ideal!Setear
  <1>14. Ideal!Correcta(p, ins)
    BY <1>1 DEF Ideal!Correcta, Registros
  <1> QED
    BY <1>1, <1>8, <1>13, <1>14 DEF Ideal!Ejecutar

LEMMA IdealMovIn ==
    ASSUME MaquinaInv, NEW ins \in Instrucciones, MovIn(ins)
    PROVE  PID \in Procesos /\ Ideal!Ejecutar(PID, ins)
  <1>1. PICK r, dir, n, a : /\ r = ins.registro /\ dir = ins.direccion /\ n = Ancho[r]
                            /\ a = Traduce(ins, n)
    OBVIOUS
  <1>2. /\ Fetch(ins) /\ ins.op = "MOV_IN" /\ Avanza /\ UNCHANGED <<lugar, PCB, pedido>>
        /\ UNCHANGED <<diccionario_tablas, user_space>> /\ r \in Registros
    BY <1>1 DEF MovIn, memoria, parametros
  <1>3. /\ lista_registros[r] \in Textos(n) /\ lista_registros[r] \in Seq(Caracteres)
        /\ Len(lista_registros[r]) = n /\ n \in Nat
    BY <1>1, <1>2, RegistroDeLaCPU
  <1>4. Bytes(ins) = n
    BY <1>1, <1>3 DEF Bytes
  <1>5. PICK v : v = [i \in 1 .. n |-> user_space[a + i - 1]]
    OBVIOUS
  <1>6. /\ a # -1
        /\ lista_registros' = [lista_registros EXCEPT ![r] = Cargar(lista_registros[r], v)]
    BY <1>1, <1>4, <1>5 DEF MovIn
  <1>7. PICK p \in Procesos : p = PID
    BY <1>2, HayContexto DEF MaquinaInv
  <1>8. dir \in Nat /\ a = MMU(diccionario_tablas[p], dir, n) /\ Ideal!Alcanza(p, dir, n)
    <2>1. /\ ins.direccion \in Nat
          /\ Traduce(ins, n) = MMU(diccionario_tablas[PID], ins.direccion, n)
          /\ Traduce(ins, n) # -1 <=> Ideal!Alcanza(PID, ins.direccion, n)
      BY <1>2, <1>3, ElAccesoDe
    <2> QED
      BY <1>1, <1>6, <1>7, <2>1
  <1>9. Ideal!Lee(p, dir, n) = v /\ v \in Textos(n)
    <2>1. /\ Ideal!Lee(p, dir, n) = [i \in 1 .. n |-> user_space[a + i - 1]]
          /\ Ideal!Lee(p, dir, n) \in Textos(n)
      BY <1>3, <1>6, <1>8, LaLectura
    <2> QED
      BY <1>5, <2>1
  <1>10. v \in Seq(Caracteres) /\ Len(v) = n
    BY <1>3, <1>9, TextoEsSecuencia
  <1>11. Cargar(lista_registros[r], v) = v
    <2>1. Cargar(lista_registros[r], v) = [i \in 1 .. n |-> IF i <= Len(v) THEN v[i] ELSE "0"]
      BY <1>3, <1>10, CargarRellena
    <2>2. \A i \in 1 .. n : (IF i <= Len(v) THEN v[i] ELSE "0") = v[i]
      BY <1>3, <1>10
    <2>3. v = [i \in 1 .. n |-> v[i]]
      BY <1>9 DEF Textos
    <2> QED
      BY <2>1, <2>2, <2>3, Zenon
  <1>12. lista_registros' = [lista_registros EXCEPT ![r] = v]
    BY <1>6, <1>11
  <1>13. lista_registros' \in DeLaCPU
    <2>1. [lista_registros EXCEPT ![r] = Cargar(@, v)] \in DeLaCPU
      BY <1>2, <1>10, CargarUno, TiposDeLaMaquina
    <2> QED
      BY <1>6, <2>1
  <1>14. /\ Ideal!Avanza(p) /\ FaseVista' = FaseVista
         /\ RegistrosVistos[p] = lista_registros
         /\ RegistrosVistos' = [RegistrosVistos EXCEPT ![p] = lista_registros']
    BY <1>2, <1>7, <1>13, VeElQueSigue
  <1>15. RegistrosVistos' = [RegistrosVistos EXCEPT ![p][r] = v]
    BY <1>12, <1>14, SonFunciones, CambiaUnRegistro
  <1>16. SegmentosVistos' = SegmentosVistos /\ CompartidoVisto' = CompartidoVisto
    BY <1>2, NadieVeOtraMemoria
  <1>17. Desviados' = Desviados
    BY NadieMasSeDesvia DEF Ejecutar
  <1>18. Ideal!Leer(p, ins.registro, ins.direccion)
    BY <1>1, <1>2, <1>9, <1>14, <1>15, <1>16, <1>17 DEF Ideal!Leer
  <1>19. Ideal!Correcta(p, ins)
    BY <1>1, <1>2, <1>8 DEF Ideal!Correcta, Registros
  <1> QED
    BY <1>2, <1>7, <1>18, <1>19 DEF Ideal!Ejecutar

LEMMA IdealMovOut ==
    ASSUME MaquinaInv, NEW ins \in Instrucciones, MovOut(ins)
    PROVE  PID \in Procesos /\ Ideal!Ejecutar(PID, ins)
  <1>1. PICK r, dir, n, a : /\ r = ins.registro /\ dir = ins.direccion /\ n = Ancho[r]
                            /\ a = Traduce(ins, n)
    OBVIOUS
  <1>2. /\ Fetch(ins) /\ ins.op = "MOV_OUT" /\ Avanza /\ UNCHANGED <<lugar, PCB, pedido>>
        /\ UNCHANGED <<diccionario_tablas, lista_registros>> /\ r \in Registros
    BY <1>1 DEF MovOut, parametros
  <1>3. PICK v : v = lista_registros[r]
    OBVIOUS
  <1>4. v \in Textos(n) /\ Len(v) = n /\ n \in Nat
    BY <1>1, <1>2, <1>3, RegistroDeLaCPU
  <1>5. Bytes(ins) = n
    BY <1>1, <1>3, <1>4 DEF Bytes
  <1>6. a # -1 /\ user_space' = Puesto(user_space, a, v, n)
    BY <1>1, <1>3, <1>5 DEF MovOut, Puesto
  <1>7. PICK p \in Procesos : p = PID
    BY <1>2, HayContexto DEF MaquinaInv
  <1>8. dir \in Nat /\ a = MMU(diccionario_tablas[p], dir, n) /\ Ideal!Alcanza(p, dir, n)
    <2>1. /\ ins.direccion \in Nat
          /\ Traduce(ins, n) = MMU(diccionario_tablas[PID], ins.direccion, n)
          /\ Traduce(ins, n) # -1 <=> Ideal!Alcanza(PID, ins.direccion, n)
      BY <1>2, <1>4, ElAccesoDe
    <2> QED
      BY <1>1, <1>6, <1>7, <2>1
  <1>9. Ideal!Escribe(p, dir, v)
    BY <1>2, <1>4, <1>6, <1>8, LaEscritura
  <1>10. lista_registros' \in DeLaCPU
    BY <1>2, TiposDeLaMaquina
  <1>11. /\ Ideal!Avanza(p) /\ FaseVista' = FaseVista
         /\ RegistrosVistos[p] = lista_registros
         /\ RegistrosVistos' = [RegistrosVistos EXCEPT ![p] = lista_registros']
    BY <1>2, <1>7, <1>10, VeElQueSigue
  <1>12. RegistrosVistos' = RegistrosVistos
    BY <1>2, <1>11, SonFunciones
  <1>13. RegistrosVistos[p][r] = v
    BY <1>3, <1>11
  <1>14. Desviados' = Desviados
    BY NadieMasSeDesvia DEF Ejecutar
  <1>15. Ideal!Escribir(p, ins.registro, ins.direccion)
    BY <1>1, <1>2, <1>9, <1>11, <1>12, <1>13, <1>14 DEF Ideal!Escribir
  <1>16. Ideal!Correcta(p, ins)
    BY <1>1, <1>2, <1>8 DEF Ideal!Correcta, Registros
  <1> QED
    BY <1>2, <1>7, <1>15, <1>16 DEF Ideal!Ejecutar

LEMMA IdealYield ==
    ASSUME MaquinaInv, NEW ins \in Instrucciones, Yield(ins)
    PROVE  PID \in Procesos /\ Ideal!Ejecutar(PID, ins)
  <1>1. /\ Fetch(ins) /\ ins.op = "YIELD" /\ Devuelve(lista_registros, "ready")
        /\ UNCHANGED <<pedido, diccionario_tablas, user_space>>
    BY DEF Yield, memoria, parametros
  <1>2. PICK p \in Procesos : p = PID
    BY <1>1, HayContexto DEF MaquinaInv
  <1>3. /\ Ideal!Avanza(p) /\ RegistrosVistos' = RegistrosVistos
        /\ FaseVista' = [FaseVista EXCEPT ![p] = FaseDelLugar("ready")]
        /\ FaseVista[p] = "corre"
    BY <1>1, <1>2, VeElQueDeja
  <1>4. FaseVista' = FaseVista
    BY <1>3, SonFunciones DEF FaseDelLugar
  <1>5. SegmentosVistos' = SegmentosVistos /\ CompartidoVisto' = CompartidoVisto
    BY <1>1, NadieVeOtraMemoria
  <1>6. Desviados' = Desviados
    BY NadieMasSeDesvia DEF Ejecutar
  <1>7. Ideal!Ceder(p)
    BY <1>1, <1>3, <1>4, <1>5, <1>6 DEF Ideal!Ceder
  <1>8. Ideal!Correcta(p, ins)
    BY <1>1 DEF Ideal!Correcta
  <1> QED
    BY <1>1, <1>2, <1>7, <1>8 DEF Ideal!Ejecutar

\* A request leaves the memory and the registers as they are.
LEMMA IdealPedir ==
    ASSUME MaquinaInv, NEW ins, Fetch(ins), NEW hasta \in {"fs", "kernel"},
           Devuelve(lista_registros, hasta), pedido' = [pedido EXCEPT ![PID] = ins],
           UNCHANGED <<diccionario_tablas, user_space>>, Desviados' = Desviados
    PROVE  Ideal!Pedir(PID, ins)
  <1>1. /\ Ideal!Avanza(PID) /\ RegistrosVistos' = RegistrosVistos
        /\ FaseVista' = [FaseVista EXCEPT ![PID] = FaseDelLugar(hasta)]
    BY VeElQueDeja
  <1>2. FaseDelLugar(hasta) = "espera"
    BY DEF FaseDelLugar
  <1>3. SegmentosVistos' = SegmentosVistos /\ CompartidoVisto' = CompartidoVisto
    BY NadieVeOtraMemoria
  <1> QED
    BY <1>1, <1>2, <1>3 DEF Ideal!Pedir

LEMMA IdealPedirFS ==
    ASSUME MaquinaInv, NEW ins \in Instrucciones, PedirFS(ins)
    PROVE  PID \in Procesos /\ Ideal!Ejecutar(PID, ins)
  <1>1. /\ Fetch(ins) /\ ins.op \in {"F_READ", "F_WRITE"} /\ Devuelve(lista_registros, "fs")
        /\ pedido' = [pedido EXCEPT ![PID] = ins] /\ Traduce(ins, ins.bytes) # -1
        /\ UNCHANGED <<diccionario_tablas, user_space>>
    BY DEF PedirFS, memoria
  <1>2. PID \in Procesos
    BY <1>1, HayContexto DEF MaquinaInv
  <1>3. Ideal!Pedir(PID, ins)
    BY <1>1, NadieMasSeDesvia, IdealPedir DEF Ejecutar
  <1>4. ins.bytes \in Nat
    BY <1>1, InstruccionTipada
  <1>5. Ideal!Alcanza(PID, ins.direccion, ins.bytes)
    BY <1>1, <1>4, ElAccesoDe
  <1>6. Ideal!Correcta(PID, ins)
    BY <1>1, <1>5 DEF Ideal!Correcta
  <1> QED
    BY <1>1, <1>2, <1>3, <1>6 DEF Ideal!Ejecutar

LEMMA IdealPedirSegmento ==
    ASSUME MaquinaInv, NEW ins \in Instrucciones, PedirSegmento(ins)
    PROVE  PID \in Procesos /\ Ideal!Ejecutar(PID, ins)
  <1>1. /\ Fetch(ins) /\ ins.op \in {"CREATE_SEGMENT", "DELETE_SEGMENT"}
        /\ Devuelve(lista_registros, "kernel") /\ pedido' = [pedido EXCEPT ![PID] = ins]
        /\ UNCHANGED <<diccionario_tablas, user_space>>
    BY DEF PedirSegmento, memoria
  <1>2. PID \in Procesos
    BY <1>1, HayContexto DEF MaquinaInv
  <1>3. Ideal!Pedir(PID, ins)
    BY <1>1, NadieMasSeDesvia, IdealPedir DEF Ejecutar
  <1>4. Ideal!Correcta(PID, ins)
    BY <1>1 DEF Ideal!Correcta
  <1> QED
    BY <1>1, <1>2, <1>3, <1>4 DEF Ideal!Ejecutar

\* A program that ends by an instruction.
LEMMA IdealTerminar ==
    ASSUME MaquinaInv, NEW ins, Fetch(ins), NEW regs, Devuelve(regs, "exit"),
           UNCHANGED <<pedido, diccionario_tablas, user_space>>, Desviados' = Desviados,
           ins.op = "EXIT" \/ ~Ideal!Correcta(PID, ins)
    PROVE  PID \in Procesos /\ Ideal!Terminar(PID, ins)
  <1>1. PICK p \in Procesos : p = PID /\ lugar[p] = "cpu"
    BY HayContexto DEF MaquinaInv
  <1>2. PICK g : g = [program_counter |-> contexto.program_counter + 1, registros |-> regs,
                      tablaSegmentos |-> contexto.tablaSegmentos]
    OBVIOUS
  <1>3. PCB' = [PCB EXCEPT ![p] = g] /\ lugar' = [lugar EXCEPT ![p] = "exit"]
    BY <1>1, <1>2 DEF Devuelve
  <1>4. \A q \in Procesos \ {p} : PCB'[q] = PCB[q]
    BY <1>3, TiposDeLaMaquina
  <1>5. /\ FaseVista' = [FaseVista EXCEPT ![p] = "termina"]
        /\ ContadorVisto' = [ContadorVisto EXCEPT ![p] = 0]
        /\ RegistrosVistos' = [RegistrosVistos EXCEPT ![p] = Ideal!EnCero]
        /\ FaseVista[p] = "corre"
    BY <1>1, <1>3, <1>4, VeElQueTermina
  <1>6. pedido' = [pedido EXCEPT ![p] = Ideal!NADA]
    <2>1. pedido[p] = SinPedido
      BY <1>1 DEF MaquinaInv, SinPedidos
    <2> QED
      BY <2>1, LaMismaNada, TiposDeLaMaquina
  <1>7. SegmentosVistos' = SegmentosVistos /\ CompartidoVisto' = CompartidoVisto
    BY NadieVeOtraMemoria
  <1> QED
    BY <1>1, <1>5, <1>6, <1>7 DEF Ideal!Terminar

LEMMA IdealExit ==
    ASSUME MaquinaInv, NEW ins \in Instrucciones, Exit(ins)
    PROVE  PID \in Procesos /\ Ideal!Terminar(PID, ins)
  <1>1. /\ Fetch(ins) /\ ins.op = "EXIT" /\ Devuelve(lista_registros, "exit")
        /\ UNCHANGED <<pedido, diccionario_tablas, user_space>>
    BY DEF Exit, memoria, parametros
  <1> QED
    BY <1>1, NadieMasSeDesvia, IdealTerminar DEF Ejecutar

\* The CPU ends a program for what the machine cannot do, and for nothing else.
LEMMA LoRechazadoNoEsCorrecto ==
    ASSUME MaquinaInv, NEW ins \in Instrucciones, Fetch(ins), Rechaza(ins)
    PROVE  ~Ideal!Correcta(PID, ins)
  <1>1. CASE ins.op = "SET"
    <2>1. ins.registro \in Registros => Len(ins.valor) > Ancho[ins.registro]
      BY <1>1 DEF Rechaza
    <2>2. Ideal!Correcta(PID, ins) =>
             ins.registro \in Registros /\ Len(ins.valor) <= Ancho[ins.registro]
      BY <1>1 DEF Ideal!Correcta, Registros
    <2>3. Len(ins.valor) \in Nat
      BY <1>1, InstruccionTipada, LenProperties
    <2>4. \A r \in Registros : Ancho[r] \in Nat
      BY Anchos
    <2> QED
      BY <2>1, <2>2, <2>3, <2>4
  <1>2. CASE ins.op \in {"MOV_IN", "MOV_OUT"}
    <2>1. ins.registro \in Registros => Traduce(ins, Bytes(ins)) = -1
      BY <1>2 DEF Rechaza
    <2>2. Ideal!Correcta(PID, ins) =>
             ins.registro \in Registros /\ Ideal!Alcanza(PID, ins.direccion, Ancho[ins.registro])
      BY <1>2 DEF Ideal!Correcta, Registros
    <2>3. ASSUME ins.registro \in Registros
          PROVE  ~Ideal!Alcanza(PID, ins.direccion, Ancho[ins.registro])
      <3>1. PICK r \in Registros : r = ins.registro
        BY <2>3
      <3>2. PICK n : n = Ancho[r]
        OBVIOUS
      <3>3. n \in Nat /\ Bytes(ins) = n
        BY <3>1, <3>2, RegistroDeLaCPU DEF Bytes
      <3>4. Traduce(ins, n) # -1 <=> Ideal!Alcanza(PID, ins.direccion, n)
        BY <1>2, <3>3, ElAccesoDe
      <3> QED
        BY <2>1, <2>3, <3>1, <3>2, <3>3, <3>4
    <2> QED
      BY <2>2, <2>3
  <1>3. CASE ins.op \in {"F_READ", "F_WRITE"}
    <2>1. Traduce(ins, ins.bytes) = -1
      BY <1>3 DEF Rechaza
    <2>2. ins.bytes \in Nat
      BY <1>3, InstruccionTipada
    <2>3. Traduce(ins, ins.bytes) # -1 <=> Ideal!Alcanza(PID, ins.direccion, ins.bytes)
      BY <1>3, <2>2, ElAccesoDe
    <2> QED
      BY <1>3, <2>1, <2>3 DEF Ideal!Correcta
  <1>4. CASE ins.op \notin {"SET", "MOV_IN", "MOV_OUT", "F_READ", "F_WRITE"}
    BY <1>4 DEF Rechaza, Ideal!Correcta
  <1> QED
    BY <1>1, <1>2, <1>3, <1>4

LEMMA IdealExitProcessError ==
    ASSUME MaquinaInv, NEW ins \in Instrucciones, ExitProcessError(ins)
    PROVE  PID \in Procesos /\ Ideal!Terminar(PID, ins)
  <1>1. PICK regs : regs = IF ins.op \in {"F_READ", "F_WRITE"} THEN lista_registros
                           ELSE contexto.registros
    OBVIOUS
  <1>2. Devuelve(regs, "exit")
    BY <1>1, Zenon DEF ExitProcessError
  <1>3. Fetch(ins) /\ Rechaza(ins) /\ UNCHANGED <<pedido, diccionario_tablas, user_space>>
    BY DEF ExitProcessError, parametros, memoria
  <1>4. ~Ideal!Correcta(PID, ins)
    BY <1>3, LoRechazadoNoEsCorrecto
  <1> QED
    BY <1>2, <1>3, <1>4, NadieMasSeDesvia, IdealTerminar DEF Ejecutar
-----------------------------------------------------------------------------
(* A step of the kernel, the memory or the file system *)

LEMMA IdealSinEspacio ==
    ASSUME MaquinaInv, NEW p \in Procesos, SinEspacio(p)
    PROVE  pedido[p] \in Instrucciones /\ Ideal!Terminar(p, pedido[p])
  <1>1. /\ lugar[p] = "kernel" /\ pedido[p].op = "CREATE_SEGMENT"
        /\ lugar' = [lugar EXCEPT ![p] = "exit"] /\ pedido' = [pedido EXCEPT ![p] = SinPedido]
        /\ PCB' = PCB /\ UNCHANGED <<diccionario_tablas, user_space>>
    BY DEF SinEspacio, Atendida, memoria
  <1>2. pedido[p] \in Instrucciones
    BY <1>1, TiposDeLaMaquina DEF SinPedido
  <1>3. /\ FaseVista' = [FaseVista EXCEPT ![p] = "termina"]
        /\ ContadorVisto' = [ContadorVisto EXCEPT ![p] = 0]
        /\ RegistrosVistos' = [RegistrosVistos EXCEPT ![p] = Ideal!EnCero]
        /\ FaseVista[p] = "espera"
    BY <1>1, VeElQueTermina
  <1>4. SegmentosVistos' = SegmentosVistos /\ CompartidoVisto' = CompartidoVisto
    BY <1>1, NadieVeOtraMemoria
  <1>5. Desviados' = Desviados
    BY AcuerdoDelKernel DEF MaquinaInv
  <1> QED
    BY <1>1, <1>2, <1>3, <1>4, <1>5, LaMismaNada DEF Ideal!Terminar

\* A table that is one segment longer, or one shorter.
LEMMA UnoMasVisto ==
    ASSUME NEW u \in [Direcciones -> Caracteres], NEW t \in Seq(Segmentos), Len(t) >= 1,
           NEW s \in Segmentos
    PROVE  SegmentosEn(u, Append(t, s))
             = Append(SegmentosEn(u, t), [ID |-> s.ID, bytes |-> BytesEn(u, s)])
  <1>1. PICK n, w, v, e : /\ n = Len(t) /\ w = Append(t, s) /\ v = SegmentosEn(u, t)
                          /\ e = [ID |-> s.ID, bytes |-> BytesEn(u, s)]
    OBVIOUS
  <1>2. n \in Nat /\ n >= 1
    BY <1>1, LenProperties
  <1>3. /\ w \in Seq(Segmentos) /\ Len(w) = n + 1 /\ w[n + 1] = s
        /\ \A i \in 1 .. n : w[i] = t[i]
    BY <1>1, AppendProperties
  <1>4. /\ v \in Seq(Visible) /\ Len(v) = n - 1
        /\ \A i \in 1 .. n - 1 : v[i] = [ID |-> t[i + 1].ID, bytes |-> BytesEn(u, t[i + 1])]
    BY <1>1, SegmentosSon
  <1>5. PICK x, y : x = SegmentosEn(u, w) /\ y = Append(v, e)
    OBVIOUS
  <1>6. e \in Visible
    <2>1. s.ID \in Nat /\ BytesEn(u, s) \in Seq(Caracteres)
      BY Numero, BytesSon
    <2> QED
      BY <1>1, <2>1 DEF Visible
  <1>7. /\ x \in Seq(Visible) /\ Len(x) = n
        /\ \A i \in 1 .. n : x[i] = [ID |-> w[i + 1].ID, bytes |-> BytesEn(u, w[i + 1])]
    <2>1. Len(w) >= 1
      BY <1>2, <1>3
    <2>2. /\ SegmentosEn(u, w) \in Seq(Visible) /\ Len(SegmentosEn(u, w)) = Len(w) - 1
          /\ \A i \in 1 .. Len(w) - 1 :
                SegmentosEn(u, w)[i] = [ID |-> w[i + 1].ID, bytes |-> BytesEn(u, w[i + 1])]
      BY <1>3, <2>1, SegmentosSon
    <2>3. Len(w) - 1 = n
      BY <1>2, <1>3
    <2> QED
      BY <1>5, <2>2, <2>3
  <1>8. /\ y \in Seq(Visible) /\ Len(y) = n /\ y[n] = e
        /\ \A i \in 1 .. n - 1 : y[i] = v[i]
    <2>1. /\ Append(v, e) \in Seq(Visible) /\ Len(Append(v, e)) = Len(v) + 1
          /\ \A i \in 1 .. Len(v) : Append(v, e)[i] = v[i]
          /\ Append(v, e)[Len(v) + 1] = e
      BY <1>4, <1>6, AppendProperties
    <2>2. Len(v) + 1 = n
      BY <1>2, <1>4
    <2> QED
      BY <1>4, <1>5, <2>1, <2>2
  <1>9. ASSUME NEW i \in 1 .. n PROVE x[i] = y[i]
    <2>1. CASE i = n
      BY <1>1, <1>3, <1>7, <1>8, <2>1
    <2>2. CASE i # n
      <3>1. i \in 1 .. n - 1 /\ i + 1 \in 1 .. n
        BY <1>2, <2>2
      <3> QED
        BY <1>3, <1>4, <1>7, <1>8, <3>1
    <2> QED
      BY <2>1, <2>2
  <1>10. x = y
    BY <1>7, <1>8, <1>9, SeqEqual
  <1> QED
    BY <1>1, <1>5, <1>10

LEMMA UnoMenosVisto ==
    ASSUME NEW u \in [Direcciones -> Caracteres], NEW t \in Seq(Segmentos), NEW k \in 2 .. Len(t)
    PROVE  SegmentosEn(u, RemoveAt(t, k)) = RemoveAt(SegmentosEn(u, t), k - 1)
  <1>1. PICK n, w, v : n = Len(t) /\ w = RemoveAt(t, k) /\ v = SegmentosEn(u, t)
    OBVIOUS
  <1>2. n \in Nat /\ n >= 2 /\ k \in Nat /\ k >= 2 /\ k <= n
    BY <1>1, LenProperties
  <1>3. /\ w \in Seq(Segmentos) /\ Len(w) = n - 1
        /\ \A i \in 1 .. k - 1 : w[i] = t[i]
        /\ \A i \in k .. n - 1 : w[i] = t[i + 1]
    <2>1. k \in 1 .. Len(t)
      BY <1>1, <1>2
    <2> QED
      BY <1>1, <2>1, QuitarUno
  <1>4. /\ v \in Seq(Visible) /\ Len(v) = n - 1
        /\ \A i \in 1 .. n - 1 : v[i] = [ID |-> t[i + 1].ID, bytes |-> BytesEn(u, t[i + 1])]
    <2>1. Len(t) >= 1
      BY <1>1, <1>2
    <2> QED
      BY <1>1, <2>1, SegmentosSon
  <1>5. PICK x, j : x = SegmentosEn(u, w) /\ j = k - 1
    OBVIOUS
  <1>6. PICK y : y = RemoveAt(v, j)
    OBVIOUS
  <1>7. /\ x \in Seq(Visible) /\ Len(x) = n - 2
        /\ \A i \in 1 .. n - 2 : x[i] = [ID |-> w[i + 1].ID, bytes |-> BytesEn(u, w[i + 1])]
    <2>1. Len(w) >= 1
      BY <1>2, <1>3
    <2>2. /\ SegmentosEn(u, w) \in Seq(Visible) /\ Len(SegmentosEn(u, w)) = Len(w) - 1
          /\ \A i \in 1 .. Len(w) - 1 :
                SegmentosEn(u, w)[i] = [ID |-> w[i + 1].ID, bytes |-> BytesEn(u, w[i + 1])]
      BY <1>3, <2>1, SegmentosSon
    <2>3. Len(w) - 1 = n - 2
      BY <1>2, <1>3
    <2> QED
      BY <1>5, <2>2, <2>3
  <1>8. /\ y \in Seq(Visible) /\ Len(y) = n - 2
        /\ \A i \in 1 .. j - 1 : y[i] = v[i]
        /\ \A i \in j .. n - 2 : y[i] = v[i + 1]
    <2>1. v \in Seq(Visible) /\ j \in 1 .. Len(v)
      BY <1>2, <1>4, <1>5
    <2>2. /\ RemoveAt(v, j) \in Seq(Visible) /\ Len(RemoveAt(v, j)) = Len(v) - 1
          /\ \A i \in 1 .. j - 1 : RemoveAt(v, j)[i] = v[i]
          /\ \A i \in j .. Len(v) - 1 : RemoveAt(v, j)[i] = v[i + 1]
      BY <2>1, QuitarUno
    <2>3. Len(v) - 1 = n - 2
      BY <1>2, <1>4
    <2> QED
      BY <1>6, <2>2, <2>3
  <1>9. ASSUME NEW i \in 1 .. n - 2 PROVE x[i] = y[i]
    <2>1. CASE i < j
      <3>1. i \in 1 .. j - 1 /\ i + 1 \in 1 .. k - 1 /\ i \in 1 .. n - 1
        BY <1>2, <1>5, <2>1
      <3>2. x[i] = [ID |-> w[i + 1].ID, bytes |-> BytesEn(u, w[i + 1])] /\ w[i + 1] = t[i + 1]
        BY <1>3, <1>7, <3>1
      <3>3. y[i] = v[i] /\ v[i] = [ID |-> t[i + 1].ID, bytes |-> BytesEn(u, t[i + 1])]
        BY <1>4, <1>8, <3>1
      <3> QED
        BY <3>2, <3>3
    <2>2. CASE ~(i < j)
      <3>1. i \in j .. n - 2 /\ i + 1 \in k .. n - 1 /\ i + 1 \in 1 .. n - 1
        BY <1>2, <1>5, <2>2
      <3>2. PICK h : h = i + 1
        OBVIOUS
      <3>3. x[i] = [ID |-> w[h].ID, bytes |-> BytesEn(u, w[h])] /\ w[h] = t[h + 1]
        BY <1>3, <1>7, <3>1, <3>2
      <3>4. y[i] = v[h] /\ v[h] = [ID |-> t[h + 1].ID, bytes |-> BytesEn(u, t[h + 1])]
        BY <1>4, <1>8, <3>1, <3>2
      <3> QED
        BY <3>3, <3>4
    <2> QED
      BY <2>1, <2>2
  <1>10. x = y
    BY <1>2, <1>7, <1>8, <1>9, SeqEqual
  <1> QED
    BY <1>1, <1>5, <1>6, <1>10

\* What is seen of the memory when the table of one process changes.
LEMMA OtraTablaVista ==
    ASSUME MaquinaInv, NEW p \in Procesos, NEW t,
           diccionario_tablas' = [diccionario_tablas EXCEPT ![p] = t], user_space' = user_space
    PROVE  /\ CompartidoVisto' = CompartidoVisto
           /\ SegmentosVistos' = [SegmentosVistos EXCEPT ![p] = SegmentosEn(user_space, t)]
  <1>1. /\ diccionario_tablas'[p] = t
        /\ \A q \in Procesos \ {p} : diccionario_tablas'[q] = diccionario_tablas[q]
    BY TiposDeLaMaquina
  <1>2. PICK u : u = user_space /\ u = user_space'
    OBVIOUS
  <1>3. CompartidoVisto' = CompartidoVisto
    BY <1>2, SegmentosQueVe
  <1>4. \A q \in Procesos : /\ SegmentosVistos[q] = SegmentosEn(u, diccionario_tablas[q])
                            /\ SegmentosVistos'[q] = SegmentosEn(u, diccionario_tablas'[q])
    BY <1>2, SegmentosQueVe
  <1>5. SegmentosVistos'[p] = SegmentosEn(u, t)
    BY <1>1, <1>4
  <1>6. \A q \in Procesos \ {p} : SegmentosVistos'[q] = SegmentosVistos[q]
    BY <1>1, <1>4
  <1>7. SegmentosVistos' = [SegmentosVistos EXCEPT ![p] = SegmentosVistos'[p]]
    BY <1>6, SonFunciones, SiguenSiendoFunciones, CambiaUno
  <1> QED
    BY <1>2, <1>3, <1>5, <1>7

\* The part of an answer that CREATE_SEGMENT and DELETE_SEGMENT have in common.
LEMMA IdealResponde ==
    ASSUME MaquinaInv, NEW p \in Procesos, lugar[p] = "kernel", NEW t, Responde(p, t),
           UNCHANGED <<cpu, user_space>>
    PROVE  /\ FaseVista[p] = "espera" /\ FaseVista' = [FaseVista EXCEPT ![p] = "corre"]
           /\ ContadorVisto' = ContadorVisto /\ RegistrosVistos' = RegistrosVistos
           /\ pedido' = [pedido EXCEPT ![p] = Ideal!NADA]
           /\ CompartidoVisto' = CompartidoVisto
           /\ SegmentosVistos' = [SegmentosVistos EXCEPT ![p] = SegmentosEn(user_space, t)]
  <1>1. /\ diccionario_tablas' = [diccionario_tablas EXCEPT ![p] = t]
        /\ PCB' = [PCB EXCEPT ![p].tablaSegmentos = t]
        /\ lugar' = [lugar EXCEPT ![p] = "ready"]
        /\ pedido' = [pedido EXCEPT ![p] = SinPedido]
    BY DEF Responde
  <1>2. \A q \in Procesos : /\ PCB'[q].program_counter = PCB[q].program_counter
                            /\ PCB'[q].registros = PCB[q].registros
    BY <1>1, TiposDeLaMaquina DEF Guardado
  <1>3. /\ FaseVista[p] = "espera" /\ FaseVista' = [FaseVista EXCEPT ![p] = "corre"]
        /\ ContadorVisto' = ContadorVisto /\ RegistrosVistos' = RegistrosVistos
    BY <1>1, <1>2, VeElQueVuelve
  <1>4. /\ CompartidoVisto' = CompartidoVisto
        /\ SegmentosVistos' = [SegmentosVistos EXCEPT ![p] = SegmentosEn(user_space, t)]
    BY <1>1, OtraTablaVista
  <1> QED
    BY <1>1, <1>3, <1>4, LaMismaNada

LEMMA IdealCrearSegmento ==
    ASSUME MaquinaInv, NEW p \in Procesos, CrearSegmento(p)
    PROVE  Ideal!Contestar(p)
  <1>1. PICK o, t : o = pedido[p] /\ t = diccionario_tablas[p]
    OBVIOUS
  <1>2. lugar[p] = "kernel" /\ o.op = "CREATE_SEGMENT" /\ UNCHANGED <<cpu, user_space>>
    BY <1>1 DEF CrearSegmento, Atendida
  <1>3. o.segmento \in Nat /\ o.bytes \in Nat
    BY <1>1, <1>2, InstruccionTipada, TiposDeLaMaquina DEF SinPedido
  <1>4. PICK b \in Direcciones :
            /\ HuecoUtil(b, o.bytes)
            /\ Responde(p, Append(t, [ID |-> o.segmento, base |-> b, limite |-> o.bytes]))
    BY <1>1 DEF CrearSegmento
  <1>5. PICK s : s = [ID |-> o.segmento, base |-> b, limite |-> o.bytes]
    OBVIOUS
  <1>6. s \in Segmentos /\ s.ID = o.segmento /\ s.limite = o.bytes
    BY <1>3, <1>4, <1>5, Tamanios DEF Segmentos, Numeros, Direcciones, HuecoUtil
  <1>7. PICK w, u : w = Append(t, s) /\ u = user_space
    OBVIOUS
  <1>8. Responde(p, w)
    BY <1>4, <1>5, <1>7
  <1>9. /\ FaseVista[p] = "espera" /\ FaseVista' = [FaseVista EXCEPT ![p] = "corre"]
        /\ ContadorVisto' = ContadorVisto /\ RegistrosVistos' = RegistrosVistos
        /\ pedido' = [pedido EXCEPT ![p] = Ideal!NADA]
        /\ CompartidoVisto' = CompartidoVisto
        /\ SegmentosVistos' = [SegmentosVistos EXCEPT ![p] = SegmentosEn(user_space, w)]
    BY <1>2, <1>8, IdealResponde
  <1>10. u \in [Direcciones -> Caracteres] /\ t \in Seq(Segmentos) /\ Len(t) >= 1
    BY <1>1, <1>7, TablaDe, TiposDeLaMaquina
  <1>11. PICK c : c = BytesEn(u, s)
    OBVIOUS
  <1>12. c \in [1 .. o.bytes -> Caracteres]
    <2>1. BytesEn(u, s) \in [1 .. s.limite -> Caracteres]
      BY <1>6, <1>10, BytesSon
    <2> QED
      BY <1>6, <1>11, <2>1
  <1>13. SegmentosEn(u, Append(t, s))
           = Append(SegmentosEn(u, t), [ID |-> s.ID, bytes |-> BytesEn(u, s)])
    BY <1>6, <1>10, UnoMasVisto
  <1>14. SegmentosVistos[p] = SegmentosEn(u, t)
    BY <1>1, <1>7, SegmentosQueVe
  <1>15. SegmentosEn(user_space, w) = Append(SegmentosVistos[p], [ID |-> o.segmento, bytes |-> c])
    BY <1>6, <1>7, <1>11, <1>13, <1>14
  <1>16. SegmentosVistos' = [SegmentosVistos EXCEPT
                               ![p] = Append(@, [ID |-> o.segmento, bytes |-> c])]
    BY <1>9, <1>15
  <1>17. Desviados' = Desviados \ {p}
    BY <1>2, AcuerdoDelKernel DEF MaquinaInv, Desviados
  <1> QED
    BY <1>1, <1>2, <1>9, <1>12, <1>16, <1>17 DEF Ideal!Contestar

LEMMA IdealBorrarSegmento ==
    ASSUME NadieBorraElCompartido, MaquinaInv, NEW p \in Procesos, BorrarSegmento(p)
    PROVE  Ideal!Contestar(p)
  <1>1. PICK o, t, u : o = pedido[p] /\ t = diccionario_tablas[p] /\ u = user_space
    OBVIOUS
  <1>2. PICK k, id : id = o.segmento /\ k = Segmento(t, o.segmento)
    OBVIOUS
  <1>3. PICK w : w = RemoveAt(t, k)
    OBVIOUS
  <1>4. /\ lugar[p] = "kernel" /\ o.op = "DELETE_SEGMENT" /\ UNCHANGED <<cpu, user_space>>
        /\ Responde(p, w)
    BY <1>1, <1>2, <1>3 DEF BorrarSegmento, Atendida
  <1>5. id # 0
    BY <1>1, <1>2, <1>4, TiposDeLaMaquina DEF NadieBorraElCompartido, SinPedido
  <1>6. /\ FaseVista[p] = "espera" /\ FaseVista' = [FaseVista EXCEPT ![p] = "corre"]
        /\ ContadorVisto' = ContadorVisto /\ RegistrosVistos' = RegistrosVistos
        /\ pedido' = [pedido EXCEPT ![p] = Ideal!NADA]
        /\ CompartidoVisto' = CompartidoVisto
        /\ SegmentosVistos' = [SegmentosVistos EXCEPT ![p] = SegmentosEn(user_space, w)]
    BY <1>4, IdealResponde
  <1>7. u \in [Direcciones -> Caracteres] /\ t \in Seq(Segmentos) /\ Len(t) >= 1 /\ Len(t) \in Nat
    BY <1>1, TablaDe, TiposDeLaMaquina
  <1>8. /\ Segmento(t, id) \in 0 .. Len(t) /\ Segmento(t, id) # 1
        /\ Ideal!Indice(p, id) = IF Segmento(t, id) = 0 THEN 0 ELSE Segmento(t, id) - 1
    <2>1. Segmento(t, id) \in 0 .. Len(t) /\ Segmento(t, id) # 1
      BY <1>1, <1>5, SinRequerirEl0
    <2> QED
      BY <1>1, <1>5, <2>1, IndiceEs
  <1>9. PICK v, j : v = SegmentosVistos[p] /\ j = Ideal!Indice(p, id)
    OBVIOUS
  <1>10. v = SegmentosEn(u, t) /\ v \in Seq(Visible)
    BY <1>1, <1>9, SegmentosQueVe, LoQueVe
  <1>11. SegmentosEn(u, w) = RemoveAt(v, j)
    <2>1. CASE k = 0
      <3>1. w = t /\ j = 0
        BY <1>2, <1>3, <1>7, <1>8, <1>9, <2>1, QuitarNinguno
      <3>2. RemoveAt(v, 0) = v
        BY <1>10, QuitarNinguno
      <3> QED
        BY <1>10, <3>1, <3>2
    <2>2. CASE k # 0
      <3>1. k \in 2 .. Len(t) /\ j = k - 1
        BY <1>2, <1>7, <1>8, <1>9, <2>2
      <3>2. SegmentosEn(u, RemoveAt(t, k)) = RemoveAt(SegmentosEn(u, t), k - 1)
        BY <1>7, <3>1, UnoMenosVisto
      <3> QED
        BY <1>3, <1>10, <3>1, <3>2
    <2> QED
      BY <2>1, <2>2
  <1>12. Ideal!RemoveAt(v, j) = RemoveAt(v, j)
    BY DEF Ideal!RemoveAt, RemoveAt
  <1>13. SegmentosVistos' = [SegmentosVistos EXCEPT
                               ![p] = Ideal!RemoveAt(@, Ideal!Indice(p, o.segmento))]
    BY <1>1, <1>2, <1>6, <1>9, <1>11, <1>12
  <1>14. Desviados' = Desviados \ {p}
    BY <1>4, AcuerdoDelKernel DEF MaquinaInv, Desviados
  <1> QED
    BY <1>1, <1>4, <1>6, <1>13, <1>14 DEF Ideal!Contestar

\* A transfer to wrong addresses moves no segment and changes the size of none.
LEMMA LaMismaForma ==
    ASSUME MaquinaInv, user_space' \in [Direcciones -> Caracteres],
           diccionario_tablas' = diccionario_tablas
    PROVE  Ideal!MismaForma
  <1>1. PICK u, w : u = user_space /\ w = user_space'
    OBVIOUS
  <1>2. u \in [Direcciones -> Caracteres] /\ w \in [Direcciones -> Caracteres]
    BY <1>1, TiposDeLaMaquina
  <1>3. Len(CompartidoVisto') = Len(CompartidoVisto)
    <2>1. Len(BytesEn(u, Segmento0)) = Segmento0.limite
      BY <1>2, Segmento0EsSegmento, BytesSon
    <2>2. Len(BytesEn(w, Segmento0)) = Segmento0.limite
      BY <1>2, Segmento0EsSegmento, BytesSon
    <2> QED
      BY <1>1, <2>1, <2>2, SegmentosQueVe
  <1>4. ASSUME NEW q \in Procesos
        PROVE  /\ Len(SegmentosVistos'[q]) = Len(SegmentosVistos[q])
               /\ \A i \in DOMAIN SegmentosVistos[q] :
                     /\ SegmentosVistos'[q][i].ID = SegmentosVistos[q][i].ID
                     /\ Len(SegmentosVistos'[q][i].bytes) = Len(SegmentosVistos[q][i].bytes)
    <2>1. PICK t, v, x : t = diccionario_tablas[q] /\ v = SegmentosEn(u, t) /\ x = SegmentosEn(w, t)
      OBVIOUS
    <2>2. SegmentosVistos[q] = v /\ SegmentosVistos'[q] = x
      BY <1>1, <2>1, SegmentosQueVe
    <2>3. t \in Seq(Segmentos) /\ Len(t) >= 1
      BY <2>1, TablaDe
    <2>4. /\ Len(v) = Len(t) - 1 /\ DOMAIN v = 1 .. Len(t) - 1
          /\ \A i \in 1 .. Len(t) - 1 :
                /\ v[i] = [ID |-> t[i + 1].ID, bytes |-> BytesEn(u, t[i + 1])]
                /\ t[i + 1] \in Segmentos
      BY <1>2, <2>1, <2>3, SegmentosSon
    <2>5. /\ Len(x) = Len(t) - 1
          /\ \A i \in 1 .. Len(t) - 1 :
                x[i] = [ID |-> t[i + 1].ID, bytes |-> BytesEn(w, t[i + 1])]
      BY <1>2, <2>1, <2>3, SegmentosSon
    <2>6. ASSUME NEW i \in DOMAIN v
          PROVE  x[i].ID = v[i].ID /\ Len(x[i].bytes) = Len(v[i].bytes)
      <3>1. PICK r \in Segmentos : r = t[i + 1]
        BY <2>4
      <3>2. Len(BytesEn(u, r)) = r.limite
        BY <1>2, BytesSon
      <3>3. Len(BytesEn(w, r)) = r.limite
        BY <1>2, BytesSon
      <3>4. /\ v[i] = [ID |-> r.ID, bytes |-> BytesEn(u, r)]
            /\ x[i] = [ID |-> r.ID, bytes |-> BytesEn(w, r)]
        BY <2>4, <2>5, <3>1
      <3> QED
        BY <3>2, <3>3, <3>4
    <2> QED
      BY <2>2, <2>4, <2>5, <2>6
  <1> QED
    BY <1>3, <1>4 DEF Ideal!MismaForma

LEMMA IdealAtenderFS ==
    ASSUME MaquinaInv, NEW p \in Procesos, AtenderFS(p)
    PROVE  Ideal!Contestar(p)
  <1>1. PICK o : o = pedido[p]
    OBVIOUS
  <1>2. /\ lugar[p] = "fs" /\ lugar' = [lugar EXCEPT ![p] = "ready"]
        /\ pedido' = [pedido EXCEPT ![p] = SinPedido]
        /\ UNCHANGED <<PCB, cpu, diccionario_tablas>>
        /\ o.op = "F_READ" \/ (o.op = "F_WRITE" /\ UNCHANGED user_space)
    <2>1. /\ lugar[p] = "fs" /\ lugar' = [lugar EXCEPT ![p] = "ready"]
          /\ pedido' = [pedido EXCEPT ![p] = SinPedido]
          /\ UNCHANGED <<PCB, cpu, diccionario_tablas>>
      BY DEF AtenderFS
    <2>2. pedido[p].op = "F_READ" \/ (pedido[p].op = "F_WRITE" /\ UNCHANGED user_space)
      BY Zenon DEF AtenderFS
    <2> QED
      BY <1>1, <2>1, <2>2
  <1>3. /\ FaseVista[p] = "espera" /\ FaseVista' = [FaseVista EXCEPT ![p] = "corre"]
        /\ ContadorVisto' = ContadorVisto /\ RegistrosVistos' = RegistrosVistos
    BY <1>2, VeElQueVuelve
  <1>4. pedido' = [pedido EXCEPT ![p] = Ideal!NADA]
    BY <1>2, LaMismaNada
  <1>5. Desviados' = Desviados \ {p}
    BY AcuerdoAtenderFS DEF MaquinaInv
  <1>6. CASE o.op = "F_READ" /\ p \in Desviados
    <2>1. user_space' \in [Direcciones -> Caracteres]
      BY PasoAtenderFS DEF MaquinaInv, CPUInv, Tipado
    <2>2. Ideal!MismaForma
      BY <1>2, <2>1, LaMismaForma
    <2> QED
      BY <1>1, <1>3, <1>4, <1>5, <1>6, <2>2 DEF Ideal!Contestar
  <1>7. CASE o.op = "F_READ" /\ p \notin Desviados
    <2>1. PICK c \in Caracteres :
              user_space' = [d \in Direcciones |->
                               IF d \in fisica[p] .. fisica[p] + o.bytes - 1 THEN c
                               ELSE user_space[d]]
      BY <1>1, <1>7 DEF AtenderFS
    <2>2. PICK n, a, dir : n = o.bytes /\ a = fisica[p] /\ dir = o.direccion
      OBVIOUS
    <2>3. n \in Nat /\ dir \in Nat
      <3>1. o \in Instrucciones
        BY <1>1, <1>7, TiposDeLaMaquina DEF SinPedido
      <3> QED
        BY <1>7, <2>2, <3>1, InstruccionTipada
    <2>4. a = MMU(diccionario_tablas[p], dir, n) /\ a \in Nat
      BY <1>1, <1>2, <1>7, <2>2, Tamanios
         DEF MaquinaInv, CPUInv, Tipado, Numeros, Desviados
    <2>5. PICK valor : valor = [i \in 1 .. n |-> c]
      OBVIOUS
    <2>6. valor \in Textos(n)
      BY <2>5 DEF Textos
    <2>7. user_space' = Puesto(user_space, a, valor, n)
      <3>1. \A d \in Direcciones : d \in a .. a + n - 1 => valor[d - a + 1] = c
        BY <2>3, <2>4, <2>5 DEF Direcciones
      <3>2. \A d \in Direcciones :
                (IF d \in a .. a + n - 1 THEN c ELSE user_space[d])
                  = (IF d \in a .. a + n - 1 THEN valor[d - a + 1] ELSE user_space[d])
        BY <3>1
      <3> QED
        BY <2>1, <2>2, <3>2, Zenon DEF Puesto
    <2>8. a # -1
      BY <2>4
    <2>9. Ideal!Escribe(p, dir, valor)
      BY <1>2, <2>3, <2>4, <2>6, <2>7, <2>8, LaEscritura
    <2>10. \E v \in [1 .. o.bytes -> Caracteres] : Ideal!Escribe(p, o.direccion, v)
      BY <2>2, <2>6, <2>9 DEF Textos
    <2> QED
      BY <1>1, <1>3, <1>4, <1>5, <1>7, <2>10 DEF Ideal!Contestar
  <1>8. CASE o.op = "F_WRITE"
    <2>1. SegmentosVistos' = SegmentosVistos /\ CompartidoVisto' = CompartidoVisto
      BY <1>2, <1>8, NadieVeOtraMemoria
    <2> QED
      BY <1>1, <1>3, <1>4, <1>5, <1>8, <2>1 DEF Ideal!Contestar
  <1> QED
    BY <1>2, <1>6, <1>7, <1>8

\* What is seen of a table with segment 0 only.
LEMMA NadaVisto ==
    ASSUME NEW u PROVE SegmentosEn(u, <<Segmento0>>) = <<>>
  <1>1. PICK t : t = <<Segmento0>>
    OBVIOUS
  <1>2. 1 .. Len(t) - 1 = {}
    BY <1>1
  <1> QED
    BY <1>1, <1>2 DEF SegmentosEn

LEMMA IdealRetirar ==
    ASSUME MaquinaInv, NEW p \in Procesos, Retirar(p)
    PROVE  Ideal!Retirar(p)
  <1>1. /\ lugar[p] = "exit" /\ lugar' = [lugar EXCEPT ![p] = "fin"]
        /\ diccionario_tablas' = [diccionario_tablas EXCEPT ![p] = <<Segmento0>>]
        /\ PCB' = [PCB EXCEPT ![p] = PCBNuevo]
        /\ UNCHANGED <<pedido, cpu, user_space>>
    BY DEF Retirar, parametros
  <1>2. /\ lugar'[p] = "fin" /\ "fin" \in Lugares
        /\ \A q \in Procesos : lugar[q] \in Lugares
        /\ \A q \in Procesos \ {p} : lugar'[q] = lugar[q] /\ PCB'[q] = PCB[q]
    BY <1>1, TiposDeLaMaquina DEF Lugares
  <1>3. ASSUME NEW q \in Procesos \ {p}
        PROVE  /\ FaseVista'[q] = FaseVista[q] /\ ContadorVisto'[q] = ContadorVisto[q]
               /\ RegistrosVistos'[q] = RegistrosVistos[q]
    BY <1>1, <1>2, VistaAjena
  <1>4. FaseVista[p] = "termina" /\ ContadorVisto[p] = 0 /\ RegistrosVistos[p] = Ceros
    <2>1. FaseVista[p] = FaseDelLugar("exit")
      BY <1>1, <1>2, Vista
    <2> QED
      BY <1>1, <1>2, <2>1, Vista DEF FaseDelLugar
  <1>5. FaseVista'[p] = "fin" /\ ContadorVisto'[p] = 0 /\ RegistrosVistos'[p] = Ceros
    <2>1. FaseVista'[p] = FaseDelLugar("fin")
      BY <1>2, VistaLuego
    <2> QED
      BY <1>2, <2>1, VistaLuego DEF FaseDelLugar
  <1>6. FaseVista' = [FaseVista EXCEPT ![p] = FaseVista'[p]]
    BY <1>3, SonFunciones, SiguenSiendoFunciones, CambiaUno
  <1>7. ContadorVisto' = ContadorVisto
    BY <1>3, <1>4, <1>5, SonFunciones, SiguenSiendoFunciones, CambiaNinguno
  <1>8. RegistrosVistos' = RegistrosVistos
    BY <1>3, <1>4, <1>5, SonFunciones, SiguenSiendoFunciones, CambiaNinguno
  <1>9. /\ CompartidoVisto' = CompartidoVisto
        /\ SegmentosVistos' = [SegmentosVistos EXCEPT ![p] = <<>>]
    <2>1. PICK t : t = <<Segmento0>>
      OBVIOUS
    <2>2. /\ CompartidoVisto' = CompartidoVisto
          /\ SegmentosVistos' = [SegmentosVistos EXCEPT ![p] = SegmentosEn(user_space, t)]
      BY <1>1, <2>1, OtraTablaVista
    <2> QED
      BY <2>1, <2>2, NadaVisto
  <1>10. Desviados' = Desviados
    BY AcuerdoDelKernel DEF MaquinaInv
  <1> QED
    BY <1>1, <1>4, <1>5, <1>6, <1>7, <1>8, <1>9, <1>10 DEF Ideal!Retirar

-----------------------------------------------------------------------------
(* The steps that no program sees, and what it sees of a compaction *)

\* Nobody sees a step of the CPU and the kernel that leaves the memory as it is.
LEMMA NadaCambia ==
    ASSUME UNCHANGED pedido, Desviados' = Desviados,
           SegmentosVistos' = SegmentosVistos, CompartidoVisto' = CompartidoVisto,
           \A q \in Procesos : /\ FaseVista'[q] = FaseVista[q]
                               /\ ContadorVisto'[q] = ContadorVisto[q]
                               /\ RegistrosVistos'[q] = RegistrosVistos[q]
    PROVE  UNCHANGED Ideal!vars
  <1>1. FaseVista' = FaseVista
    BY SonFunciones, SiguenSiendoFunciones, CambiaNinguno
  <1>2. ContadorVisto' = ContadorVisto
    BY SonFunciones, SiguenSiendoFunciones, CambiaNinguno
  <1>3. RegistrosVistos' = RegistrosVistos
    BY SonFunciones, SiguenSiendoFunciones, CambiaNinguno
  <1> QED
    BY <1>1, <1>2, <1>3 DEF Ideal!vars

LEMMA IdealQuieto ==
    ASSUME MaquinaInv, UNCHANGED <<lugar, pedido, cpu>>, Desviados' = Desviados,
           SegmentosVistos' = SegmentosVistos, CompartidoVisto' = CompartidoVisto,
           \A q \in Procesos : /\ PCB'[q].program_counter = PCB[q].program_counter
                               /\ PCB'[q].registros = PCB[q].registros
    PROVE  UNCHANGED Ideal!vars
  <1>1. ASSUME NEW q \in Procesos
        PROVE  /\ FaseVista'[q] = FaseVista[q] /\ ContadorVisto'[q] = ContadorVisto[q]
               /\ RegistrosVistos'[q] = RegistrosVistos[q]
    <2>1. lugar[q] \in Lugares /\ lugar'[q] = lugar[q]
      BY TiposDeLaMaquina
    <2> QED
      BY <2>1, VistaAjena
  <1> QED
    BY <1>1, NadaCambia

LEMMA IdealMovInDesconocido ==
    ASSUME MaquinaInv, NEW ins \in Instrucciones, MovInDesconocido(ins)
    PROVE  UNCHANGED Ideal!vars
  <1>1. /\ UNCHANGED <<lugar, pedido, cpu>> /\ PCB' = PCB
        /\ UNCHANGED <<diccionario_tablas, user_space>>
    BY DEF MovInDesconocido, memoria, parametros
  <1>2. SegmentosVistos' = SegmentosVistos /\ CompartidoVisto' = CompartidoVisto
    BY <1>1, NadieVeOtraMemoria
  <1> QED
    BY <1>1, <1>2, NadieMasSeDesvia, IdealQuieto DEF Ejecutar

LEMMA IdealIgual ==
    ASSUME MaquinaInv, UNCHANGED programas
    PROVE  UNCHANGED Ideal!vars
  <1>1. /\ UNCHANGED <<lugar, pedido, cpu>> /\ PCB' = PCB
        /\ UNCHANGED <<diccionario_tablas, user_space>>
    BY DEF programas, memoria, parametros
  <1>2. SegmentosVistos' = SegmentosVistos /\ CompartidoVisto' = CompartidoVisto
    BY <1>1, NadieVeOtraMemoria
  <1> QED
    BY <1>1, <1>2, MismosProgramas, IdealQuieto

\* The registers that the CPU loads are those that the kernel kept, whatever it held before.
LEMMA IdealDespachar ==
    ASSUME MaquinaInv, NEW p \in Procesos, Despachar(p)
    PROVE  UNCHANGED Ideal!vars
  <1>1. /\ Libre /\ lugar[p] = "ready" /\ lugar' = [lugar EXCEPT ![p] = "cpu"]
        /\ contexto' = Recibido(p) /\ lista_registros' = CargarRegistros(PCB[p].registros)
        /\ PCB' = PCB /\ UNCHANGED <<pedido, diccionario_tablas, user_space>>
    BY DEF Despachar, memoria, parametros
  <1>2. /\ lugar'[p] = "cpu" /\ "cpu" \in Lugares
        /\ \A q \in Procesos : lugar[q] \in Lugares /\ lugar[q] # "cpu"
        /\ \A q \in Procesos \ {p} : lugar'[q] = lugar[q]
    BY <1>1, TiposDeLaMaquina DEF Lugares, Libre
  <1>3. contexto'.program_counter = PCB[p].program_counter
    BY <1>1 DEF Recibido
  <1>4. lista_registros' = Cargados(PCB[p].registros)
    <2>1. lista_registros' = [r \in Registros |-> Cargar(lista_registros[r], PCB[p].registros[r])]
      BY <1>1 DEF CargarRegistros
    <2>2. PICK g : g = PCB[p].registros
      OBVIOUS
    <2>3. g \in DelPCB /\ lista_registros \in DeLaCPU
      BY <2>2, TiposDeLaMaquina
    <2>4. [r \in Registros |-> Cargar(lista_registros[r], g[r])] = Cargados(g)
      BY <2>3, LoCargadoEsLoGuardado
    <2> QED
      BY <2>1, <2>2, <2>4
  <1>5. ASSUME NEW q \in Procesos \ {p}
        PROVE  /\ FaseVista'[q] = FaseVista[q] /\ ContadorVisto'[q] = ContadorVisto[q]
               /\ RegistrosVistos'[q] = RegistrosVistos[q]
    BY <1>1, <1>2, VistaAjena
  <1>6. FaseVista'[p] = FaseVista[p]
    <2>1. FaseVista[p] = FaseDelLugar("ready")
      BY <1>1, <1>2, Vista
    <2>2. FaseVista'[p] = FaseDelLugar("cpu")
      BY <1>2, VistaLuego
    <2> QED
      BY <2>1, <2>2 DEF FaseDelLugar
  <1>7. ContadorVisto'[p] = ContadorVisto[p]
    <2>1. ContadorVisto[p] = PCB[p].program_counter
      BY <1>1, <1>2, Vista
    <2>2. ContadorVisto'[p] = contexto'.program_counter
      BY <1>2, VistaLuego
    <2> QED
      BY <1>3, <2>1, <2>2
  <1>8. RegistrosVistos'[p] = RegistrosVistos[p]
    <2>1. RegistrosVistos[p] = Cargados(PCB[p].registros)
      BY <1>1, <1>2, Vista
    <2>2. RegistrosVistos'[p] = [r \in Registros |-> lista_registros'[r]]
      BY <1>2, VistaLuego
    <2>3. PICK f : f = Cargados(PCB[p].registros)
      OBVIOUS
    <2>4. [r \in Registros |-> f[r]] = f
      BY <2>3 DEF Cargados
    <2> QED
      BY <1>4, <2>1, <2>2, <2>3, <2>4
  <1>9. SegmentosVistos' = SegmentosVistos /\ CompartidoVisto' = CompartidoVisto
    BY <1>1, NadieVeOtraMemoria
  <1>10. Desviados' = Desviados
    BY AcuerdoDelKernel DEF MaquinaInv
  <1> QED
    BY <1>1, <1>5, <1>6, <1>7, <1>8, <1>9, <1>10, NadaCambia

\* Of a segment that a compaction moves, what its old place did not cover.
LEMMA LosBytesSeMueven ==
    ASSUME MaquinaInv, Compactar, NEW s, Asignado(s)
    PROVE  \A i \in 1 .. s.limite :
              user_space'[BaseCompacta(s) + i - 1]
                = IF BaseCompacta(s) = s.base \/ i <= s.base - BaseCompacta(s)
                  THEN user_space[s.base + i - 1] ELSE " "
  <1> DEFINE segs == UNION {Range(diccionario_tablas[q]) : q \in Procesos}
  <1>1. user_space' =
             [d \in Direcciones |->
                IF \E x \in segs : d \in Destino(x)
                THEN ByteCompactado(CHOOSE x \in segs : d \in Destino(x), d)
                ELSE IF d \in Ocupadas THEN " " ELSE user_space[d]]
    BY DEF Compactar
  <1>2. \A x : x \in segs <=> Asignado(x)
    BY DEF Asignado
  <1> HIDE DEF segs
  <1>3. PICK b, l, m : b = s.base /\ l = s.limite /\ m = BaseCompacta(s)
    OBVIOUS
  <1>4. /\ b \in Nat /\ l \in Nat /\ m \in Nat /\ m <= b /\ m + l <= TAM_MEMORIA
        /\ Rango(Movido(s)) = m .. m + l - 1
    <2>1. s \in Segmentos
      BY AsignadoEnTabla DEF MaquinaInv
    <2>2. b \in Nat /\ l \in Nat
      BY <1>3, <2>1, Numero
    <2> QED
      BY <1>3, <2>2, MovidoEs DEF MaquinaInv
  <1>5. ASSUME NEW i \in 1 .. l
        PROVE  user_space'[m + i - 1] = IF m = b \/ i <= b - m THEN user_space[b + i - 1] ELSE " "
    <2>1. PICK d : d = m + i - 1
      OBVIOUS
    <2>2. d \in Direcciones /\ d \in Rango(Movido(s))
      BY <1>4, <2>1, Tamanios DEF Direcciones
    <2>3. d \in Destino(s) /\ s \in segs
      BY <1>2, <1>3, <1>4, <2>2 DEF Destino
    <2>4. PICK x : x = CHOOSE y \in segs : d \in Destino(y)
      OBVIOUS
    <2>5. x \in segs /\ d \in Destino(x)
      BY <2>3, <2>4
    <2>6. user_space'[d] = ByteCompactado(x, d)
      BY <1>1, <2>2, <2>3, <2>4
    <2>7. Asignado(x) /\ d \in Rango(Movido(x))
      <3>1. Asignado(x)
        BY <1>2, <2>5
      <3>2. Rango(Movido(x)) = Destino(x)
        BY <3>1, MovidoEs DEF MaquinaInv, Destino
      <3> QED
        BY <2>5, <3>1, <3>2
    <2>8. ~Disjuntos(Movido(s), Movido(x))
      BY <2>2, <2>7 DEF Disjuntos
    <2>9. ~Disjuntos(s, x)
      BY <2>7, <2>8, MovidosAparte
    <2>10. x.base = b
      BY <1>3, <2>7, <2>9, MismaBase
    <2>11. BaseCompacta(x) = m
      BY <1>3, <2>10 DEF BaseCompacta
    <2>12. d \in Rango(x) <=> i > b - m
      <3>1. PICK n : n = x.limite
        OBVIOUS
      <3>2. n \in Nat /\ Rango(x) = b .. b + n - 1
        <4>1. x \in Segmentos
          BY <2>7, AsignadoEnTabla DEF MaquinaInv
        <4> QED
          BY <2>10, <3>1, <4>1, Numero
      <3>3. d <= m + n - 1
        BY <1>4, <2>5, <2>11, <3>1, <3>2 DEF Destino
      <3> QED
        BY <1>4, <2>1, <3>2, <3>3
    <2>13. user_space'[d] = IF m # b /\ i > b - m THEN " " ELSE user_space[d - m + b]
      BY <2>6, <2>10, <2>11, <2>12 DEF ByteCompactado
    <2>14. d - m + b = b + i - 1 /\ (m # b /\ i > b - m <=> ~(m = b \/ i <= b - m))
      BY <1>4, <2>1
    <2> QED
      BY <2>1, <2>13, <2>14
  <1> QED
    BY <1>3, <1>5

\* That is a first part of its bytes, of one byte at least, and blanks.
LEMMA QuedaElPrincipio ==
    ASSUME MaquinaInv, Compactar, NEW s, Asignado(s)
    PROVE  \E n \in 1 .. s.limite + 1 :
              BytesEn(user_space', Movido(s)) = Ideal!Recorte(BytesEn(user_space, s), n)
  <1>1. PICK b, l, m : b = s.base /\ l = s.limite /\ m = BaseCompacta(s)
    OBVIOUS
  <1>2. s \in Segmentos
    BY AsignadoEnTabla DEF MaquinaInv
  <1>3. /\ b \in Nat /\ l \in Nat /\ m \in Nat /\ m <= b
        /\ Movido(s).base = m /\ Movido(s).limite = l
    <2>1. b \in Nat /\ l \in Nat
      BY <1>1, <1>2, Numero
    <2> QED
      BY <1>1, <2>1, MovidoEs DEF MaquinaInv
  <1>4. PICK n : n = IF m = b \/ b - m > l THEN l + 1 ELSE b - m
    OBVIOUS
  <1>5. n \in 1 .. l + 1 /\ \A i \in 1 .. l : i <= n <=> (m = b \/ i <= b - m)
    BY <1>3, <1>4
  <1>6. PICK u, w, v : u = user_space /\ w = user_space' /\ v = BytesEn(user_space, s)
    OBVIOUS
  <1>7. \A i \in 1 .. l : w[m + i - 1] = IF m = b \/ i <= b - m THEN u[b + i - 1] ELSE " "
    BY <1>1, <1>6, LosBytesSeMueven
  <1>8. Len(v) = l /\ \A i \in 1 .. l : v[i] = u[b + i - 1]
    <2>1. u \in [Direcciones -> Caracteres]
      BY <1>6, TiposDeLaMaquina
    <2> QED
      BY <1>1, <1>2, <1>6, <2>1, BytesSon
  <1>9. BytesEn(w, Movido(s)) = [i \in 1 .. l |-> w[m + i - 1]]
    BY <1>3 DEF BytesEn
  <1>10. Ideal!Recorte(v, n) = [i \in 1 .. l |-> IF i <= n THEN v[i] ELSE " "]
    BY <1>8 DEF Ideal!Recorte
  <1>11. \A i \in 1 .. l : w[m + i - 1] = IF i <= n THEN v[i] ELSE " "
    BY <1>5, <1>7, <1>8
  <1>12. BytesEn(w, Movido(s)) = Ideal!Recorte(v, n)
    BY <1>9, <1>10, <1>11, Zenon
  <1> QED
    BY <1>1, <1>5, <1>6, <1>12

\* Segment 0 does not move.
LEMMA ElCompartidoSeVeIgual ==
    ASSUME MaquinaInv, Compactar, Procesos # {}
    PROVE  CompartidoVisto' = CompartidoVisto
  <1>1. Asignado(Segmento0)
    BY TablaDe, TablasMovidas
  <1>2. Movido(Segmento0) = Segmento0 /\ Movido(Segmento0).base = BaseCompacta(Segmento0)
    BY <1>1, ElCompartidoNoSeMueve, MovidoEs DEF MaquinaInv
  <1>3. PICK b, l, u, w : /\ b = Segmento0.base /\ l = Segmento0.limite
                          /\ u = user_space /\ w = user_space'
    OBVIOUS
  <1>4. \A i \in 1 .. l : w[b + i - 1] = u[b + i - 1]
    BY <1>1, <1>2, <1>3, LosBytesSeMueven
  <1>5. /\ BytesEn(w, Segmento0) = [i \in 1 .. l |-> w[b + i - 1]]
        /\ BytesEn(u, Segmento0) = [i \in 1 .. l |-> u[b + i - 1]]
    BY <1>3 DEF BytesEn
  <1>6. BytesEn(w, Segmento0) = BytesEn(u, Segmento0)
    BY <1>4, <1>5, Zenon
  <1> QED
    BY <1>3, <1>6, SegmentosQueVe

\* A compaction shows in the segments of the programs as MaquinaIdeal says.
LEMMA SegmentosRecortados ==
    ASSUME MaquinaInv, Compactar, NEW q \in Procesos
    PROVE  /\ Len(SegmentosVistos'[q]) = Len(SegmentosVistos[q])
           /\ \A i \in DOMAIN SegmentosVistos[q] :
                 \E n \in 1 .. Len(SegmentosVistos[q][i].bytes) + 1 :
                    SegmentosVistos'[q][i]
                      = [SegmentosVistos[q][i] EXCEPT !.bytes = Ideal!Recorte(@, n)]
  <1>1. PICK t, x, u, w : /\ t = diccionario_tablas[q] /\ x = diccionario_tablas'[q]
                          /\ u = user_space /\ w = user_space'
    OBVIOUS
  <1>2. PICK v, y : v = SegmentosEn(u, t) /\ y = SegmentosEn(w, x)
    OBVIOUS
  <1>3. SegmentosVistos[q] = v /\ SegmentosVistos'[q] = y
    BY <1>1, <1>2, SegmentosQueVe
  <1>4. /\ t \in Seq(Segmentos) /\ Len(t) \in Nat /\ Len(t) >= 1 /\ DOMAIN t = 1 .. Len(t)
        /\ u \in [Direcciones -> Caracteres] /\ w \in [Direcciones -> Caracteres]
        /\ x \in Seq(Segmentos)
    <2>1. /\ t \in Seq(Segmentos) /\ Len(t) \in Nat /\ Len(t) >= 1 /\ DOMAIN t = 1 .. Len(t)
          /\ u \in [Direcciones -> Caracteres]
      BY <1>1, TablaDe, TiposDeLaMaquina
    <2>2. CPUInv'
      BY PasoCompactar DEF MaquinaInv, AcuerdoInv
    <2> QED
      BY <1>1, <2>1, <2>2 DEF CPUInv, Tipado
  <1>5. Len(x) = Len(t) /\ \A i \in DOMAIN t : Asignado(t[i]) /\ x[i] = Movido(t[i])
    BY <1>1, TablasMovidas
  <1>6. /\ Len(v) = Len(t) - 1 /\ DOMAIN v = 1 .. Len(t) - 1
        /\ \A i \in 1 .. Len(t) - 1 : v[i] = [ID |-> t[i + 1].ID, bytes |-> BytesEn(u, t[i + 1])]
    BY <1>2, <1>4, SegmentosSon
  <1>7. /\ Len(y) = Len(t) - 1
        /\ \A i \in 1 .. Len(t) - 1 : y[i] = [ID |-> x[i + 1].ID, bytes |-> BytesEn(w, x[i + 1])]
    <2>1. /\ Len(y) = Len(x) - 1
          /\ \A i \in 1 .. Len(x) - 1 :
                y[i] = [ID |-> x[i + 1].ID, bytes |-> BytesEn(w, x[i + 1])]
      BY <1>2, <1>4, <1>5, SegmentosSon
    <2> QED
      BY <1>5, <2>1
  <1>8. ASSUME NEW i \in DOMAIN v
        PROVE  \E n \in 1 .. Len(v[i].bytes) + 1 :
                  y[i] = [v[i] EXCEPT !.bytes = Ideal!Recorte(@, n)]
    <2>1. i \in 1 .. Len(t) - 1 /\ i + 1 \in DOMAIN t
      BY <1>4, <1>6
    <2>2. PICK s : s = t[i + 1]
      OBVIOUS
    <2>3. Asignado(s) /\ x[i + 1] = Movido(s) /\ s \in Segmentos
      BY <1>4, <1>5, <2>1, <2>2
    <2>4. PICK n \in 1 .. s.limite + 1 :
              BytesEn(w, Movido(s)) = Ideal!Recorte(BytesEn(u, s), n)
      BY <1>1, <2>3, QuedaElPrincipio
    <2>5. Len(BytesEn(u, s)) = s.limite /\ Movido(s).ID = s.ID
      BY <1>4, <2>3, BytesSon, MovidoEs DEF MaquinaInv
    <2>6. /\ v[i] = [ID |-> s.ID, bytes |-> BytesEn(u, s)]
          /\ y[i] = [ID |-> s.ID, bytes |-> BytesEn(w, Movido(s))]
      BY <1>6, <1>7, <2>1, <2>2, <2>3, <2>5
    <2>7. y[i] = [v[i] EXCEPT !.bytes = Ideal!Recorte(@, n)]
      BY <2>4, <2>6
    <2>8. n \in 1 .. Len(v[i].bytes) + 1
      BY <2>5, <2>6
    <2> QED
      BY <2>7, <2>8
  <1> QED
    BY <1>3, <1>6, <1>7, <1>8

\* The counters, registers and requests are what they were.
LEMMA IdealCompactar ==
    ASSUME MaquinaInv, Compactar
    PROVE  \E p \in Procesos : Ideal!Compactar(p)
  <1>1. /\ UNCHANGED <<lugar, pedido, cpu>> /\ run_pc = "compactar"
    BY DEF Compactar, parametros
  <1>2. PICK p \in Procesos : lugar[p] = "kernel" /\ pedido[p].op = "CREATE_SEGMENT"
    BY <1>1 DEF MaquinaInv, AcuerdoInv, Pide
  <1>3. ASSUME NEW q \in Procesos
        PROVE  /\ PCB'[q].program_counter = PCB[q].program_counter
               /\ PCB'[q].registros = PCB[q].registros
    <2>1. PICK g, x : g = PCB[q] /\ x = diccionario_tablas'[q]
      OBVIOUS
    <2>2. PCB'[q] = g \/ PCB'[q] = [g EXCEPT !.tablaSegmentos = x]
      BY <2>1 DEF Compactar
    <2>3. g \in Guardado
      BY <2>1, TiposDeLaMaquina
    <2> QED
      BY <2>1, <2>2, <2>3 DEF Guardado
  <1>4. ASSUME NEW q \in Procesos
        PROVE  /\ FaseVista'[q] = FaseVista[q] /\ ContadorVisto'[q] = ContadorVisto[q]
               /\ RegistrosVistos'[q] = RegistrosVistos[q]
    <2>1. lugar[q] \in Lugares /\ lugar'[q] = lugar[q]
      BY <1>1, TiposDeLaMaquina
    <2> QED
      BY <1>1, <1>3, <2>1, VistaAjena
  <1>5. FaseVista' = FaseVista
    BY <1>4, SonFunciones, SiguenSiendoFunciones, CambiaNinguno
  <1>6. ContadorVisto' = ContadorVisto
    BY <1>4, SonFunciones, SiguenSiendoFunciones, CambiaNinguno
  <1>7. RegistrosVistos' = RegistrosVistos
    BY <1>4, SonFunciones, SiguenSiendoFunciones, CambiaNinguno
  <1>8. CompartidoVisto' = CompartidoVisto
    BY ElCompartidoSeVeIgual
  <1>9. FaseVista[p] = "espera"
    BY <1>2, TiposDeLaMaquina, Vista DEF FaseDelLugar
  <1>10. Desviados' \subseteq {q \in Procesos : pedido[q].op \in {"F_READ", "F_WRITE"}}
    <2>1. \A q \in Desviados' : q \in EnFS
      BY <1>1 DEF Desviados, EnFS
    <2> QED
      BY <2>1 DEF EnFS, MaquinaInv, AcuerdoInv, Transfieren
  <1>11. Ideal!Compactar(p)
    BY <1>1, <1>2, <1>5, <1>6, <1>7, <1>8, <1>9, <1>10, SegmentosRecortados DEF Ideal!Compactar
  <1> QED
    BY <1>11
-----------------------------------------------------------------------------
(* Every program has a machine of its own *)

LEMMA IdealAlInicio == Init => Ideal!Init
  <1> SUFFICES ASSUME Init PROVE Ideal!Init
    OBVIOUS
  <1>1. MaquinaInv
    BY MaquinaAlInicio
  <1>2. ASSUME NEW p \in Procesos
        PROVE  /\ FaseVista[p] = "corre" /\ ContadorVisto[p] = 0
               /\ RegistrosVistos[p] = Ideal!EnCero /\ SegmentosVistos[p] = <<>>
    <2>1. /\ lugar[p] = "ready" /\ lugar[p] \in Lugares /\ PCB[p] = PCBNuevo
          /\ diccionario_tablas[p] = <<Segmento0>>
      BY DEF Init, Lugares
    <2>2. FaseVista[p] = FaseDelLugar("ready") /\ ContadorVisto[p] = PCB[p].program_counter
          /\ RegistrosVistos[p] = Cargados(PCB[p].registros)
      BY <2>1, Vista
    <2>3. RegistrosVistos[p] = Ideal!EnCero
      BY <2>1, <2>2, CerosDelIdeal
    <2>4. SegmentosVistos[p] = <<>>
      BY <2>1, SegmentosQueVe, NadaVisto
    <2> QED
      BY <2>1, <2>2, <2>3, <2>4 DEF FaseDelLugar, PCBNuevo
  <1>3. /\ FaseVista = [p \in Procesos |-> "corre"] /\ ContadorVisto = [p \in Procesos |-> 0]
        /\ RegistrosVistos = [p \in Procesos |-> Ideal!EnCero]
        /\ SegmentosVistos = [p \in Procesos |-> <<>>]
    BY <1>2, SonFunciones
  <1>4. CompartidoVisto \in Seq({" "})
    <2>1. CompartidoVisto = BytesEn(user_space, Segmento0)
      BY SegmentosQueVe
    <2>2. PICK n : n = TAM_SEGMENTO_0
      OBVIOUS
    <2>3. \A i \in 1 .. n : 0 + i - 1 \in Direcciones
      BY <2>2, Tamanios DEF Direcciones
    <2>4. \A i \in 1 .. n : user_space[0 + i - 1] = " "
      BY <2>3 DEF Init
    <2>5. CompartidoVisto = [i \in 1 .. n |-> user_space[0 + i - 1]]
      BY <2>1, <2>2, ElCompartido DEF BytesEn
    <2>6. n \in Nat /\ CompartidoVisto \in [1 .. n -> {" "}]
      BY <2>2, <2>4, <2>5, Tamanios
    <2> QED
      BY <2>6, SeqDef
  <1>5. pedido = [p \in Procesos |-> Ideal!NADA]
    BY LaMismaNada DEF Init
  <1>6. Desviados = {}
    BY AcuerdoAlInicio
  <1> QED
    BY <1>3, <1>4, <1>5, <1>6 DEF Ideal!Init

LEMMA IdealEnUnPaso ==
    NadieBorraElCompartido => (MaquinaInv /\ [Next]_vars => [Ideal!Next]_(Ideal!vars))
  <1> SUFFICES ASSUME NadieBorraElCompartido, MaquinaInv, [Next]_vars
               PROVE  Ideal!Next \/ UNCHANGED Ideal!vars
    OBVIOUS
  <1>1. ASSUME NEW ins \in Instrucciones, Set(ins) \/ MovIn(ins) \/ MovOut(ins) PROVE Ideal!Next
    BY <1>1, IdealSet, IdealMovIn, IdealMovOut DEF Ideal!Next
  <1>2. ASSUME NEW ins \in Instrucciones, MovInDesconocido(ins) PROVE UNCHANGED Ideal!vars
    BY <1>2, IdealMovInDesconocido
  <1>3. ASSUME NEW ins \in Instrucciones, Yield(ins) PROVE Ideal!Next
    BY <1>3, IdealYield DEF Ideal!Next
  <1>4. ASSUME NEW ins \in Instrucciones, PedirFS(ins) PROVE Ideal!Next
    BY <1>4, IdealPedirFS DEF Ideal!Next
  <1>5. ASSUME NEW ins \in Instrucciones, PedirSegmento(ins) PROVE Ideal!Next
    BY <1>5, IdealPedirSegmento DEF Ideal!Next
  <1>6. ASSUME NEW ins \in Instrucciones, Exit(ins) PROVE Ideal!Next
    BY <1>6, IdealExit DEF Ideal!Next
  <1>7. ASSUME NEW ins \in Instrucciones, ExitProcessError(ins) PROVE Ideal!Next
    BY <1>7, IdealExitProcessError DEF Ideal!Next
  <1>8. ASSUME NEW p \in Procesos, Despachar(p) PROVE UNCHANGED Ideal!vars
    BY <1>8, IdealDespachar
  <1>9. ASSUME NEW p \in Procesos, CrearSegmento(p) PROVE Ideal!Next
    BY <1>9, IdealCrearSegmento DEF Ideal!Next
  <1>10. ASSUME NEW p \in Procesos, BorrarSegmento(p) PROVE Ideal!Next
    BY <1>10, IdealBorrarSegmento DEF Ideal!Next
  <1>11. ASSUME NEW p \in Procesos, SinEspacio(p) PROVE Ideal!Next
    BY <1>11, IdealSinEspacio DEF Ideal!Next
  <1>12. ASSUME Compactar PROVE Ideal!Next
    BY <1>12, IdealCompactar DEF Ideal!Next
  <1>13. ASSUME NEW p \in Procesos, AtenderFS(p) PROVE Ideal!Next
    BY <1>13, IdealAtenderFS DEF Ideal!Next
  <1>14. ASSUME NEW p \in Procesos, Retirar(p) PROVE Ideal!Next
    BY <1>14, IdealRetirar DEF Ideal!Next
  <1>15. ASSUME NEW p \in Procesos, Solicitar(p) PROVE UNCHANGED Ideal!vars
    BY <1>15, IdealIgual DEF Solicitar
  <1>16. ASSUME SoloAcuerdo PROVE UNCHANGED Ideal!vars
    BY <1>16, LosProgramasSiguen, IdealIgual
  <1>17. ASSUME UNCHANGED vars PROVE UNCHANGED Ideal!vars
    BY <1>17, IdealIgual DEF vars
  <1>18. ASSUME NEW ins \in Instrucciones, Ejecutar(ins) PROVE Ideal!Next \/ UNCHANGED Ideal!vars
    BY <1>1, <1>2, <1>3, <1>4, <1>5, <1>6, <1>7, <1>18 DEF Ejecutar
  <1> QED
    BY <1>8, <1>9, <1>10, <1>11, <1>12, <1>13, <1>14, <1>15, <1>16, <1>17, <1>18
       DEF Next, SoloAcuerdo
-----------------------------------------------------------------------------
(* Results *)

\* In the CPU, in the PCBs and in the memory everything keeps its type: a register keeps the
\* width it was given, whatever was loaded in it (set, set_sin_retardo, cargarRegistros), a
\* program counter stays within its program, and a physical address is in the memory.
THEOREM Tipos == Spec => []TypeOK
  BY InvDaTypeOK, InvSiempre, PTL

\* The tables of the kernel and of the CPU are the memory's at every step.  And as long as no
\* compaction was requested with something of an earlier request pending (a permission that
\* nobody took, a request that nobody withdrew), the physical address of an F_READ or F_WRITE
\* that waits is the translation of its logical address, in every order in which
\* compaction_manager and operarFS read and write the counter, the flag and the semaphore.
THEOREM NingunaTraduccionVencida == Spec => []TraduccionesVigentes
  <1>1. CPUInv /\ AcuerdoInv => TraduccionesVigentes
    BY DEF CPUInv, AcuerdoInv, TraduccionesVigentes
  <1> QED
    BY <1>1, InvSiempre, PTL

\* No byte of a program is of another one: the segments of all tables are disjoint but for
\* segment 0, which every table begins with, through every CREATE_SEGMENT, DELETE_SEGMENT,
\* compaction and EXIT that the memory answers.
THEOREM SegmentosSinSolaparse ==
    NadieBorraElCompartido => (Spec => [](ConElCompartido /\ Apartes))
  <1> SUFFICES ASSUME NadieBorraElCompartido PROVE Spec => [](ConElCompartido /\ Apartes)
    OBVIOUS
  <1>1. MaquinaInv => ConElCompartido /\ Apartes
    BY DEF MaquinaInv
  <1>2. Spec => []MaquinaInv
    BY MaquinaSiempre
  <1> QED
    BY <1>1, <1>2, PTL

\* Each program runs on a machine of its own: what it sees of its registers, its counter and its
\* segments is what MaquinaIdeal says, whatever cargarRegistros finds in the CPU, wherever the
\* memory puts the segments and whenever the file system answers.  A compaction shows in two
\* ways only, which MaquinaIdeal names: a segment that moves may keep only its first bytes, and
\* an F_READ that a compaction overtook may land anywhere.  Segment 0 is of every process, so no
\* program may delete it.
THEOREM MaquinaImplementada == NadieBorraElCompartido => (Spec => ImplementaMaquina)
  <1> SUFFICES ASSUME NadieBorraElCompartido PROVE Spec => ImplementaMaquina
    OBVIOUS
  <1>1. MaquinaInv /\ [Next]_vars => [Ideal!Next]_(Ideal!vars)
    BY IdealEnUnPaso
  <1>2. Spec => []MaquinaInv
    BY MaquinaSiempre
  <1> QED
    BY <1>1, <1>2, IdealAlInicio, PTL DEF Spec, ImplementaMaquina, Ideal!Spec
=============================================================================
