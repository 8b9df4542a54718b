----------------------- MODULE SistemaDeArchivosProofs -----------------------
(***************************************************************************)
(* What holds of SistemaDeArchivos for every set of files, number and size *)
(* of blocks, and sizes asked for: types, what is on disk, whose each      *)
(* block is, and what a read finds.                                        *)
(***************************************************************************)
EXTENDS SistemaDeArchivos, TLAPS, SequenceTheorems, FiniteSetTheorems, WellFoundedInduction

\* Where blocks begin.
LasBases == {b * TAM_BLOQUE : b \in Bloques}

\* An FCB has a pointer block only if it has the direct one.
Forma(f) ==
    /\ f \in FCBs
    /\ f.punteroDir \in LasBases \cup {NADA} /\ f.punteroIn \in LasBases \cup {NADA}
    /\ f.punteroIn # NADA => f.punteroDir # NADA

\* The places of a file: the direct block, the pointer block, and the slots of this from 0 on.
DIR == -1
IND == -2
Nombra(f, l, x) ==
    \/ l = DIR /\ f.punteroDir # NADA /\ x = f.punteroDir
    \/ f.punteroIn # NADA /\ l = IND /\ x = f.punteroIn
    \/ f.punteroIn # NADA /\ l \in 0 .. f.cantidad_indirectos - 1
       /\ x = datos_bloques[f.punteroIn + l]

\* In place l file a has block x: for the FCB in memory, and for the one on disk.
Tiene(a, l, x) == a \in DOMAIN listaFCB /\ Nombra(Vigente(a), l, x)
EnDisco(a, l, x) == a \in DOMAIN directorio /\ Nombra(directorio[a], l, x)

\* How many blocks of data an FCB names.
Cuantos(f) == (IF f.punteroDir = NADA THEN 0 ELSE 1)
              + (IF f.punteroIn = NADA THEN 0 ELSE f.cantidad_indirectos)

\* The FCB in memory and the one on disk, up to the count that a restart loses.
SalvoLaCuenta(d, f) == d = [f EXCEPT !.cantidad_indirectos = d.cantidad_indirectos]
Igual(a) == \/ directorio[a] = listaFCB[a]
            \/ a \in recargados /\ SalvoLaCuenta(directorio[a], listaFCB[a])

\* The truncation has changed the FCB of a and not saved it yet.
PorAsentar(a) == a = pedido.archivo /\ pc \in {"ocuparOtro", "asentar", "asentarLiberado"}

Pasos == {"ocupar", "ocuparOtro", "asentar", "liberar", "asentarLiberado"}

Tipado ==
    /\ DOMAIN listaFCB \subseteq Archivos /\ DOMAIN directorio = DOMAIN listaFCB
    /\ \A a \in DOMAIN listaFCB : Forma(listaFCB[a]) /\ Forma(directorio[a])
    /\ bitmap \subseteq Bloques /\ datos_bloques \in [Unidades -> Int]
    /\ pc \in {"esperar", "guardar"} \cup Pasos
    /\ pedido \in [archivo : Archivos \cup {NADA}, tamanio : 0 .. MODULO - 1, faltan : Nat]
    /\ pedido.archivo \in (IF pc = "esperar" THEN {NADA} ELSE DOMAIN listaFCB)
    /\ pc \in Pasos => pedido.faltan # 0
    /\ caido \in BOOLEAN /\ reinicios \in 0 .. MAX_REINICIOS
    /\ recargados \subseteq DOMAIN listaFCB
    /\ sano \in BOOLEAN /\ integro \in BOOLEAN /\ sinBloque \in BOOLEAN

Sincronizado == \A a \in DOMAIN listaFCB : Igual(a) \/ PorAsentar(a)

FcbInv == Tipado /\ Sincronizado
-----------------------------------------------------------------------------
(* The invariant while every step found what it assumes *)

Contado(f) == f.punteroIn # NADA => f.cantidad_indirectos \in 0 .. TAM_BLOQUE

\* Counts fit in the pointer block; a file that was not reloaded counts none without one.
Contados ==
    \A a \in DOMAIN listaFCB :
        /\ Contado(Vigente(a)) /\ Contado(directorio[a])
        /\ a \notin recargados /\ listaFCB[a].punteroIn = NADA
               => listaFCB[a].cantidad_indirectos = 0

\* A block is in one place of one file, and marked.
UnDuenio ==
    /\ \A a, b, l, m, x : Tiene(a, l, x) /\ Tiene(b, m, x) => a = b /\ l = m
    /\ \A a, l, x : Tiene(a, l, x) => x \in Bases

\* What is on disk is in memory too, but for the block that is being freed.
DiscoContenido ==
    \A a, l, x : EnDisco(a, l, x) => Tiene(a, l, x) \/ (PorAsentar(a) /\ pc = "asentarLiberado")

\* The slots that name no block are blank.
RanurasEnBlanco ==
    \A a \in DOMAIN listaFCB : \A k \in 0 .. TAM_BLOQUE - 1 :
        a \notin recargados /\ listaFCB[a].punteroIn # NADA /\ k >= listaFCB[a].cantidad_indirectos
            => datos_bloques[listaFCB[a].punteroIn + k] = BLANCO

EnBlanco == \A x \in LasBases \ Bases : \A u \in UnidadesDe(x) : datos_bloques[u] = BLANCO

\* In the middle of a truncation.
Momento ==
    /\ pc \in {"ocuparOtro", "asentar", "asentarLiberado"} =>
          pedido.archivo \notin recargados \/ Actual.punteroIn = NADA
    /\ pc = "ocuparOtro" =>
          /\ Actual.punteroIn # NADA /\ Actual.cantidad_indirectos = 0
          /\ directorio[pedido.archivo].punteroIn = NADA

\* No marked block is without a file.
NadaPerdido == integro => \A x \in Bases : \E a, l : Tiene(a, l, x)

\* The blocks of a file are those of its size or, in a truncation, those of the size asked for
\* once the ones that are still to take or to free are; with more than one, it has a pointer block.
Saldo ==
    CASE pc = "liberar" -> pedido.faltan
      [] pc = "asentarLiberado" -> pedido.faltan - 1
      [] pc \in {"ocupar", "ocuparOtro"} -> 0 - pedido.faltan
      [] pc = "asentar" -> 1 - pedido.faltan
      [] OTHER -> 0
EnCurso(a) == pc # "esperar" /\ a = pedido.archivo
Conforme(a) ==
    /\ Cuantos(Vigente(a)) = IF EnCurso(a) THEN BloquesPara(pedido.tamanio) + Saldo
                             ELSE BloquesPara(Vigente(a).tamanio)
    /\ Vigente(a).punteroIn # NADA =>
          Cuantos(Vigente(a)) > 1 \/ (EnCurso(a) /\ pc = "ocuparOtro")
    /\ Cuantos(Vigente(a)) > 1 => Vigente(a).punteroIn # NADA
SegunTamanio == integro /\ ~sinBloque => \A a \in DOMAIN listaFCB : Conforme(a)

\* The blocks that the range needs are in the file.
Cabe(f, acceso) == (acceso.puntero + acceso.bytes) \div TAM_BLOQUE < Cuantos(f)

\* The range of the write that is observed is in the blocks of its file, in memory and on disk,
\* and no truncation takes blocks from that.
ElObservado ==
    LET a == observado.archivo IN
    observado # SinObservar =>
        /\ observado.puntero \in Nat /\ observado.bytes \in 1 .. TAM_BLOQUE
        /\ a \in DOMAIN listaFCB
        /\ Cabe(Vigente(a), observado) /\ Cabe(directorio[a], observado)
        /\ ~(a = pedido.archivo /\ pc \in {"liberar", "asentarLiberado"})
        /\ \A u \in Destino(listaFCB[a], observado) : datos_bloques[u] = OBSERVADO

Sanidad ==
    /\ Contados /\ UnDuenio /\ DiscoContenido /\ RanurasEnBlanco /\ EnBlanco /\ Momento
    /\ NadaPerdido /\ SegunTamanio /\ ElObservado

BloquesInv == FcbInv /\ (sano => Sanidad)
-----------------------------------------------------------------------------
(* Blocks and their units *)

LEMMA HayMinimo ==
    ASSUME NEW S \in SUBSET Nat, S # {}
    PROVE  Min(S) \in S /\ \A x \in S : Min(S) <= x
  <1> DEFINE R == OpToRel(<, Nat)
  <1>1. IsWellFoundedOn(R, Nat)
    BY NatLessThanWellFounded
  <1>2. \A x, y \in Nat : <<y, x>> \in R <=> y < x
    BY DEF OpToRel
  <1> HIDE DEF R
  <1>3. PICK x \in S : \A y \in S : ~ (<<y, x>> \in R)
    BY <1>1, WFMin
  <1>4. ASSUME NEW y \in S PROVE x =< y
    <2>1. x \in Nat /\ y \in Nat /\ ~ (<<y, x>> \in R)
      BY <1>3
    <2>2. ~ (y < x)
      BY <1>2, <2>1
    <2> QED
      BY <2>1, <2>2
  <1> QED
    BY <1>4 DEF Min

BasesDe(B) == {b * TAM_BLOQUE : b \in B}

LEMMA Constantes ==
    /\ TAM_BLOQUE \in Nat \ {0} /\ BLOCK_COUNT \in Nat \ {0} /\ MODULO \in Nat \ {0}
    /\ Bloques \subseteq 0 .. BLOCK_COUNT - 1
    /\ Bloques \subseteq Nat /\ MAX_REINICIOS \in Nat
  <1>1. /\ TAM_BLOQUE \in Nat \ {0} /\ BLOCK_COUNT \in Nat \ {0} /\ MODULO \in Nat \ {0}
        /\ BITS_POR_BYTE \in 1 .. BLOCK_COUNT /\ MAX_REINICIOS \in Nat
    BY ArchivosAssumption
  <1>2. BITS_POR_BYTE * (BLOCK_COUNT \div BITS_POR_BYTE) <= BLOCK_COUNT
    BY <1>1
  <1>3. BITS_POR_BYTE * (BLOCK_COUNT \div BITS_POR_BYTE) \in Int
    BY <1>1
  <1> QED
    BY <1>1, <1>2, <1>3 DEF Bloques

LEMMA MultiploMenor ==
    ASSUME NEW b \in Nat, NEW c \in Nat, b < c
    PROVE  b * TAM_BLOQUE + TAM_BLOQUE <= c * TAM_BLOQUE
  BY Constantes

LEMMA UnaBase ==
    ASSUME NEW b \in Bloques
    PROVE  /\ b * TAM_BLOQUE \in LasBases /\ b * TAM_BLOQUE \in Nat
           /\ b * TAM_BLOQUE + TAM_BLOQUE <= BLOCK_COUNT * TAM_BLOQUE
           /\ (b * TAM_BLOQUE) \div TAM_BLOQUE = b
  <1>1. b \in Nat /\ b < BLOCK_COUNT /\ BLOCK_COUNT \in Nat /\ TAM_BLOQUE \in Nat \ {0}
    BY Constantes
  <1> QED
    BY <1>1, MultiploMenor DEF LasBases

LEMMA LasUnidades ==
    ASSUME NEW x \in LasBases
    PROVE  /\ x \in Nat /\ x # NADA /\ x \in Unidades
           /\ x \div TAM_BLOQUE \in Bloques /\ (x \div TAM_BLOQUE) * TAM_BLOQUE = x
           /\ \A k \in 0 .. TAM_BLOQUE - 1 : x + k \in UnidadesDe(x)
           /\ UnidadesDe(x) \subseteq Unidades /\ x \in UnidadesDe(x)
  <1>1. PICK b \in Bloques : x = b * TAM_BLOQUE
    BY DEF LasBases
  <1>2. x \in Nat /\ x + TAM_BLOQUE <= BLOCK_COUNT * TAM_BLOQUE /\ x \div TAM_BLOQUE = b
    BY <1>1, UnaBase
  <1>3. PICK m : m = BLOCK_COUNT * TAM_BLOQUE
    OBVIOUS
  <1>4. m \in Nat /\ x + TAM_BLOQUE <= m
    BY <1>2, <1>3, Constantes
  <1>5. UnidadesDe(x) \subseteq Unidades /\ x \in UnidadesDe(x)
    BY <1>2, <1>3, <1>4, Constantes DEF Unidades, UnidadesDe
  <1>6. \A k \in 0 .. TAM_BLOQUE - 1 : x + k \in UnidadesDe(x)
    BY <1>2, Constantes DEF UnidadesDe
  <1> QED
    BY <1>1, <1>2, <1>5, <1>6 DEF NADA

LEMMA Separadas ==
    ASSUME NEW x \in LasBases, NEW y \in LasBases, x # y
    PROVE  UnidadesDe(x) \cap UnidadesDe(y) = {}
  <1>1. PICK b \in Bloques : x = b * TAM_BLOQUE
    BY DEF LasBases
  <1>2. PICK c \in Bloques : y = c * TAM_BLOQUE
    BY DEF LasBases
  <1>3. b \in Nat /\ c \in Nat /\ x \in Nat /\ y \in Nat /\ TAM_BLOQUE \in Nat
    BY Constantes, LasUnidades
  <1>4. b < c \/ c < b
    BY <1>1, <1>2, <1>3
  <1>5. x + TAM_BLOQUE <= y \/ y + TAM_BLOQUE <= x
    BY <1>1, <1>2, <1>3, <1>4, MultiploMenor
  <1> QED
    BY <1>3, <1>5 DEF UnidadesDe

LEMMA BasesEnBases ==
    ASSUME NEW B \in SUBSET Bloques
    PROVE  BasesDe(B) \subseteq LasBases
  BY DEF BasesDe, LasBases

LEMMA BaseMarcada ==
    ASSUME NEW B \in SUBSET Bloques, NEW i \in Bloques \ B
    PROVE  /\ BasesDe(B \cup {i}) = BasesDe(B) \cup {i * TAM_BLOQUE}
           /\ i * TAM_BLOQUE \notin BasesDe(B)
  <1>1. BasesDe(B \cup {i}) = BasesDe(B) \cup {i * TAM_BLOQUE}
    BY DEF BasesDe
  <1>2. ASSUME NEW b \in B, b * TAM_BLOQUE = i * TAM_BLOQUE PROVE FALSE
    <2>1. b = i
      BY <1>2, UnaBase
    <2> QED
      BY <2>1
  <1> QED
    BY <1>1, <1>2 DEF BasesDe

LEMMA BaseLiberada ==
    ASSUME NEW B \in SUBSET Bloques, NEW x \in LasBases
    PROVE  BasesDe(B \ {x \div TAM_BLOQUE}) = BasesDe(B) \ {x}
  <1>1. \A b \in B : b * TAM_BLOQUE = x <=> b = x \div TAM_BLOQUE
    BY UnaBase, LasUnidades
  <1> QED
    BY <1>1 DEF BasesDe

LEMMA ElLibre ==
    ASSUME bitmap \subseteq Bloques, Bloques \ bitmap # {}
    PROVE  Min(Bloques \ bitmap) \in Bloques \ bitmap
  <1>1. Bloques \ bitmap \in SUBSET Nat
    BY Constantes
  <1> QED
    BY <1>1, HayMinimo
-----------------------------------------------------------------------------
(* Types *)

\* The three ways to take the first free block.
OcupaDirecto(i) ==
    /\ EnMarcha("ocupar") /\ Actual.punteroDir = NADA
    /\ bitmap' = bitmap \cup {i}
    /\ ConFCB([Actual EXCEPT !.punteroDir = i * TAM_BLOQUE])
    /\ pc' = "asentar"
    /\ UNCHANGED <<directorio, datos_bloques, pedido, caido, reinicios, historia>>

OcupaPuntero(i) ==
    /\ EnMarcha("ocupar") /\ Actual.punteroDir # NADA /\ Actual.punteroIn = NADA
    /\ bitmap' = bitmap \cup {i}
    /\ ConFCB([Actual EXCEPT !.punteroIn = i * TAM_BLOQUE])
    /\ pc' = "ocuparOtro"
    /\ sano' = (sano /\ ~Confunde(Actual.cantidad_indirectos))
    /\ UNCHANGED <<directorio, datos_bloques, pedido, caido, reinicios, recargados, integro,
                   sinBloque, observado>>

OcupaRanura(i) ==
    /\ \/ EnMarcha("ocupar") /\ Actual.punteroDir # NADA /\ Actual.punteroIn # NADA
       \/ EnMarcha("ocuparOtro")
    /\ Actual.punteroIn + Actual.cantidad_indirectos \in Unidades
    /\ AnotarIndirecto(i)

LEMMA FormasDeOcupar ==
    ASSUME Tipado, OcuparBloque \/ OcuparIndirecto
    PROVE  Cae \/ \E i \in Bloques \ bitmap : OcupaDirecto(i) \/ OcupaPuntero(i) \/ OcupaRanura(i)
  <1>1. PICK i : i = Min(Bloques \ bitmap)
    OBVIOUS
  <1>2. i \in Bloques \ bitmap
    BY <1>1, ElLibre DEF Tipado, OcuparBloque, OcuparIndirecto
  <1>3. CASE OcuparIndirecto
    BY <1>1, <1>2, <1>3 DEF OcuparIndirecto, OcupaRanura, AnotarIndirecto
  <1>4. CASE OcuparBloque
    BY <1>1, <1>2, <1>4
       DEF OcuparBloque, OcupaRanura, AnotarIndirecto, OcupaDirecto, OcupaPuntero, historia
  <1> QED
    BY <1>3, <1>4

\* What releasing a block takes and leaves.
LiberaRanura(x) ==
    /\ EnMarcha("liberar") /\ Actual.punteroIn # NADA
    /\ Actual.punteroIn + Actual.cantidad_indirectos - 1 \in Unidades
    /\ x = datos_bloques[Actual.punteroIn + Actual.cantidad_indirectos - 1]
    /\ UnidadesDe(x) \subseteq Unidades
    /\ LiberarIndirecto

LEMMA FormasDeLiberar ==
    ASSUME LiberarIndirecto
    PROVE  Cae \/ \E x : LiberaRanura(x)
  BY DEF LiberarIndirecto, LiberaRanura

LEMMA ModuloEnRango ==
    ASSUME NEW s \in Int
    PROVE  s % MODULO \in 0 .. MODULO - 1
  BY Constantes

LEMMA BloquesParaNatural ==
    ASSUME NEW s \in Nat
    PROVE  BloquesPara(s) \in Nat
  BY Constantes DEF BloquesPara

LEMMA TipadoAlInicio == Init => Tipado
  <1> SUFFICES ASSUME Init PROVE Tipado
    OBVIOUS
  <1>1. DOMAIN listaFCB = {} /\ DOMAIN directorio = {}
    BY DEF Init
  <1>2. pc = "esperar" /\ pedido = SinPedido /\ pedido.archivo = NADA
    BY DEF Init, SinPedido
  <1>3. pedido \in [archivo : Archivos \cup {NADA}, tamanio : 0 .. MODULO - 1, faltan : Nat]
    BY <1>2, Constantes DEF SinPedido
  <1>4. datos_bloques \in [Unidades -> Int]
    BY DEF Init, BLANCO
  <1>5. /\ bitmap = {} /\ caido = FALSE /\ reinicios = 0
        /\ recargados = {} /\ sano = TRUE /\ integro = TRUE /\ sinBloque = FALSE
    BY DEF Init
  <1>6. reinicios \in 0 .. MAX_REINICIOS
    BY <1>5, Constantes
  <1> QED
    BY <1>1, <1>2, <1>3, <1>4, <1>5, <1>6 DEF Tipado, Pasos

LEMMA TipadoAlCaer == Tipado /\ (Cae \/ UNCHANGED vars) => Tipado'
  <1>1. ASSUME Tipado, Cae PROVE Tipado'
    BY <1>1 DEF Tipado, Cae, discoVars, historia, Forma
  <1>2. ASSUME Tipado, UNCHANGED vars PROVE Tipado'
    BY <1>2 DEF Tipado, vars, discoVars, historia, Forma
  <1> QED
    BY <1>1, <1>2

LEMMA PonerEsFuncion ==
    ASSUME Tipado, NEW W, NEW v \in Int
    PROVE  PonerEn(W, v) \in [Unidades -> Int]
  BY DEF Tipado, PonerEn

\* One FCB in memory changes, and no block that is not in the bitmap is marked.
LEMMA TipadoConFCB ==
    ASSUME Tipado, pc # "esperar", NEW g, Forma(g), ConFCB(g),
           pc' \in {"guardar"} \cup Pasos, bitmap' \subseteq Bloques,
           datos_bloques' \in [Unidades -> Int], pc' \in Pasos => pc \in Pasos,
           sano' \in BOOLEAN, sinBloque' \in BOOLEAN,
           UNCHANGED <<directorio, pedido, caido, reinicios, recargados, integro>>
    PROVE  Tipado'
  <1>1. PICK a : a = pedido.archivo
    OBVIOUS
  <1>2. a \in DOMAIN listaFCB /\ listaFCB' = [listaFCB EXCEPT ![a] = g]
    BY <1>1 DEF Tipado, ConFCB
  <1>3. DOMAIN listaFCB' = DOMAIN listaFCB
    BY <1>2
  <1>4. \A b \in DOMAIN listaFCB' : Forma(listaFCB'[b]) /\ Forma(directorio[b])
    BY <1>2, <1>3 DEF Tipado
  <1>5. pc' # "esperar"
    BY DEF Pasos
  <1> QED
    BY <1>3, <1>4, <1>5 DEF Tipado, Forma

LEMMA TipadoEnUnPaso == Tipado /\ [Next]_vars => Tipado'
  <1> SUFFICES ASSUME Tipado, [Next]_vars PROVE Tipado'
    OBVIOUS
  <1> USE Constantes DEF EnMarcha, discoVars, historia
  <1>a. ASSUME pc # "esperar"
        PROVE  pedido.archivo \in DOMAIN listaFCB /\ Forma(Actual) /\ Actual \in FCBs
    BY <1>a DEF Tipado, Actual, Forma
  <1>1. ASSUME NEW a \in Archivos, Crear(a) PROVE Tipado'
    <2>1. /\ listaFCB' = Con(listaFCB, a, FCBNuevo) /\ directorio' = Con(directorio, a, FCBNuevo)
          /\ pc = "esperar"
          /\ UNCHANGED <<bitmap, datos_bloques, pc, pedido, caido, reinicios, historia>>
      BY <1>1 DEF Crear
    <2>2. Forma(FCBNuevo)
      BY DEF Forma, FCBNuevo, FCBs, NADA
    <2>3. DOMAIN listaFCB' = DOMAIN listaFCB \cup {a} /\ DOMAIN directorio' = DOMAIN listaFCB \cup {a}
      BY <2>1 DEF Con, Tipado
    <2>4. \A b \in DOMAIN listaFCB' : Forma(listaFCB'[b]) /\ Forma(directorio'[b])
      BY <2>1, <2>2, <2>3 DEF Con, Tipado
    <2> QED
      BY <2>1, <2>3, <2>4 DEF Tipado, Forma
  <1>2. ASSUME NEW a \in DOMAIN listaFCB, NEW t \in Tamanios, Truncar(a, t) PROVE Tipado'
    <2>1. PICK n, m : n = BloquesPara(t) /\ m = BloquesPara(listaFCB[a].tamanio)
      OBVIOUS
    <2>2. n \in Nat /\ m \in Nat /\ t \in 0 .. MODULO - 1
      BY <2>1, BloquesParaNatural, ArchivosAssumption DEF Tipado, Forma, FCBs
    <2>3. /\ pedido' = [archivo |-> a, tamanio |-> t, faltan |-> IF m > n THEN m - n ELSE n - m]
          /\ pc' = CASE m > n -> "liberar" [] m < n -> "ocupar" [] OTHER -> "guardar"
          /\ UNCHANGED <<listaFCB, discoVars, caido, reinicios, recargados, sano, integro, sinBloque>>
      BY <1>2, <2>1 DEF Truncar
    <2>4. /\ pc' \in {"liberar", "ocupar", "guardar"} /\ a \in Archivos /\ pedido'.archivo = a
          /\ pc' # "guardar" => pedido'.faltan # 0
          /\ pedido' \in [archivo : Archivos \cup {NADA}, tamanio : 0 .. MODULO - 1, faltan : Nat]
      BY <2>2, <2>3 DEF Tipado
    <2> QED
      BY <2>3, <2>4 DEF Tipado, Forma, Pasos
  <1>3. ASSUME NEW i \in Bloques \ bitmap, OcupaDirecto(i) PROVE Tipado'
    <2>1. PICK g : g = [Actual EXCEPT !.punteroDir = i * TAM_BLOQUE]
      OBVIOUS
    <2>2. Forma(g)
      BY <1>3, <1>a, <2>1, UnaBase DEF Forma, FCBs, OcupaDirecto
    <2> QED
      BY <1>3, <2>1, <2>2, TipadoConFCB DEF OcupaDirecto, Tipado, Pasos
  <1>4. ASSUME NEW i \in Bloques \ bitmap, OcupaPuntero(i) PROVE Tipado'
    <2>1. PICK g : g = [Actual EXCEPT !.punteroIn = i * TAM_BLOQUE]
      OBVIOUS
    <2>2. Forma(g)
      BY <1>4, <1>a, <2>1, UnaBase DEF Forma, FCBs, OcupaPuntero
    <2> QED
      BY <1>4, <2>1, <2>2, TipadoConFCB DEF OcupaPuntero, Tipado, Pasos
  <1>5. ASSUME NEW i \in Bloques \ bitmap, OcupaRanura(i) PROVE Tipado'
    <2>1. PICK g, w : /\ g = [Actual EXCEPT !.cantidad_indirectos = @ + 1]
                      /\ w = {Actual.punteroIn + Actual.cantidad_indirectos}
      OBVIOUS
    <2>2. Forma(g)
      BY <1>5, <1>a, <2>1 DEF Forma, FCBs, OcupaRanura
    <2>3. PonerEn(w, i * TAM_BLOQUE) \in [Unidades -> Int]
      BY UnaBase, PonerEsFuncion
    <2> QED
      BY <1>5, <2>1, <2>2, <2>3, TipadoConFCB DEF OcupaRanura, AnotarIndirecto, Tipado, Pasos
  <1>6. ASSUME NoHayIndirecto PROVE Tipado'
    BY <1>6 DEF NoHayIndirecto, Tipado, Pasos, Forma
  <1>7. ASSUME NoHayBloque PROVE Tipado'
    BY <1>7 DEF NoHayBloque, Tipado, Pasos, Forma, SinPedido, NADA
  <1>8. ASSUME NEW x, LiberaRanura(x) PROVE Tipado'
    <2>1. PICK f, c, p, t, w :
             /\ f = Actual /\ c = f.cantidad_indirectos - 1
             /\ p = IF f.cantidad_indirectos = 1 THEN NADA ELSE f.punteroIn
             /\ t = (f.tamanio - TAM_BLOQUE) % MODULO
             /\ w = UnidadesDe(x) \cup {f.punteroIn + f.cantidad_indirectos - 1}
      OBVIOUS
    <2>2. pc = "liberar" /\ Forma(f) /\ f.punteroIn # NADA
      BY <1>8, <1>a, <2>1 DEF LiberaRanura
    <2>3. t \in 0 .. MODULO - 1
      BY <2>1, <2>2, ModuloEnRango DEF Forma, FCBs
    <2>4. PICK g : g = [f EXCEPT !.punteroIn = p, !.cantidad_indirectos = c, !.tamanio = t]
      OBVIOUS
    <2>5. /\ g \in FCBs /\ g.punteroDir = f.punteroDir
          /\ g.punteroIn = p
      <3>1. p \in Int /\ c \in Int
        BY <2>1, <2>2 DEF Forma, FCBs, NADA
      <3> QED
        BY <2>2, <2>3, <2>4, <3>1 DEF Forma, FCBs
    <2>6. Forma(g)
      BY <2>1, <2>2, <2>5 DEF Forma
    <2>7. PonerEn(w, BLANCO) \in [Unidades -> Int]
      BY PonerEsFuncion DEF BLANCO
    <2>8. ConFCB(g) /\ datos_bloques' = PonerEn(w, BLANCO)
      BY <1>8, <2>1, <2>4 DEF LiberaRanura, LiberarIndirecto
    <2>9. /\ pc' = "asentarLiberado" /\ sano' \in BOOLEAN /\ bitmap' \subseteq bitmap
          /\ UNCHANGED <<directorio, pedido, caido, reinicios, recargados, integro, sinBloque>>
      BY <1>8 DEF LiberaRanura, LiberarIndirecto, Tipado
    <2> QED
      BY <2>2, <2>6, <2>7, <2>8, <2>9, TipadoConFCB DEF Tipado, Pasos
  <1>9. ASSUME LiberarDirecto, ~Cae PROVE Tipado'
    <2>1. PICK f, g, w : /\ f = Actual
                         /\ g = [f EXCEPT !.punteroDir = NADA, !.tamanio = (@ - TAM_BLOQUE) % MODULO]
                         /\ w = UnidadesDe(f.punteroDir)
      OBVIOUS
    <2>2. pc = "liberar" /\ Forma(f) /\ f.punteroIn = NADA
      BY <1>9, <1>a, <2>1 DEF LiberarDirecto
    <2>3. (f.tamanio - TAM_BLOQUE) % MODULO \in 0 .. MODULO - 1
      BY <2>2, ModuloEnRango DEF Forma, FCBs
    <2>4. Forma(g)
      BY <2>1, <2>2, <2>3 DEF Forma, FCBs
    <2>5. PonerEn(w, BLANCO) \in [Unidades -> Int]
      BY PonerEsFuncion DEF BLANCO
    <2>6. /\ datos_bloques' = PonerEn(w, BLANCO) /\ ConFCB(g) /\ pc' = "asentarLiberado"
          /\ bitmap' \subseteq bitmap
          /\ UNCHANGED <<directorio, pedido, caido, reinicios, recargados, sano, integro, sinBloque>>
      BY <1>9, <2>1, <2>2 DEF LiberarDirecto
    <2> QED
      BY <2>2, <2>4, <2>5, <2>6, TipadoConFCB DEF Tipado, Pasos
  <1>10. ASSUME NEW donde \in {"asentar", "asentarLiberado"}, NEW bucle \in {"ocupar", "liberar"},
                Asentar(donde, bucle)
         PROVE  Tipado'
    <2>1. PICK a, f, n : a = pedido.archivo /\ f = Actual /\ n = pedido.faltan - 1
      OBVIOUS
    <2>2. /\ pc \in Pasos /\ a \in DOMAIN listaFCB /\ Forma(f) /\ n \in Nat
          /\ a \in DOMAIN directorio
      BY <1>10, <1>a, <2>1 DEF Asentar, Tipado, Pasos
    <2>3. /\ directorio' = [directorio EXCEPT ![a] = f]
          /\ pedido' = [pedido EXCEPT !.faltan = n]
          /\ pc' = IF pedido.faltan = 1 THEN "guardar" ELSE bucle
          /\ UNCHANGED <<listaFCB, bitmap, datos_bloques, caido, reinicios, historia>>
      BY <1>10, <2>1 DEF Asentar
    <2>4. \A b \in DOMAIN listaFCB' : Forma(listaFCB'[b]) /\ Forma(directorio'[b])
      BY <2>2, <2>3 DEF Tipado
    <2>5. /\ pedido' \in [archivo : Archivos \cup {NADA}, tamanio : 0 .. MODULO - 1, faltan : Nat]
          /\ pedido'.archivo = a /\ pedido'.faltan = n
      BY <2>1, <2>2, <2>3 DEF Tipado
    <2>6. pc' \in {"guardar", "ocupar", "liberar"} /\ (pc' # "guardar" => n # 0)
      BY <2>1, <2>2, <2>3 DEF Tipado
    <2> QED
      BY <2>2, <2>3, <2>4, <2>5, <2>6 DEF Tipado, Pasos, Forma
  <1>11. ASSUME Guardar PROVE Tipado'
    <2>1. PICK a, t, f, d : /\ a = pedido.archivo /\ t = pedido.tamanio
                            /\ f = Actual /\ d = directorio[a]
      OBVIOUS
    <2>2. /\ a \in DOMAIN listaFCB /\ t \in 0 .. MODULO - 1 /\ Forma(f) /\ Forma(d)
          /\ a \in DOMAIN directorio
      BY <1>11, <1>a, <2>1 DEF Guardar, Tipado
    <2>3. /\ listaFCB' = [listaFCB EXCEPT ![a] = [f EXCEPT !.tamanio = t]]
          /\ directorio' = [directorio EXCEPT ![a] = [d EXCEPT !.tamanio = t]]
          /\ pc' = "esperar" /\ pedido' = SinPedido
          /\ UNCHANGED <<bitmap, datos_bloques, caido, reinicios, historia>>
      BY <1>11, <2>1, <2>2 DEF Guardar, ConFCB
    <2>4. Forma([f EXCEPT !.tamanio = t]) /\ Forma([d EXCEPT !.tamanio = t])
      BY <2>2 DEF Forma, FCBs
    <2>5. \A b \in DOMAIN listaFCB' : Forma(listaFCB'[b]) /\ Forma(directorio'[b])
      BY <2>2, <2>3, <2>4 DEF Tipado
    <2> QED
      BY <2>2, <2>3, <2>5 DEF Tipado, Pasos, Forma, SinPedido, NADA
  <1>12. ASSUME NEW a \in DOMAIN listaFCB, NEW acceso \in Accesos, NEW dato \in {DATO, OBSERVADO},
                Escribir(a, acceso, dato)
         PROVE  Tipado'
    <2>1. dato \in Int
      BY DEF DATO, OBSERVADO
    <2>2. /\ datos_bloques' \in [Unidades -> Int] /\ sano' \in BOOLEAN
          /\ UNCHANGED <<listaFCB, directorio, bitmap, pc, pedido, caido, reinicios, recargados,
                         integro, sinBloque>>
      BY <1>12, <2>1, PonerEsFuncion DEF Escribir, Tipado
    <2> QED
      BY <2>2 DEF Tipado, Forma
  <1>13. ASSUME Reiniciar PROVE Tipado'
    <2>1. PICK cuenta \in [DOMAIN directorio -> 0 .. TAM_BLOQUE] :
             listaFCB' = [a \in DOMAIN directorio |->
                             [directorio[a] EXCEPT !.cantidad_indirectos = cuenta[a]]]
      BY <1>13 DEF Reiniciar
    <2>2. /\ recargados' = DOMAIN directorio /\ pc' = "esperar" /\ pedido' = SinPedido
          /\ reinicios' = reinicios + 1 /\ reinicios < MAX_REINICIOS
          /\ integro' \in BOOLEAN /\ sano' \in BOOLEAN
          /\ UNCHANGED <<discoVars, caido, sinBloque, observado>>
      BY <1>13 DEF Reiniciar
    <2>3. ASSUME NEW b \in DOMAIN directorio PROVE Forma(listaFCB'[b])
      <3>1. PICK d, n : d = directorio[b] /\ n = cuenta[b]
        OBVIOUS
      <3>2. Forma(d) /\ n \in Int /\ listaFCB'[b] = [d EXCEPT !.cantidad_indirectos = n]
        BY <2>1, <3>1 DEF Tipado
      <3> QED
        BY <3>2 DEF Forma, FCBs
    <2> QED
      BY <2>1, <2>2, <2>3 DEF Tipado, Pasos, Forma, SinPedido, NADA
  <1>14. ASSUME Cae \/ UNCHANGED vars PROVE Tipado'
    BY <1>14, TipadoAlCaer
  <1>15. ASSUME NEW a \in DOMAIN listaFCB, NEW acceso \in Accesos,
                Escribe(a, acceso) \/ SalirDeLosBloques(a, acceso)
         PROVE  Tipado'
    BY <1>12, <1>14, <1>15 DEF Escribe, SalirDeLosBloques
  <1>16. ASSUME OcuparBloque \/ OcuparIndirecto PROVE Tipado'
    BY <1>3, <1>4, <1>5, <1>14, <1>16, FormasDeOcupar
  <1>17. ASSUME LiberarIndirecto PROVE Tipado'
    BY <1>8, <1>14, <1>17, FormasDeLiberar
  <1> QED
    BY <1>1, <1>2, <1>6, <1>7, <1>9, <1>10, <1>11, <1>13, <1>14, <1>15, <1>16, <1>17
       DEF Next, AsentarOcupado, AsentarLiberado
-----------------------------------------------------------------------------
(* What is on disk *)

\* The step changes one FCB in memory, which waits to be saved.
LEMMA SincronizadoPorAsentar ==
    ASSUME Tipado, Sincronizado, pc \in Pasos, NEW g, ConFCB(g),
           pc' \in {"ocuparOtro", "asentar", "asentarLiberado"},
           UNCHANGED <<directorio, pedido, recargados>>
    PROVE  Sincronizado'
  <1>1. DOMAIN listaFCB' = DOMAIN listaFCB
    BY DEF ConFCB
  <1>2. \A b \in DOMAIN listaFCB : b # pedido.archivo => listaFCB'[b] = listaFCB[b] /\ ~PorAsentar(b)
    BY DEF ConFCB, PorAsentar
  <1>3. \A b \in DOMAIN listaFCB : b # pedido.archivo => Igual(b)'
    BY <1>2 DEF Sincronizado, Igual
  <1> QED
    BY <1>1, <1>3 DEF Sincronizado, PorAsentar

LEMMA SincronizadoIgual ==
    ASSUME Sincronizado, UNCHANGED <<listaFCB, directorio, recargados>>,
           \A b : PorAsentar(b) => PorAsentar(b)'
    PROVE  Sincronizado'
  BY DEF Sincronizado, Igual

LEMMA SincronizadoEnUnPaso == FcbInv /\ [Next]_vars => Sincronizado'
  <1> SUFFICES ASSUME Tipado, Sincronizado, [Next]_vars PROVE Sincronizado'
    BY DEF FcbInv
  <1> USE DEF EnMarcha, discoVars, historia
  <1>1. ASSUME NEW a \in Archivos, Crear(a) PROVE Sincronizado'
    <2>1. /\ listaFCB' = Con(listaFCB, a, FCBNuevo) /\ directorio' = Con(directorio, a, FCBNuevo)
          /\ pc = "esperar" /\ a \notin DOMAIN listaFCB /\ UNCHANGED <<pc, pedido, recargados>>
      BY <1>1 DEF Crear
    <2>2. \A b \in DOMAIN listaFCB' : \/ b \in DOMAIN listaFCB /\ listaFCB'[b] = listaFCB[b]
                                         /\ directorio'[b] = directorio[b]
                                      \/ directorio'[b] = listaFCB'[b]
      BY <2>1 DEF Con, Tipado
    <2>3. \A b \in DOMAIN listaFCB : Igual(b)
      BY <2>1 DEF Sincronizado, PorAsentar
    <2> QED
      BY <2>1, <2>2, <2>3 DEF Sincronizado, Igual
  <1>2. ASSUME NEW a \in DOMAIN listaFCB, NEW t \in Tamanios, Truncar(a, t) PROVE Sincronizado'
    <2>1. pc = "esperar" /\ UNCHANGED <<listaFCB, directorio, recargados>>
      BY <1>2 DEF Truncar
    <2> QED
      BY <2>1, SincronizadoIgual DEF PorAsentar
  <1>3. ASSUME NEW i \in Bloques \ bitmap, OcupaDirecto(i) \/ OcupaPuntero(i) \/ OcupaRanura(i)
        PROVE  Sincronizado'
    <2>1. \E g : ConFCB(g)
      BY <1>3 DEF OcupaDirecto, OcupaPuntero, OcupaRanura, AnotarIndirecto
    <2>2. /\ pc \in Pasos /\ pc' \in {"ocuparOtro", "asentar", "asentarLiberado"}
          /\ UNCHANGED <<directorio, pedido, recargados>>
      BY <1>3 DEF OcupaDirecto, OcupaPuntero, OcupaRanura, AnotarIndirecto, Pasos
    <2> QED
      BY <2>1, <2>2, SincronizadoPorAsentar
  <1>6. ASSUME NoHayIndirecto PROVE Sincronizado'
    BY <1>6, SincronizadoIgual DEF NoHayIndirecto, PorAsentar
  <1>7. ASSUME NoHayBloque PROVE Sincronizado'
    BY <1>7, SincronizadoIgual DEF NoHayBloque, PorAsentar
  <1>8. ASSUME NEW x, LiberaRanura(x) PROVE Sincronizado'
    <2>1. \E g : ConFCB(g)
      BY <1>8 DEF LiberaRanura, LiberarIndirecto
    <2>2. /\ pc \in Pasos /\ pc' \in {"ocuparOtro", "asentar", "asentarLiberado"}
          /\ UNCHANGED <<directorio, pedido, recargados>>
      BY <1>8 DEF LiberaRanura, LiberarIndirecto, Pasos
    <2> QED
      BY <2>1, <2>2, SincronizadoPorAsentar
  <1>9. ASSUME LiberarDirecto, ~Cae PROVE Sincronizado'
    <2>1. \E g : ConFCB(g)
      BY <1>9 DEF LiberarDirecto
    <2>2. /\ pc \in Pasos /\ pc' \in {"ocuparOtro", "asentar", "asentarLiberado"}
          /\ UNCHANGED <<directorio, pedido, recargados>>
      BY <1>9 DEF LiberarDirecto, Pasos
    <2> QED
      BY <2>1, <2>2, SincronizadoPorAsentar
  <1>10. ASSUME NEW donde \in {"asentar", "asentarLiberado"}, NEW bucle \in {"ocupar", "liberar"},
                Asentar(donde, bucle)
         PROVE  Sincronizado'
    <2>1. PICK a, n : a = pedido.archivo /\ n = pedido.faltan - 1
      OBVIOUS
    <2>2. /\ directorio' = [directorio EXCEPT ![a] = listaFCB[a]]
          /\ pc \in {"asentar", "asentarLiberado"} /\ UNCHANGED <<listaFCB, recargados>>
      BY <1>10, <2>1 DEF Asentar, Actual
    <2>3. a \in DOMAIN listaFCB /\ a \in DOMAIN directorio
      BY <2>1, <2>2 DEF Tipado
    <2>4. \A b \in DOMAIN listaFCB : b # a => Igual(b) /\ directorio'[b] = directorio[b]
      BY <2>1, <2>2, <2>3 DEF Sincronizado, PorAsentar, Tipado
    <2>5. directorio'[a] = listaFCB'[a]
      BY <2>2, <2>3
    <2> QED
      BY <2>2, <2>4, <2>5 DEF Sincronizado, Igual
  <1>11. ASSUME Guardar PROVE Sincronizado'
    <2>1. PICK a, t, f, d : /\ a = pedido.archivo /\ t = pedido.tamanio
                            /\ f = listaFCB[a] /\ d = directorio[a]
      OBVIOUS
    <2>2. /\ a \in DOMAIN listaFCB /\ f \in FCBs /\ d \in FCBs /\ t \in 0 .. MODULO - 1
          /\ a \in DOMAIN directorio
      BY <1>11, <2>1 DEF Guardar, Tipado, Forma
    <2>3. /\ listaFCB' = [listaFCB EXCEPT ![a] = [f EXCEPT !.tamanio = t]]
          /\ directorio' = [directorio EXCEPT ![a] = [d EXCEPT !.tamanio = t]]
          /\ pc = "guardar" /\ UNCHANGED recargados
      BY <1>11, <2>1, <2>2 DEF Guardar, ConFCB, Actual
    <2>4. \A b \in DOMAIN listaFCB : Igual(b)
      BY <2>3 DEF Sincronizado, PorAsentar
    <2>5. ASSUME NEW b \in DOMAIN listaFCB, b # a PROVE Igual(b)'
      <3>1. listaFCB'[b] = listaFCB[b] /\ directorio'[b] = directorio[b] /\ Igual(b)
        BY <2>2, <2>3, <2>4, <2>5 DEF Tipado
      <3> QED
        BY <2>3, <3>1 DEF Igual
    <2>6. listaFCB'[a] = [f EXCEPT !.tamanio = t] /\ directorio'[a] = [d EXCEPT !.tamanio = t]
      BY <2>2, <2>3
    <2>7. d = f \/ (a \in recargados /\ SalvoLaCuenta(d, f))
      BY <2>1, <2>2, <2>4 DEF Igual
    <2>8. Igual(a)'
      <3>1. CASE d = f
        BY <2>6, <3>1 DEF Igual
      <3>2. CASE a \in recargados /\ SalvoLaCuenta(d, f)
        <4>1. PICK f1, d1 : f1 = [f EXCEPT !.tamanio = t] /\ d1 = [d EXCEPT !.tamanio = t]
          OBVIOUS
        <4>2. f1 \in FCBs /\ d1 \in FCBs
          BY <2>2, <4>1 DEF FCBs
        <4>3. /\ d1.tamanio = f1.tamanio /\ d1.punteroDir = f1.punteroDir
              /\ d1.punteroIn = f1.punteroIn
          BY <2>2, <3>2, <4>1 DEF FCBs, SalvoLaCuenta
        <4>4. SalvoLaCuenta(d1, f1)
          BY <4>2, <4>3 DEF FCBs, SalvoLaCuenta
        <4> QED
          BY <2>3, <2>6, <3>2, <4>1, <4>4 DEF Igual
      <3> QED
        BY <2>7, <3>1, <3>2
    <2> QED
      BY <2>3, <2>5, <2>8 DEF Sincronizado
  <1>12. ASSUME NEW a \in DOMAIN listaFCB, NEW acceso \in Accesos, NEW dato \in {DATO, OBSERVADO},
                Escribir(a, acceso, dato)
         PROVE  Sincronizado'
    BY <1>12, SincronizadoIgual DEF Escribir, PorAsentar
  <1>13. ASSUME Reiniciar PROVE Sincronizado'
    <2>1. PICK cuenta \in [DOMAIN directorio -> 0 .. TAM_BLOQUE] :
             listaFCB' = [a \in DOMAIN directorio |->
                             [directorio[a] EXCEPT !.cantidad_indirectos = cuenta[a]]]
      BY <1>13 DEF Reiniciar
    <2>2. recargados' = DOMAIN directorio /\ UNCHANGED directorio
      BY <1>13 DEF Reiniciar
    <2>3. ASSUME NEW b \in DOMAIN directorio PROVE Igual(b)'
      <3>1. PICK d, f, n : d = directorio[b] /\ n = cuenta[b] /\ f = listaFCB'[b]
        OBVIOUS
      <3>2. d \in FCBs /\ n \in Int /\ f = [d EXCEPT !.cantidad_indirectos = n]
        BY <2>1, <3>1, Constantes DEF Tipado, Forma
      <3>3. SalvoLaCuenta(d, f)
        BY <3>2 DEF FCBs, SalvoLaCuenta
      <3> QED
        BY <2>2, <3>1, <3>3 DEF Igual
    <2> QED
      BY <2>1, <2>3 DEF Sincronizado
  <1>14. ASSUME Cae \/ UNCHANGED vars PROVE Sincronizado'
    BY <1>14, SincronizadoIgual DEF Cae, vars, PorAsentar
  <1>15. ASSUME NEW a \in DOMAIN listaFCB, NEW acceso \in Accesos,
                Escribe(a, acceso) \/ SalirDeLosBloques(a, acceso)
         PROVE  Sincronizado'
    BY <1>12, <1>14, <1>15 DEF Escribe, SalirDeLosBloques
  <1>16. ASSUME OcuparBloque \/ OcuparIndirecto PROVE Sincronizado'
    BY <1>3, <1>14, <1>16, FormasDeOcupar
  <1>17. ASSUME LiberarIndirecto PROVE Sincronizado'
    BY <1>8, <1>14, <1>17, FormasDeLiberar
  <1> QED
    BY <1>1, <1>2, <1>6, <1>7, <1>9, <1>10, <1>11, <1>13, <1>14, <1>15, <1>16, <1>17
       DEF Next, AsentarOcupado, AsentarLiberado

LEMMA SiempreFcbInv == Spec => []FcbInv
  <1>1. Init => FcbInv
    <2>1. Init => Sincronizado
      BY DEF Init, Sincronizado
    <2> QED
      BY <2>1, TipadoAlInicio DEF FcbInv
  <1>2. FcbInv /\ [Next]_vars => FcbInv'
    BY TipadoEnUnPaso, SincronizadoEnUnPaso DEF FcbInv
  <1> QED
    BY <1>1, <1>2, PTL DEF Spec

\* Every variable keeps its type, and a file has its FCB in memory exactly when it has it on disk.
THEOREM Tipos == Spec => []TypeOK
  <1>1. FcbInv => TypeOK
    BY DEF FcbInv, Tipado, TypeOK, Forma, Pasos
  <1> QED
    BY <1>1, SiempreFcbInv, PTL

\* The FCB on disk is the one in memory between any two requests, whatever truncation failed.
THEOREM SiempreEnDisco == Spec => []FcbEnDisco
  <1>1. FcbInv => FcbEnDisco
    BY DEF FcbInv, Sincronizado, FcbEnDisco, Igual, PorAsentar, SalvoLaCuenta
  <1> QED
    BY <1>1, SiempreFcbInv, PTL
-----------------------------------------------------------------------------
(* The blocks of a file, and where a range of it is *)

LEMMA DivisionDelRango ==
    ASSUME NEW p \in Nat, NEW b \in 1 .. TAM_BLOQUE
    PROVE  /\ p \div TAM_BLOQUE \in Nat /\ p % TAM_BLOQUE \in 0 .. TAM_BLOQUE - 1
           /\ (p % TAM_BLOQUE) + b < TAM_BLOQUE => (p + b) \div TAM_BLOQUE = p \div TAM_BLOQUE
           /\ (p % TAM_BLOQUE) + b >= TAM_BLOQUE => (p + b) \div TAM_BLOQUE = p \div TAM_BLOQUE + 1
  <1>1. PICK n, o : n = p \div TAM_BLOQUE /\ o = p % TAM_BLOQUE
    OBVIOUS
  <1>2. n \in Nat /\ o \in 0 .. TAM_BLOQUE - 1 /\ p = TAM_BLOQUE * n + o
    BY <1>1, Constantes
  <1>3. ASSUME o + b < TAM_BLOQUE PROVE (p + b) \div TAM_BLOQUE = n
    <2>1. p + b = TAM_BLOQUE * n + (o + b) /\ o + b \in 0 .. TAM_BLOQUE - 1
      BY <1>2, <1>3, Constantes
    <2> QED
      BY <1>2, <2>1, Constantes
  <1>4. ASSUME o + b >= TAM_BLOQUE PROVE (p + b) \div TAM_BLOQUE = n + 1
    <2>1. p + b = TAM_BLOQUE * (n + 1) + (o + b - TAM_BLOQUE)
      BY <1>2, Constantes
    <2>2. o + b - TAM_BLOQUE \in 0 .. TAM_BLOQUE - 1
      BY <1>2, <1>4, Constantes
    <2> QED
      BY <1>2, <2>1, <2>2, Constantes
  <1> QED
    BY <1>1, <1>2, <1>3, <1>4

LEMMA CuantosNatural ==
    ASSUME NEW f, Forma(f), Contado(f)
    PROVE  Cuantos(f) \in Nat
  BY Constantes DEF Cuantos, Forma, FCBs, Contado

\* The n-th block of a file is in the place n - 1: the direct one is in -1.
LEMMA PunteroDelBloque ==
    ASSUME NEW f, Forma(f), Contado(f), NEW n \in Nat, n < Cuantos(f)
    PROVE  Nombra(f, n - 1, PunteroDeBloque(f, n))
  <1>1. CASE n = 0
    <2>1. f.punteroDir # NADA
      BY <1>1 DEF Cuantos, Forma
    <2> QED
      BY <1>1, <2>1 DEF Nombra, PunteroDeBloque, DIR
  <1>2. CASE n # 0
    <2>1. /\ f.punteroIn # NADA /\ f.punteroDir # NADA /\ f.cantidad_indirectos \in 0 .. TAM_BLOQUE
          /\ n - 1 \in 0 .. f.cantidad_indirectos - 1 /\ f.punteroIn \in LasBases
      BY <1>2, Constantes DEF Cuantos, Forma, Contado
    <2>2. n - 1 \in 0 .. TAM_BLOQUE - 1 /\ f.punteroIn \in Nat
      BY <2>1, LasUnidades, Constantes
    <2>3. f.punteroIn + (n - 1) \in Unidades /\ f.punteroIn + (n - 1) = f.punteroIn + n - 1
      BY <2>1, <2>2, LasUnidades
    <2> QED
      BY <1>2, <2>1, <2>3 DEF Nombra, PunteroDeBloque
  <1> QED
    BY <1>1, <1>2

LEMMA DestinoEnBloques ==
    ASSUME NEW f, NEW ac, Forma(f), Contado(f), ac.puntero \in Nat, ac.bytes \in 1 .. TAM_BLOQUE,
           Cabe(f, ac), \A l, x : Nombra(f, l, x) => x \in LasBases,
           NEW u \in Destino(f, ac)
    PROVE  \E l, x : Nombra(f, l, x) /\ l # IND /\ x \in LasBases /\ u \in UnidadesDe(x)
  <1>1. PICK n, o, b : /\ n = ac.puntero \div TAM_BLOQUE /\ o = ac.puntero % TAM_BLOQUE
                       /\ b = ac.bytes
    OBVIOUS
  <1>2. /\ n \in Nat /\ o \in 0 .. TAM_BLOQUE - 1 /\ b \in 1 .. TAM_BLOQUE
        /\ o + b < TAM_BLOQUE => n < Cuantos(f)
        /\ o + b >= TAM_BLOQUE => n + 1 < Cuantos(f)
    BY <1>1, DivisionDelRango DEF Cabe
  <1>3. n < Cuantos(f)
    BY <1>2, CuantosNatural, Constantes
  <1>4. PICK y, z : y = PunteroDeBloque(f, n) /\ z = PunteroDeBloque(f, n + 1)
    OBVIOUS
  <1>5. Nombra(f, n - 1, y) /\ n - 1 # IND /\ y \in LasBases /\ y \in Nat
    BY <1>2, <1>3, <1>4, PunteroDelBloque, LasUnidades DEF IND
  <1>6. CASE o + b < TAM_BLOQUE
    <2>1. u \in (y + o) .. (y + o + b - 1)
      BY <1>1, <1>2, <1>4, <1>5, <1>6, Constantes DEF Destino
    <2>2. u \in UnidadesDe(y)
      BY <1>2, <1>5, <1>6, <2>1, Constantes DEF UnidadesDe
    <2> QED
      BY <1>5, <2>2
  <1>7. CASE o + b >= TAM_BLOQUE
    <2>1. Nombra(f, n, z) /\ n # IND /\ z \in LasBases /\ z \in Nat
      <3>1. Nombra(f, (n + 1) - 1, z)
        BY <1>2, <1>4, <1>7, PunteroDelBloque
      <3>2. (n + 1) - 1 = n
        BY <1>2
      <3> QED
        BY <1>2, <3>1, <3>2, LasUnidades DEF IND
    <2>2. PICK e : e = o + b - TAM_BLOQUE + 1
      OBVIOUS
    <2>3. \/ u \in (y + o) .. ((y + o) + b - e - 1)
          \/ u \in z .. (z + e - 1)
      BY <1>1, <1>2, <1>4, <1>7, <2>2, Constantes DEF Destino
    <2>4. u \in UnidadesDe(y) \/ u \in UnidadesDe(z)
      BY <1>2, <1>5, <1>7, <2>1, <2>2, <2>3, Constantes DEF UnidadesDe
    <2> QED
      BY <1>5, <2>1, <2>4
  <1> QED
    BY <1>2, <1>6, <1>7, Constantes

\* g names what f names, where f has it.
Coincide(f, g) ==
    /\ f.punteroDir # NADA => g.punteroDir = f.punteroDir
    /\ f.punteroIn # NADA => g.punteroIn = f.punteroIn

LEMMA DestinoIgual ==
    ASSUME NEW f, NEW g, NEW ac, Forma(f), Contado(f), ac.puntero \in Nat,
           ac.bytes \in 1 .. TAM_BLOQUE, Cabe(f, ac), Coincide(f, g)
    PROVE  Destino(g, ac) = Destino(f, ac)
  <1>1. PICK n, o, b : /\ n = ac.puntero \div TAM_BLOQUE /\ o = ac.puntero % TAM_BLOQUE
                       /\ b = ac.bytes
    OBVIOUS
  <1>2. /\ n \in Nat /\ o \in 0 .. TAM_BLOQUE - 1 /\ b \in 1 .. TAM_BLOQUE
        /\ o + b < TAM_BLOQUE => n < Cuantos(f)
        /\ o + b >= TAM_BLOQUE => n + 1 < Cuantos(f)
    BY <1>1, DivisionDelRango DEF Cabe
  <1>3. n < Cuantos(f)
    BY <1>2, CuantosNatural, Constantes
  <1>4. ASSUME NEW m \in Nat, m < Cuantos(f) PROVE PunteroDeBloque(g, m) = PunteroDeBloque(f, m)
    <2>1. f.punteroDir # NADA /\ (m # 0 => f.punteroIn # NADA)
      BY <1>4, Constantes DEF Cuantos, Forma, Contado
    <2> QED
      BY <2>1 DEF PunteroDeBloque, Coincide
  <1>5. /\ PunteroDeBloque(g, n) = PunteroDeBloque(f, n)
        /\ o + b >= TAM_BLOQUE => PunteroDeBloque(g, n + 1) = PunteroDeBloque(f, n + 1)
    BY <1>2, <1>3, <1>4
  <1> QED
    BY <1>1, <1>5 DEF Destino

LEMMA DestinoQuieto ==
    ASSUME NEW f, NEW g, NEW ac, Forma(f), Contado(f), ac.puntero \in Nat,
           ac.bytes \in 1 .. TAM_BLOQUE, Cabe(f, ac), Coincide(f, g),
           \A k \in 0 .. f.cantidad_indirectos - 1 :
               f.punteroIn # NADA => datos_bloques'[f.punteroIn + k] = datos_bloques[f.punteroIn + k]
    PROVE  Destino(g, ac)' = Destino(f, ac)
  <1>1. PICK n, o, b : /\ n = ac.puntero \div TAM_BLOQUE /\ o = ac.puntero % TAM_BLOQUE
                       /\ b = ac.bytes
    OBVIOUS
  <1>2. /\ n \in Nat /\ o \in 0 .. TAM_BLOQUE - 1 /\ b \in 1 .. TAM_BLOQUE
        /\ o + b < TAM_BLOQUE => n < Cuantos(f)
        /\ o + b >= TAM_BLOQUE => n + 1 < Cuantos(f)
    BY <1>1, DivisionDelRango DEF Cabe
  <1>3. n < Cuantos(f)
    BY <1>2, CuantosNatural, Constantes
  <1>4. ASSUME NEW m \in Nat, m < Cuantos(f) PROVE PunteroDeBloque(g, m)' = PunteroDeBloque(f, m)
    <2>1. /\ f.punteroDir # NADA
          /\ m # 0 => f.punteroIn # NADA /\ m - 1 \in 0 .. f.cantidad_indirectos - 1
      BY <1>4, Constantes DEF Cuantos, Forma, Contado
    <2>2. CASE m = 0
      BY <2>1, <2>2 DEF PunteroDeBloque, Coincide
    <2>3. CASE m # 0
      <3>1. /\ g.punteroIn = f.punteroIn /\ f.punteroIn \in Int
            /\ f.punteroIn + (m - 1) = f.punteroIn + m - 1
            /\ datos_bloques'[f.punteroIn + (m - 1)] = datos_bloques[f.punteroIn + (m - 1)]
        BY <2>1, <2>3 DEF Coincide, Forma, FCBs
      <3> QED
        BY <2>3, <3>1 DEF PunteroDeBloque
    <2> QED
      BY <2>2, <2>3
  <1>5. /\ PunteroDeBloque(g, n)' = PunteroDeBloque(f, n)
        /\ o + b >= TAM_BLOQUE => PunteroDeBloque(g, n + 1)' = PunteroDeBloque(f, n + 1)
    BY <1>2, <1>3, <1>4
  <1> QED
    BY <1>1, <1>5 DEF Destino
-----------------------------------------------------------------------------
(* What an FCB has while every step found what it assumes *)

LEMMA ElVigente ==
    ASSUME BloquesInv, sano, NEW a \in DOMAIN listaFCB
    PROVE  /\ Forma(Vigente(a)) /\ Contado(Vigente(a))
           /\ Vigente(a).punteroDir = listaFCB[a].punteroDir
           /\ Vigente(a).punteroIn = listaFCB[a].punteroIn
           /\ Vigente(a).tamanio = listaFCB[a].tamanio
           /\ a \notin recargados \/ listaFCB[a].punteroIn = NADA => Vigente(a) = listaFCB[a]
           /\ Forma(directorio[a]) /\ Contado(directorio[a])
  <1>1. /\ Forma(listaFCB[a]) /\ Forma(directorio[a]) /\ Contado(Vigente(a))
        /\ Contado(directorio[a])
    BY DEF BloquesInv, FcbInv, Tipado, Sanidad, Contados
  <1>2. CASE a \notin recargados \/ listaFCB[a].punteroIn = NADA
    BY <1>1, <1>2 DEF Vigente
  <1>3. CASE a \in recargados /\ listaFCB[a].punteroIn # NADA
    <2>1. PICK f, d : f = listaFCB[a] /\ d = directorio[a]
      OBVIOUS
    <2>2. ~PorAsentar(a)
      BY <1>3 DEF BloquesInv, Sanidad, Momento, PorAsentar, Actual
    <2>3. d = f \/ SalvoLaCuenta(d, f)
      BY <2>1, <2>2 DEF BloquesInv, FcbInv, Sincronizado, Igual
    <2>4. f \in FCBs /\ d \in FCBs
      BY <1>1, <2>1 DEF Forma
    <2>5. /\ d.punteroDir = f.punteroDir /\ d.punteroIn = f.punteroIn /\ d.tamanio = f.tamanio
      BY <2>3, <2>4 DEF SalvoLaCuenta, FCBs
    <2>6. Vigente(a) = d
      BY <1>3, <2>1 DEF Vigente
    <2> QED
      BY <1>1, <1>3, <2>1, <2>5, <2>6
  <1> QED
    BY <1>2, <1>3

LEMMA ElDelDisco ==
    ASSUME BloquesInv, sano, NEW a \in DOMAIN listaFCB, ~PorAsentar(a)
    PROVE  /\ directorio[a].punteroDir = Vigente(a).punteroDir
           /\ directorio[a].punteroIn = Vigente(a).punteroIn
           /\ directorio[a].tamanio = Vigente(a).tamanio
           /\ Vigente(a).punteroIn # NADA =>
                 directorio[a].cantidad_indirectos = Vigente(a).cantidad_indirectos
           /\ Cuantos(directorio[a]) = Cuantos(Vigente(a))
           /\ \A l, x : EnDisco(a, l, x) <=> Tiene(a, l, x)
  <1>1. PICK f, d, v : f = listaFCB[a] /\ d = directorio[a] /\ v = Vigente(a)
    OBVIOUS
  <1>2. /\ f \in FCBs /\ d \in FCBs /\ a \in DOMAIN directorio
        /\ v = IF a \in recargados /\ f.punteroIn # NADA THEN d ELSE f
        /\ d = f \/ (a \in recargados /\ SalvoLaCuenta(d, f))
    BY <1>1 DEF BloquesInv, FcbInv, Sincronizado, Igual, Tipado, Forma, Vigente
  <1>3. /\ d.punteroDir = v.punteroDir /\ d.punteroIn = v.punteroIn /\ d.tamanio = v.tamanio
        /\ v.punteroIn # NADA => d.cantidad_indirectos = v.cantidad_indirectos
    BY <1>2 DEF SalvoLaCuenta, FCBs
  <1>4. Cuantos(d) = Cuantos(v)
    BY <1>3 DEF Cuantos
  <1>5. \A l, x : Nombra(d, l, x) <=> Nombra(v, l, x)
    BY <1>3 DEF Nombra
  <1> QED
    BY <1>1, <1>2, <1>3, <1>4, <1>5 DEF EnDisco, Tiene

LEMMA LoSuyo ==
    ASSUME BloquesInv, sano
    PROVE  /\ Bases \subseteq LasBases
           /\ \A a, l, x : Tiene(a, l, x) => x \in Bases /\ x \in LasBases
           /\ \A a, b, l, m, x : Tiene(a, l, x) /\ Tiene(b, m, x) => a = b /\ l = m
           /\ \A a, l, x : EnDisco(a, l, x) =>
                 Tiene(a, l, x) \/ (PorAsentar(a) /\ pc = "asentarLiberado")
           /\ \A a \in DOMAIN listaFCB : \A l, x : Nombra(Vigente(a), l, x) => x \in LasBases
  <1>1. Bases \subseteq LasBases
    BY DEF BloquesInv, FcbInv, Tipado, Bases, LasBases
  <1> QED
    BY <1>1 DEF BloquesInv, Sanidad, UnDuenio, DiscoContenido, Tiene

LEMMA VigenteQuieto ==
    ASSUME NEW b, listaFCB'[b] = listaFCB[b], directorio'[b] = directorio[b],
           b \in recargados' <=> b \in recargados
    PROVE  Vigente(b)' = Vigente(b)
  BY DEF Vigente

LEMMA NombraQuieto ==
    ASSUME NEW f,
           \A k \in 0 .. f.cantidad_indirectos - 1 :
               f.punteroIn # NADA => datos_bloques'[f.punteroIn + k] = datos_bloques[f.punteroIn + k]
    PROVE  \A l, x : Nombra(f, l, x)' <=> Nombra(f, l, x)
  BY DEF Nombra

\* The step writes on blocks of a0 alone.
EscribeEn(a0, W) == \A u \in W : \E l, y : Tiene(a0, l, y) /\ u \in UnidadesDe(y)
Quieto(W) == \A u \in Unidades : u \notin W => datos_bloques'[u] = datos_bloques[u]

LEMMA BloqueAjeno ==
    ASSUME BloquesInv, sano, NEW a0, NEW W, EscribeEn(a0, W), Quieto(W),
           NEW b, b # a0, NEW l, NEW y, Tiene(b, l, y)
    PROVE  \A u \in UnidadesDe(y) : u \notin W /\ datos_bloques'[u] = datos_bloques[u]
  <1> SUFFICES ASSUME NEW u \in UnidadesDe(y)
               PROVE  u \notin W /\ datos_bloques'[u] = datos_bloques[u]
    OBVIOUS
  <1>1. y \in LasBases
    BY LoSuyo
  <1>2. u \in Unidades
    BY <1>1, LasUnidades
  <1>3. ASSUME u \in W PROVE FALSE
    <2>1. PICK m, z : Tiene(a0, m, z) /\ u \in UnidadesDe(z)
      BY <1>3 DEF EscribeEn
    <2>2. z \in LasBases /\ z # y
      BY <2>1, LoSuyo
    <2> QED
      BY <1>1, <2>1, <2>2, Separadas
  <1> QED
    BY <1>2, <1>3 DEF Quieto

\* The slots of the pointer block p, when p is a block of b that is not written.
LEMMA RanurasAjenas ==
    ASSUME BloquesInv, sano, NEW a0, NEW W, EscribeEn(a0, W), Quieto(W),
           NEW b, b # a0, NEW f, Contado(f), Tiene(b, IND, f.punteroIn)
    PROVE  \A k \in 0 .. f.cantidad_indirectos - 1 :
               f.punteroIn # NADA => datos_bloques'[f.punteroIn + k] = datos_bloques[f.punteroIn + k]
  <1> SUFFICES ASSUME NEW k \in 0 .. f.cantidad_indirectos - 1, f.punteroIn # NADA
               PROVE  datos_bloques'[f.punteroIn + k] = datos_bloques[f.punteroIn + k]
    OBVIOUS
  <1>1. k \in 0 .. TAM_BLOQUE - 1 /\ f.punteroIn \in LasBases
    BY LoSuyo, Constantes DEF Contado
  <1>2. f.punteroIn + k \in UnidadesDe(f.punteroIn)
    BY <1>1, LasUnidades
  <1> QED
    BY <1>2, BloqueAjeno

LEMMA OtrosQuietos ==
    ASSUME BloquesInv, sano, NEW a0, NEW W, EscribeEn(a0, W), Quieto(W),
           DOMAIN listaFCB' = DOMAIN listaFCB,
           DOMAIN directorio' = DOMAIN directorio, recargados' = recargados,
           NEW b \in DOMAIN listaFCB, b # a0,
           listaFCB'[b] = listaFCB[b], directorio'[b] = directorio[b],
           ~(PorAsentar(b) /\ pc = "asentarLiberado")
    PROVE  /\ Vigente(b)' = Vigente(b)
           /\ \A l, x : Tiene(b, l, x)' <=> Tiene(b, l, x)
           /\ \A l, x : EnDisco(b, l, x)' <=> EnDisco(b, l, x)
  <1>1. PICK v, d : v = Vigente(b) /\ d = directorio[b]
    OBVIOUS
  <1>2. Vigente(b)' = v /\ directorio'[b] = d /\ b \in DOMAIN directorio
    BY <1>1, VigenteQuieto DEF BloquesInv, FcbInv, Tipado
  <1>3. Contado(v) /\ Contado(d)
    BY <1>1, ElVigente
  <1>4. \A l, x : Nombra(v, l, x)' <=> Nombra(v, l, x)
    <2>1. CASE v.punteroIn = NADA
      BY <2>1, NombraQuieto
    <2>2. CASE v.punteroIn # NADA
      <3>1. Tiene(b, IND, v.punteroIn)
        BY <1>1, <2>2 DEF Tiene, Nombra
      <3> QED
        BY <1>3, <3>1, RanurasAjenas, NombraQuieto
    <2> QED
      BY <2>1, <2>2
  <1>5. \A l, x : Nombra(d, l, x)' <=> Nombra(d, l, x)
    <2>1. CASE d.punteroIn = NADA
      BY <2>1, NombraQuieto
    <2>2. CASE d.punteroIn # NADA
      <3>1. EnDisco(b, IND, d.punteroIn)
        BY <1>1, <1>2, <2>2 DEF EnDisco, Nombra
      <3>2. Tiene(b, IND, d.punteroIn)
        BY <3>1, LoSuyo
      <3> QED
        BY <1>3, <3>2, RanurasAjenas, NombraQuieto
    <2> QED
      BY <2>1, <2>2
  <1>6. \A l, x : Tiene(b, l, x)' <=> Nombra(v, l, x)'
    BY <1>2 DEF Tiene
  <1>7. \A l, x : Tiene(b, l, x) <=> Nombra(v, l, x)
    BY <1>1 DEF Tiene
  <1>8. \A l, x : EnDisco(b, l, x)' <=> Nombra(d, l, x)'
    BY <1>2 DEF EnDisco
  <1>9. \A l, x : EnDisco(b, l, x) <=> Nombra(d, l, x)
    BY <1>1, <1>2 DEF EnDisco
  <1> QED
    BY <1>1, <1>2, <1>4, <1>5, <1>6, <1>7, <1>8, <1>9
-----------------------------------------------------------------------------
(* What a step must do to each part of the invariant *)

LEMMA UnDuenioCambia ==
    ASSUME BloquesInv, sano, NEW a0, NEW l0, NEW x0,
           \A a, l, x : Tiene(a, l, x)' =>
               x \in Bases' /\ (Tiene(a, l, x) \/ (a = a0 /\ l = l0 /\ x = x0 /\ x \notin Bases))
    PROVE  UnDuenio'
  <1>1. ASSUME NEW a, NEW b, NEW l, NEW m, NEW x, Tiene(a, l, x)', Tiene(b, m, x)'
        PROVE  a = b /\ l = m
    <2>1. Tiene(a, l, x) => x \in Bases
      BY LoSuyo
    <2>2. Tiene(b, m, x) => x \in Bases
      BY LoSuyo
    <2>3. /\ Tiene(a, l, x) \/ (a = a0 /\ l = l0 /\ x = x0 /\ x \notin Bases)
          /\ Tiene(b, m, x) \/ (b = a0 /\ m = l0 /\ x = x0 /\ x \notin Bases)
      BY <1>1
    <2> QED
      BY <2>1, <2>2, <2>3, LoSuyo
  <1>2. \A a, l, x : Tiene(a, l, x)' => x \in Bases'
    OBVIOUS
  <1> QED
    BY <1>1, <1>2 DEF UnDuenio

LEMMA NadaPerdidoCambia ==
    ASSUME BloquesInv, sano, integro' => integro,
           \A x \in Bases' : x \in Bases \/ \E a, l : Tiene(a, l, x)',
           \A a, l, x : Tiene(a, l, x) /\ x \in Bases' => Tiene(a, l, x)'
    PROVE  NadaPerdido'
  <1>1. integro => \A x \in Bases : \E a, l : Tiene(a, l, x)
    BY DEF BloquesInv, Sanidad, NadaPerdido
  <1>2. ASSUME integro', NEW x \in Bases' PROVE \E a, l : Tiene(a, l, x)'
    <2>1. CASE x \in Bases
      <3>1. PICK a, l : Tiene(a, l, x)
        BY <1>1, <1>2, <2>1
      <3>2. Tiene(a, l, x)'
        BY <1>2, <3>1
      <3> QED
        BY <3>2
    <2> QED
      BY <1>2, <2>1
  <1> QED
    BY <1>2 DEF NadaPerdido

LEMMA ConformeQuieto ==
    ASSUME NEW b, Conforme(b), Vigente(b)' = Vigente(b), ~EnCurso(b), ~EnCurso(b)'
    PROVE  Conforme(b)'
  <1>1. PICK v : v = Vigente(b)
    OBVIOUS
  <1>2. Vigente(b)' = v
    BY <1>1
  <1>3. /\ Cuantos(v) = BloquesPara(v.tamanio)
        /\ v.punteroIn # NADA => Cuantos(v) > 1
        /\ Cuantos(v) > 1 => v.punteroIn # NADA
    BY <1>1 DEF Conforme
  <1> QED
    BY <1>2, <1>3 DEF Conforme

LEMMA ObservadoSigue ==
    ASSUME BloquesInv, sano, observado # SinObservar, observado' = observado,
           NEW a, a = observado.archivo, a \in DOMAIN listaFCB',
           Coincide(Vigente(a), listaFCB'[a]),
           \A k \in 0 .. Vigente(a).cantidad_indirectos - 1 :
               Vigente(a).punteroIn # NADA =>
                   datos_bloques'[Vigente(a).punteroIn + k] = datos_bloques[Vigente(a).punteroIn + k],
           \A l, x : Tiene(a, l, x) /\ l # IND =>
               \A u \in UnidadesDe(x) : datos_bloques'[u] = datos_bloques[u],
           Cabe(Vigente(a), observado)', Cabe(directorio[a], observado)',
           ~(a = pedido'.archivo /\ pc' \in {"liberar", "asentarLiberado"})
    PROVE  ElObservado'
  <1>1. PICK v, g, o : v = Vigente(a) /\ g = listaFCB'[a] /\ o = observado
    OBVIOUS
  <1>2. /\ o.puntero \in Nat /\ o.bytes \in 1 .. TAM_BLOQUE /\ a \in DOMAIN listaFCB
        /\ Cabe(v, o)
        /\ \A u \in Destino(listaFCB[a], o) : datos_bloques[u] = OBSERVADO
    BY <1>1 DEF BloquesInv, Sanidad, ElObservado
  <1>3. /\ Forma(v) /\ Contado(v) /\ Coincide(v, listaFCB[a])
        /\ \A l, x : Nombra(v, l, x) => x \in LasBases
    BY <1>1, <1>2, ElVigente, LoSuyo DEF Coincide
  <1>4. Destino(listaFCB[a], o) = Destino(v, o)
    BY <1>2, <1>3, DestinoIgual
  <1>5. \A k \in 0 .. v.cantidad_indirectos - 1 :
            v.punteroIn # NADA => datos_bloques'[v.punteroIn + k] = datos_bloques[v.punteroIn + k]
    BY <1>1
  <1>6. Coincide(v, g)
    BY <1>1
  <1>7. Destino(g, o)' = Destino(v, o)
    BY <1>2, <1>3, <1>5, <1>6, DestinoQuieto
  <1>8. ASSUME NEW u \in Destino(v, o) PROVE datos_bloques'[u] = OBSERVADO
    <2>1. PICK l, x : Nombra(v, l, x) /\ l # IND /\ u \in UnidadesDe(x)
      BY <1>2, <1>3, <1>8, DestinoEnBloques
    <2>2. Tiene(a, l, x)
      BY <1>1, <1>2, <2>1 DEF Tiene
    <2>3. datos_bloques[u] = OBSERVADO
      BY <1>2, <1>4, <1>8
    <2> QED
      BY <2>1, <2>2, <2>3
  <1>9. \A u \in Destino(g, o)' : datos_bloques'[u] = OBSERVADO
    BY <1>7, <1>8
  <1>10. observado' = o /\ listaFCB'[a] = g /\ a = o.archivo
    BY <1>1
  <1> QED
    BY <1>2, <1>9, <1>10 DEF ElObservado

LEMMA ObservadoAjeno ==
    ASSUME BloquesInv, sano, observado # SinObservar, observado' = observado,
           NEW a0, NEW W, EscribeEn(a0, W), Quieto(W), observado.archivo # a0,
           DOMAIN listaFCB' = DOMAIN listaFCB,
           DOMAIN directorio' = DOMAIN directorio, recargados' = recargados,
           listaFCB'[observado.archivo] = listaFCB[observado.archivo],
           directorio'[observado.archivo] = directorio[observado.archivo],
           ~(observado.archivo = pedido'.archivo /\ pc' \in {"liberar", "asentarLiberado"})
    PROVE  ElObservado'
  <1>1. PICK a, v, d : a = observado.archivo /\ v = Vigente(a) /\ d = directorio[a]
    OBVIOUS
  <1>2. /\ a \in DOMAIN listaFCB /\ Cabe(v, observado) /\ Cabe(d, observado)
        /\ ~(PorAsentar(a) /\ pc = "asentarLiberado")
    BY <1>1 DEF BloquesInv, Sanidad, ElObservado, PorAsentar
  <1>3. Vigente(a)' = v /\ directorio'[a] = d
    BY <1>1, VigenteQuieto
  <1>4. Cabe(Vigente(a), observado)' /\ Cabe(directorio[a], observado)'
    BY <1>2, <1>3 DEF Cabe
  <1>5. Contado(v) /\ Coincide(v, listaFCB'[a])
    BY <1>1, <1>2, ElVigente DEF Coincide
  <1>6. \A k \in 0 .. v.cantidad_indirectos - 1 :
            v.punteroIn # NADA => datos_bloques'[v.punteroIn + k] = datos_bloques[v.punteroIn + k]
    <2>1. v.punteroIn # NADA => Tiene(a, IND, v.punteroIn)
      BY <1>1, <1>2 DEF Tiene, Nombra
    <2> QED
      BY <1>1, <1>5, <2>1, RanurasAjenas
  <1>7. \A l, x : Tiene(a, l, x) => \A u \in UnidadesDe(x) : datos_bloques'[u] = datos_bloques[u]
    BY <1>1, BloqueAjeno
  <1> QED
    BY <1>1, <1>2, <1>4, <1>5, <1>6, <1>7, ObservadoSigue

\* What is written on blocks of files leaves the free ones blank.
LEMMA BlancosQuietos ==
    ASSUME BloquesInv, sano, NEW a0, NEW W, EscribeEn(a0, W), Quieto(W),
           NEW x \in LasBases, x \notin Bases
    PROVE  \A u \in UnidadesDe(x) : datos_bloques'[u] = BLANCO
  <1> SUFFICES ASSUME NEW u \in UnidadesDe(x) PROVE datos_bloques'[u] = BLANCO
    OBVIOUS
  <1>1. u \in Unidades /\ datos_bloques[u] = BLANCO
    BY LasUnidades DEF BloquesInv, Sanidad, EnBlanco
  <1>2. ASSUME u \in W PROVE FALSE
    <2>1. PICK l, y : Tiene(a0, l, y) /\ u \in UnidadesDe(y)
      BY <1>2 DEF EscribeEn
    <2>2. y \in LasBases /\ y \in Bases
      BY <2>1, LoSuyo
    <2> QED
      BY <2>1, <2>2, Separadas
  <1> QED
    BY <1>1, <1>2 DEF Quieto

LEMMA RanurasBlancasAjenas ==
    ASSUME BloquesInv, sano, NEW a0, NEW W, EscribeEn(a0, W), Quieto(W),
           NEW b \in DOMAIN listaFCB, b # a0, listaFCB'[b] = listaFCB[b],
           b \notin recargados, listaFCB[b].punteroIn # NADA,
           NEW k \in 0 .. TAM_BLOQUE - 1, k >= listaFCB[b].cantidad_indirectos
    PROVE  datos_bloques'[listaFCB[b].punteroIn + k] = BLANCO
  <1>1. PICK p : p = listaFCB[b].punteroIn
    OBVIOUS
  <1>2. Tiene(b, IND, p) /\ p \in LasBases
    BY <1>1, ElVigente, LoSuyo DEF Tiene, Nombra
  <1>3. p + k \in UnidadesDe(p)
    BY <1>2, LasUnidades
  <1>4. datos_bloques'[p + k] = datos_bloques[p + k]
    BY <1>2, <1>3, BloqueAjeno
  <1>5. datos_bloques[p + k] = BLANCO
    BY <1>1 DEF BloquesInv, Sanidad, RanurasEnBlanco
  <1> QED
    BY <1>1, <1>4, <1>5
-----------------------------------------------------------------------------
(* Steps that take and free no block *)

LEMMA MismosBloques ==
    ASSUME BloquesInv, sano, UNCHANGED <<bitmap, datos_bloques>>, integro' => integro,
           \A a, l, x : Tiene(a, l, x)' <=> Tiene(a, l, x)
    PROVE  UnDuenio' /\ EnBlanco' /\ NadaPerdido'
  <1>1. Bases' = Bases
    BY DEF Bases
  <1>2. \A a, l, x : Tiene(a, l, x)' => x \in Bases' /\ Tiene(a, l, x)
    BY <1>1, LoSuyo
  <1>3. UnDuenio'
    BY <1>2, UnDuenioCambia
  <1>4. NadaPerdido'
    BY <1>1, NadaPerdidoCambia
  <1>5. EnBlanco'
    BY <1>1 DEF BloquesInv, Sanidad, EnBlanco
  <1> QED
    BY <1>3, <1>4, <1>5

LEMMA MismosFCB ==
    ASSUME BloquesInv, sano, UNCHANGED <<listaFCB, directorio, bitmap, datos_bloques, recargados>>,
           integro' => integro
    PROVE  /\ Contados' /\ UnDuenio' /\ RanurasEnBlanco' /\ EnBlanco' /\ NadaPerdido'
           /\ \A a : Vigente(a)' = Vigente(a)
           /\ \A a, l, x : (Tiene(a, l, x)' <=> Tiene(a, l, x))
           /\ \A a, l, x : (EnDisco(a, l, x)' <=> EnDisco(a, l, x))
  <1>1. \A a : Vigente(a)' = Vigente(a)
    BY DEF Vigente
  <1>2. \A a, l, x : Tiene(a, l, x)' <=> Tiene(a, l, x)
    BY <1>1 DEF Tiene, Nombra
  <1>3. \A a, l, x : EnDisco(a, l, x)' <=> EnDisco(a, l, x)
    BY DEF EnDisco, Nombra
  <1>4. Contados'
    BY <1>1 DEF BloquesInv, Sanidad, Contados, Contado
  <1>5. RanurasEnBlanco'
    BY DEF BloquesInv, Sanidad, RanurasEnBlanco
  <1> QED
    BY <1>1, <1>2, <1>3, <1>4, <1>5, MismosBloques

\* The write observed, when no unit changes.
LEMMA ObservadoQuieto ==
    ASSUME BloquesInv, sano, observado' = observado, datos_bloques' = datos_bloques,
           observado # SinObservar => observado.archivo \in DOMAIN listaFCB',
           NEW a, a = observado.archivo,
           observado # SinObservar =>
              /\ Coincide(Vigente(a), listaFCB'[a])
              /\ Cabe(Vigente(a), observado)' /\ Cabe(directorio[a], observado)'
              /\ ~(a = pedido'.archivo /\ pc' \in {"liberar", "asentarLiberado"})
    PROVE  ElObservado'
  <1>1. CASE observado = SinObservar
    BY <1>1 DEF ElObservado, SinObservar
  <1>2. CASE observado # SinObservar
    BY <1>2, ObservadoSigue
  <1> QED
    BY <1>1, <1>2

LEMMA SanoTruncar ==
    ASSUME BloquesInv, FcbInv', sano, sano', NEW a \in DOMAIN listaFCB, NEW t \in Tamanios,
           Truncar(a, t)
    PROVE  Sanidad'
  <1>1. PICK n, m : n = BloquesPara(t) /\ m = BloquesPara(listaFCB[a].tamanio)
    OBVIOUS
  <1>2. /\ pc = "esperar"
        /\ pedido' = [archivo |-> a, tamanio |-> t, faltan |-> IF m > n THEN m - n ELSE n - m]
        /\ pc' = CASE m > n -> "liberar" [] m < n -> "ocupar" [] OTHER -> "guardar"
        /\ observado' = IF observado.archivo = a /\ m > n THEN SinObservar ELSE observado
        /\ UNCHANGED <<listaFCB, directorio, bitmap, datos_bloques, recargados, integro, sinBloque>>
    BY <1>1 DEF Truncar, EnMarcha, discoVars
  <1>3. n \in Nat /\ m \in Nat /\ t \in Nat
    BY <1>1, BloquesParaNatural, ArchivosAssumption DEF BloquesInv, FcbInv, Tipado, Forma, FCBs
  <1>4. pc' \in {"liberar", "ocupar", "guardar"} /\ pedido'.archivo = a /\ pedido'.tamanio = t
    BY <1>2, <1>3
  <1>5. /\ Contados' /\ UnDuenio' /\ RanurasEnBlanco' /\ EnBlanco' /\ NadaPerdido'
        /\ \A b : Vigente(b)' = Vigente(b)
        /\ \A b, l, x : (Tiene(b, l, x)' <=> Tiene(b, l, x))
        /\ \A b, l, x : (EnDisco(b, l, x)' <=> EnDisco(b, l, x))
    BY <1>2, MismosFCB
  <1>6. DiscoContenido' /\ Momento'
    <2>1. \A b, l, x : EnDisco(b, l, x) => Tiene(b, l, x)
      BY <1>2, LoSuyo DEF PorAsentar
    <2> QED
      BY <1>4, <1>5, <2>1 DEF DiscoContenido, Momento
  <1>7. SegunTamanio'
    <2> SUFFICES ASSUME integro, ~sinBloque, NEW b \in DOMAIN listaFCB PROVE Conforme(b)'
      BY <1>2 DEF SegunTamanio
    <2>1. Conforme(b) /\ ~EnCurso(b)
      BY <1>2 DEF BloquesInv, Sanidad, SegunTamanio, EnCurso
    <2>2. CASE b # a
      BY <1>4, <1>5, <2>1, <2>2, ConformeQuieto DEF EnCurso
    <2>3. CASE b = a
      <3>1. PICK v : v = Vigente(a)
        OBVIOUS
      <3>2. Vigente(a)' = v /\ v.tamanio = listaFCB[a].tamanio
        BY <1>5, <3>1, ElVigente
      <3>3. /\ Cuantos(v) = m /\ (v.punteroIn # NADA => Cuantos(v) > 1)
            /\ Cuantos(v) > 1 => v.punteroIn # NADA
        BY <1>1, <2>1, <2>3, <3>1, <3>2 DEF Conforme
      <3>4. EnCurso(a)' /\ m = BloquesPara(pedido'.tamanio) + Saldo'
        BY <1>1, <1>2, <1>3, <1>4 DEF EnCurso, Saldo
      <3>5. m = (BloquesPara(pedido.tamanio) + Saldo)'
        BY <3>4 DEF BloquesPara
      <3> QED
        BY <2>3, <3>2, <3>3, <3>4, <3>5 DEF Conforme
    <2> QED
      BY <2>2, <2>3
  <1>8. ElObservado'
    <2>1. CASE observado' = SinObservar
      BY <2>1 DEF ElObservado
    <2>2. CASE observado' # SinObservar
      <3>1. observado' = observado /\ (observado.archivo = a => ~(m > n))
        BY <1>2, <2>2
      <3>2. PICK b : b = observado.archivo
        OBVIOUS
      <3>3. b \in DOMAIN listaFCB /\ Cabe(Vigente(b), observado) /\ Cabe(directorio[b], observado)
        BY <2>2, <3>1, <3>2 DEF BloquesInv, Sanidad, ElObservado
      <3>4. Cabe(Vigente(b), observado)' /\ Cabe(directorio[b], observado)'
        BY <1>2, <1>5, <3>1, <3>3 DEF Cabe
      <3>5. Coincide(Vigente(b), listaFCB'[b])
        BY <1>2, <3>3, ElVigente DEF Coincide
      <3>6. ~(b = pedido'.archivo /\ pc' \in {"liberar", "asentarLiberado"})
        BY <1>2, <1>3, <1>4, <3>1, <3>2
      <3> QED
        BY <1>2, <3>1, <3>2, <3>3, <3>4, <3>5, <3>6, ObservadoQuieto
    <2> QED
      BY <2>1, <2>2
  <1> QED
    BY <1>5, <1>6, <1>7, <1>8 DEF Sanidad

\* No block is free.
LEMMA SanoSinBloque ==
    ASSUME BloquesInv, FcbInv', sano, sano', NoHayIndirecto \/ NoHayBloque
    PROVE  Sanidad'
  <1>1. /\ pc \in {"ocupar", "ocuparOtro"} /\ sinBloque' = TRUE /\ pc' \in {"asentar", "esperar"}
        /\ pc' = "asentar" => pc = "ocuparOtro" /\ pedido' = pedido
        /\ UNCHANGED <<listaFCB, directorio, bitmap, datos_bloques, recargados, integro, observado>>
    BY DEF NoHayIndirecto, NoHayBloque, EnMarcha, discoVars
  <1>2. /\ Contados' /\ UnDuenio' /\ RanurasEnBlanco' /\ EnBlanco' /\ NadaPerdido'
        /\ \A b : Vigente(b)' = Vigente(b)
        /\ \A b, l, x : (Tiene(b, l, x)' <=> Tiene(b, l, x))
        /\ \A b, l, x : (EnDisco(b, l, x)' <=> EnDisco(b, l, x))
    BY <1>1, MismosFCB
  <1>3. DiscoContenido'
    <2>1. \A b, l, x : EnDisco(b, l, x) => Tiene(b, l, x)
      BY <1>1, LoSuyo
    <2> QED
      BY <1>2, <2>1 DEF DiscoContenido
  <1>4. Momento'
    BY <1>1 DEF BloquesInv, Sanidad, Momento, Actual
  <1>5. SegunTamanio'
    BY <1>1 DEF SegunTamanio
  <1>6. ElObservado'
    <2>1. PICK b : b = observado.archivo
      OBVIOUS
    <2>2. observado # SinObservar =>
             b \in DOMAIN listaFCB /\ Cabe(Vigente(b), observado) /\ Cabe(directorio[b], observado)
      BY <2>1 DEF BloquesInv, Sanidad, ElObservado
    <2>3. observado # SinObservar =>
             Cabe(Vigente(b), observado)' /\ Cabe(directorio[b], observado)'
      BY <1>1, <1>2, <2>2 DEF Cabe
    <2>4. observado # SinObservar => Coincide(Vigente(b), listaFCB'[b])
      BY <1>1, <2>2, ElVigente DEF Coincide
    <2> QED
      BY <1>1, <2>1, <2>2, <2>3, <2>4, ObservadoQuieto
  <1> QED
    BY <1>2, <1>3, <1>4, <1>5, <1>6 DEF Sanidad

LEMMA SanoAlCaer ==
    ASSUME BloquesInv, FcbInv', sano, sano', Cae \/ UNCHANGED vars
    PROVE  Sanidad'
  <1>1. UNCHANGED <<listaFCB, directorio, bitmap, datos_bloques, recargados, integro, sinBloque,
                    pc, pedido, observado>>
    BY DEF Cae, vars, discoVars, historia
  <1>2. /\ Contados' /\ UnDuenio' /\ RanurasEnBlanco' /\ EnBlanco' /\ NadaPerdido'
        /\ \A b : Vigente(b)' = Vigente(b)
        /\ \A b, l, x : (Tiene(b, l, x)' <=> Tiene(b, l, x))
        /\ \A b, l, x : (EnDisco(b, l, x)' <=> EnDisco(b, l, x))
    BY <1>1, MismosFCB
  <1>3. DiscoContenido'
    BY <1>1, <1>2 DEF BloquesInv, Sanidad, DiscoContenido, PorAsentar
  <1>4. Momento'
    BY <1>1 DEF BloquesInv, Sanidad, Momento, Actual
  <1>5. SegunTamanio'
    <2>1. \A b : Conforme(b) => Conforme(b)'
      BY <1>1, <1>2 DEF Conforme, EnCurso, Saldo, Cuantos, BloquesPara
    <2> QED
      BY <1>1, <2>1 DEF BloquesInv, Sanidad, SegunTamanio
  <1>6. ElObservado'
    <2>1. PICK b : b = observado.archivo
      OBVIOUS
    <2>2. observado # SinObservar =>
             /\ b \in DOMAIN listaFCB /\ Cabe(Vigente(b), observado) /\ Cabe(directorio[b], observado)
             /\ ~(b = pedido'.archivo /\ pc' \in {"liberar", "asentarLiberado"})
      BY <1>1, <2>1 DEF BloquesInv, Sanidad, ElObservado
    <2>3. observado # SinObservar =>
             Cabe(Vigente(b), observado)' /\ Cabe(directorio[b], observado)'
      BY <1>1, <1>2, <2>2 DEF Cabe
    <2>4. observado # SinObservar => Coincide(Vigente(b), listaFCB'[b])
      BY <1>1, <2>2, ElVigente DEF Coincide
    <2> QED
      BY <1>1, <2>1, <2>2, <2>3, <2>4, ObservadoQuieto
  <1> QED
    BY <1>2, <1>3, <1>4, <1>5, <1>6 DEF Sanidad
LEMMA SanoCrear ==
    ASSUME BloquesInv, FcbInv', sano, sano', NEW a \in Archivos, Crear(a)
    PROVE  Sanidad'
  <1>1. /\ pc = "esperar" /\ a \notin DOMAIN listaFCB
        /\ listaFCB' = Con(listaFCB, a, FCBNuevo) /\ directorio' = Con(directorio, a, FCBNuevo)
        /\ UNCHANGED <<bitmap, datos_bloques, pc, pedido, recargados, integro, sinBloque, observado>>
    BY DEF Crear, EnMarcha, historia
  <1>2. DOMAIN directorio = DOMAIN listaFCB /\ recargados \subseteq DOMAIN listaFCB
    BY DEF BloquesInv, FcbInv, Tipado
  <1>3. /\ DOMAIN listaFCB' = DOMAIN listaFCB \cup {a}
        /\ DOMAIN directorio' = DOMAIN listaFCB \cup {a}
        /\ listaFCB'[a] = FCBNuevo /\ directorio'[a] = FCBNuevo
        /\ \A b \in DOMAIN listaFCB : listaFCB'[b] = listaFCB[b] /\ directorio'[b] = directorio[b]
    BY <1>1, <1>2 DEF Con
  <1>4. Vigente(a)' = FCBNuevo /\ \A b \in DOMAIN listaFCB : Vigente(b)' = Vigente(b)
    BY <1>1, <1>3 DEF Vigente
  <1>5. \A l, x : ~Nombra(FCBNuevo, l, x)' /\ ~Nombra(FCBNuevo, l, x)
    BY DEF Nombra, FCBNuevo
  <1>6. \A b, l, x : Tiene(b, l, x)' <=> Tiene(b, l, x)
    <2> SUFFICES ASSUME NEW b, NEW l, NEW x PROVE Tiene(b, l, x)' <=> Tiene(b, l, x)
      OBVIOUS
    <2>1. CASE b = a
      BY <1>1, <1>4, <1>5, <2>1 DEF Tiene
    <2>2. CASE b # a
      BY <1>1, <1>3, <1>4, <2>2 DEF Tiene, Nombra
    <2> QED
      BY <2>1, <2>2
  <1>7. \A b, l, x : EnDisco(b, l, x)' <=> EnDisco(b, l, x)
    <2> SUFFICES ASSUME NEW b, NEW l, NEW x PROVE EnDisco(b, l, x)' <=> EnDisco(b, l, x)
      OBVIOUS
    <2>1. CASE b = a
      BY <1>1, <1>2, <1>3, <1>5, <2>1 DEF EnDisco
    <2>2. CASE b # a
      BY <1>1, <1>2, <1>3, <2>2 DEF EnDisco, Nombra
    <2> QED
      BY <2>1, <2>2
  <1>8. UnDuenio' /\ EnBlanco' /\ NadaPerdido'
    BY <1>1, <1>6, MismosBloques
  <1>9. Contado(FCBNuevo) /\ FCBNuevo.cantidad_indirectos = 0 /\ FCBNuevo.punteroIn = NADA
    BY DEF Contado, FCBNuevo
  <1>10. Contados'
    <2> SUFFICES ASSUME NEW b \in DOMAIN listaFCB'
                 PROVE  /\ Contado(Vigente(b)') /\ Contado(directorio'[b])
                        /\ b \notin recargados' /\ listaFCB'[b].punteroIn = NADA
                               => listaFCB'[b].cantidad_indirectos = 0
      BY DEF Contados, Contado
    <2>1. CASE b = a
      BY <1>3, <1>4, <1>9, <2>1
    <2>2. CASE b # a
      BY <1>1, <1>3, <1>4, <2>2 DEF BloquesInv, Sanidad, Contados
    <2> QED
      BY <2>1, <2>2
  <1>11. RanurasEnBlanco'
    <2> SUFFICES ASSUME NEW b \in DOMAIN listaFCB', NEW k \in 0 .. TAM_BLOQUE - 1,
                        b \notin recargados, listaFCB'[b].punteroIn # NADA,
                        k >= listaFCB'[b].cantidad_indirectos
                 PROVE  datos_bloques[listaFCB'[b].punteroIn + k] = BLANCO
      BY <1>1 DEF RanurasEnBlanco
    <2>1. b # a
      BY <1>3, <1>9
    <2>2. b \in DOMAIN listaFCB /\ listaFCB'[b] = listaFCB[b]
      BY <1>3, <2>1
    <2> QED
      BY <2>2 DEF BloquesInv, Sanidad, RanurasEnBlanco
  <1>12. DiscoContenido'
    <2>1. \A b, l, x : EnDisco(b, l, x) => Tiene(b, l, x)
      BY <1>1, LoSuyo
    <2> QED
      BY <1>6, <1>7, <2>1 DEF DiscoContenido
  <1>13. Momento'
    BY <1>1 DEF Momento
  <1>14. SegunTamanio'
    <2> SUFFICES ASSUME integro, ~sinBloque, NEW b \in DOMAIN listaFCB' PROVE Conforme(b)'
      BY <1>1 DEF SegunTamanio
    <2>1. CASE b = a
      <3>1. Cuantos(FCBNuevo) = 0
        BY DEF Cuantos, FCBNuevo
      <3>2. BloquesPara(0) = 0
        BY Constantes DEF BloquesPara
      <3>3. FCBNuevo.tamanio = 0 /\ ~EnCurso(a)'
        BY <1>1 DEF FCBNuevo, EnCurso
      <3> QED
        BY <1>4, <1>9, <2>1, <3>1, <3>2, <3>3 DEF Conforme
    <2>2. CASE b # a
      <3>1. b \in DOMAIN listaFCB /\ ~EnCurso(b) /\ ~EnCurso(b)'
        BY <1>1, <1>3, <2>2 DEF EnCurso
      <3>2. Conforme(b)
        BY <3>1 DEF BloquesInv, Sanidad, SegunTamanio
      <3> QED
        BY <1>4, <3>1, <3>2, ConformeQuieto
    <2> QED
      BY <2>1, <2>2
  <1>15. ElObservado'
    <2>1. PICK b : b = observado.archivo
      OBVIOUS
    <2>2. observado # SinObservar =>
             b \in DOMAIN listaFCB /\ Cabe(Vigente(b), observado) /\ Cabe(directorio[b], observado)
      BY <2>1 DEF BloquesInv, Sanidad, ElObservado
    <2>3. observado # SinObservar =>
             Cabe(Vigente(b), observado)' /\ Cabe(directorio[b], observado)'
      BY <1>1, <1>3, <1>4, <2>2 DEF Cabe
    <2>4. observado # SinObservar => Coincide(Vigente(b), listaFCB'[b])
      BY <1>3, <2>2, ElVigente DEF Coincide
    <2> QED
      BY <1>1, <1>3, <2>1, <2>2, <2>3, <2>4, ObservadoQuieto
  <1> QED
    BY <1>8, <1>10, <1>11, <1>12, <1>13, <1>14, <1>15 DEF Sanidad

LEMMA SanoAsentar ==
    ASSUME BloquesInv, FcbInv', sano, sano', NEW donde, NEW bucle,
           \/ donde = "asentar" /\ bucle = "ocupar"
           \/ donde = "asentarLiberado" /\ bucle = "liberar",
           Asentar(donde, bucle)
    PROVE  Sanidad'
  <1>1. PICK a, f, n : a = pedido.archivo /\ f = listaFCB[a] /\ n = pedido.faltan
    OBVIOUS
  <1>2. /\ pc = donde /\ directorio' = [directorio EXCEPT ![a] = f]
        /\ pedido' = [pedido EXCEPT !.faltan = @ - 1]
        /\ pc' = IF n = 1 THEN "guardar" ELSE bucle
        /\ UNCHANGED <<listaFCB, bitmap, datos_bloques, recargados, integro, sinBloque, observado>>
    BY <1>1 DEF Asentar, EnMarcha, Actual, historia
  <1>3. /\ a \in DOMAIN listaFCB /\ DOMAIN directorio = DOMAIN listaFCB
        /\ n \in Nat \ {0} /\ PorAsentar(a)
        /\ pedido'.archivo = a /\ pedido'.faltan = n - 1 /\ pedido'.tamanio = pedido.tamanio
    BY <1>1, <1>2 DEF BloquesInv, FcbInv, Tipado, Pasos, PorAsentar
  <1>4. /\ directorio'[a] = f /\ DOMAIN directorio' = DOMAIN directorio
        /\ \A b : b # a => directorio'[b] = directorio[b]
    BY <1>2, <1>3
  <1>5. a \notin recargados \/ f.punteroIn = NADA
    BY <1>1, <1>2 DEF BloquesInv, Sanidad, Momento, Actual
  <1>6. Vigente(a) = f /\ Vigente(a)' = f
    BY <1>1, <1>2, <1>5 DEF Vigente
  <1>7. \A b : Vigente(b)' = Vigente(b)
    <2> SUFFICES ASSUME NEW b PROVE Vigente(b)' = Vigente(b)
      OBVIOUS
    <2>1. CASE b = a
      BY <1>6, <2>1
    <2>2. CASE b # a
      BY <1>2, <1>4, <2>2 DEF Vigente
    <2> QED
      BY <2>1, <2>2
  <1>8. \A b, l, x : Tiene(b, l, x)' <=> Tiene(b, l, x)
    BY <1>2, <1>7 DEF Tiene, Nombra
  <1>9. \A b, l, x : EnDisco(b, l, x)' => Tiene(b, l, x)
    <2> SUFFICES ASSUME NEW b, NEW l, NEW x, EnDisco(b, l, x)' PROVE Tiene(b, l, x)
      OBVIOUS
    <2>1. CASE b = a
      <3>1. Nombra(f, l, x)
        BY <1>2, <1>4, <2>1 DEF EnDisco, Nombra
      <3> QED
        BY <1>3, <1>6, <2>1, <3>1 DEF Tiene
    <2>2. CASE b # a
      <3>1. EnDisco(b, l, x)
        BY <1>2, <1>4, <2>2 DEF EnDisco, Nombra
      <3> QED
        BY <1>1, <2>2, <3>1, LoSuyo DEF PorAsentar
    <2> QED
      BY <2>1, <2>2
  <1>10. UnDuenio' /\ EnBlanco' /\ NadaPerdido'
    BY <1>2, <1>8, MismosBloques
  <1>11. DiscoContenido'
    BY <1>8, <1>9 DEF DiscoContenido
  <1>12. Contados'
    <2> SUFFICES ASSUME NEW b \in DOMAIN listaFCB
                 PROVE  /\ Contado(Vigente(b)') /\ Contado(directorio'[b])
                        /\ b \notin recargados' /\ listaFCB'[b].punteroIn = NADA
                               => listaFCB'[b].cantidad_indirectos = 0
      BY <1>2 DEF Contados, Contado
    <2>1. /\ Contado(Vigente(b)) /\ Contado(directorio[b])
          /\ b \notin recargados /\ listaFCB[b].punteroIn = NADA
                 => listaFCB[b].cantidad_indirectos = 0
      BY DEF BloquesInv, Sanidad, Contados
    <2>2. Contado(directorio'[b])
      BY <1>4, <1>6, <2>1
    <2> QED
      BY <1>2, <1>7, <2>1, <2>2
  <1>13. RanurasEnBlanco'
    BY <1>2 DEF BloquesInv, Sanidad, RanurasEnBlanco
  <1>14. pc' \in {"guardar", "ocupar", "liberar"} /\ (pc' = "liberar" => pc = "asentarLiberado")
    BY <1>2
  <1>15. Momento'
    BY <1>14 DEF Momento
  <1>16. SegunTamanio'
    <2> SUFFICES ASSUME integro, ~sinBloque, NEW b \in DOMAIN listaFCB PROVE Conforme(b)'
      BY <1>2 DEF SegunTamanio
    <2>1. Conforme(b)
      BY DEF BloquesInv, Sanidad, SegunTamanio
    <2>2. CASE b # a
      <3>1. ~EnCurso(b) /\ ~EnCurso(b)'
        BY <1>1, <1>3, <2>2 DEF EnCurso
      <3> QED
        BY <1>7, <2>1, <3>1, ConformeQuieto
    <2>3. CASE b = a
      <3>1. EnCurso(a) /\ EnCurso(a)' /\ Saldo' = Saldo
        BY <1>1, <1>2, <1>3, <1>14 DEF EnCurso, Saldo
      <3>2. pc # "ocuparOtro"
        BY <1>2
      <3>3. BloquesPara(pedido.tamanio)' = BloquesPara(pedido.tamanio)
        BY <1>3 DEF BloquesPara
      <3>4. Cuantos(f) = BloquesPara(pedido.tamanio) + Saldo
            /\ (f.punteroIn # NADA => Cuantos(f) > 1) /\ (Cuantos(f) > 1 => f.punteroIn # NADA)
        BY <1>6, <2>1, <2>3, <3>1, <3>2 DEF Conforme
      <3>5. Cuantos(f) = (BloquesPara(pedido.tamanio) + Saldo)'
        BY <3>1, <3>3, <3>4
      <3> QED
        BY <1>6, <2>3, <3>1, <3>4, <3>5 DEF Conforme
    <2> QED
      BY <2>2, <2>3
  <1>17. ElObservado'
    <2>1. PICK b : b = observado.archivo
      OBVIOUS
    <2>2. observado # SinObservar =>
             /\ b \in DOMAIN listaFCB /\ Cabe(Vigente(b), observado) /\ Cabe(directorio[b], observado)
             /\ ~(b = pedido.archivo /\ pc \in {"liberar", "asentarLiberado"})
      BY <2>1 DEF BloquesInv, Sanidad, ElObservado
    <2>3. observado # SinObservar => Cabe(directorio'[b], observado)
      BY <1>4, <1>6, <2>2
    <2>4. observado # SinObservar =>
             Cabe(Vigente(b), observado)' /\ Cabe(directorio[b], observado)'
      BY <1>2, <1>7, <2>2, <2>3 DEF Cabe
    <2>5. observado # SinObservar => Coincide(Vigente(b), listaFCB'[b])
      BY <1>2, <2>2, ElVigente DEF Coincide
    <2>6. observado # SinObservar =>
             ~(b = pedido'.archivo /\ pc' \in {"liberar", "asentarLiberado"})
      BY <1>1, <1>3, <1>14, <2>2
    <2> QED
      BY <1>2, <2>1, <2>2, <2>4, <2>5, <2>6, ObservadoQuieto
  <1> QED
    BY <1>10, <1>11, <1>12, <1>13, <1>15, <1>16, <1>17 DEF Sanidad
LEMMA SanoGuardar ==
    ASSUME BloquesInv, FcbInv', sano, sano', Guardar
    PROVE  Sanidad'
  <1>1. PICK a, t, f, d, v : /\ a = pedido.archivo /\ t = pedido.tamanio
                             /\ f = listaFCB[a] /\ d = directorio[a] /\ v = Vigente(a)
    OBVIOUS
  <1>2. /\ a \in DOMAIN listaFCB /\ DOMAIN directorio = DOMAIN listaFCB /\ pc = "guardar"
        /\ f \in FCBs /\ d \in FCBs /\ t \in 0 .. MODULO - 1
    BY <1>1 DEF Guardar, EnMarcha, BloquesInv, FcbInv, Tipado, Forma
  <1>3. /\ listaFCB' = [listaFCB EXCEPT ![a] = [f EXCEPT !.tamanio = t]]
        /\ directorio' = [directorio EXCEPT ![a] = [d EXCEPT !.tamanio = t]]
        /\ pc' = "esperar"
        /\ UNCHANGED <<bitmap, datos_bloques, recargados, integro, sano, sinBloque, observado>>
    BY <1>1, <1>2 DEF Guardar, ConFCB, Actual, historia
  <1>4. PICK f1, d1, v1 : f1 = listaFCB'[a] /\ d1 = directorio'[a] /\ v1 = Vigente(a)'
    OBVIOUS
  <1>5. /\ DOMAIN listaFCB' = DOMAIN listaFCB /\ DOMAIN directorio' = DOMAIN directorio
        /\ f1 = [f EXCEPT !.tamanio = t] /\ d1 = [d EXCEPT !.tamanio = t]
        /\ \A b : b # a => listaFCB'[b] = listaFCB[b] /\ directorio'[b] = directorio[b]
    BY <1>2, <1>3, <1>4
  <1>6. /\ f1.punteroDir = f.punteroDir /\ f1.punteroIn = f.punteroIn
        /\ f1.cantidad_indirectos = f.cantidad_indirectos /\ f1.tamanio = t
        /\ d1.punteroDir = d.punteroDir /\ d1.punteroIn = d.punteroIn
        /\ d1.cantidad_indirectos = d.cantidad_indirectos /\ d1.tamanio = t
    BY <1>2, <1>5 DEF FCBs
  <1>7. /\ v = IF a \in recargados /\ f.punteroIn # NADA THEN d ELSE f
        /\ v1 = IF a \in recargados /\ f1.punteroIn # NADA THEN d1 ELSE f1
    BY <1>1, <1>3, <1>4 DEF Vigente
  <1>8. /\ v1.punteroDir = v.punteroDir /\ v1.punteroIn = v.punteroIn
        /\ v1.cantidad_indirectos = v.cantidad_indirectos /\ v1.tamanio = t
    BY <1>6, <1>7
  <1>9. \A b : b # a => Vigente(b)' = Vigente(b)
    BY <1>3, <1>5 DEF Vigente
  <1>10. /\ \A l, x : Nombra(v1, l, x)' <=> Nombra(v, l, x)
         /\ \A l, x : Nombra(d1, l, x)' <=> Nombra(d, l, x)
         /\ Cuantos(v1) = Cuantos(v) /\ Cuantos(d1) = Cuantos(d)
    BY <1>3, <1>6, <1>8 DEF Nombra, Cuantos
  <1>11. \A b, l, x : Tiene(b, l, x)' <=> Tiene(b, l, x)
    <2> SUFFICES ASSUME NEW b, NEW l, NEW x PROVE Tiene(b, l, x)' <=> Tiene(b, l, x)
      OBVIOUS
    <2>1. CASE b = a
      BY <1>1, <1>4, <1>5, <1>10, <2>1 DEF Tiene
    <2>2. CASE b # a
      BY <1>3, <1>5, <1>9, <2>2 DEF Tiene, Nombra
    <2> QED
      BY <2>1, <2>2
  <1>12. \A b, l, x : EnDisco(b, l, x)' <=> EnDisco(b, l, x)
    <2> SUFFICES ASSUME NEW b, NEW l, NEW x PROVE EnDisco(b, l, x)' <=> EnDisco(b, l, x)
      OBVIOUS
    <2>1. CASE b = a
      <3>1. a \in DOMAIN directorio /\ a \in DOMAIN directorio'
        BY <1>2, <1>5
      <3>2. EnDisco(a, l, x) <=> Nombra(d, l, x)
        BY <1>1, <3>1 DEF EnDisco
      <3>3. EnDisco(a, l, x)' <=> Nombra(d1, l, x)'
        BY <1>4, <3>1 DEF EnDisco, Nombra
      <3> QED
        BY <1>10, <2>1, <3>2, <3>3
    <2>2. CASE b # a
      BY <1>3, <1>5, <2>2 DEF EnDisco, Nombra
    <2> QED
      BY <2>1, <2>2
  <1>13. UnDuenio' /\ EnBlanco' /\ NadaPerdido'
    BY <1>3, <1>11, MismosBloques
  <1>14. DiscoContenido' /\ Momento'
    <2>1. \A b, l, x : EnDisco(b, l, x) => Tiene(b, l, x)
      BY <1>2, LoSuyo
    <2> QED
      BY <1>3, <1>11, <1>12, <2>1 DEF DiscoContenido, Momento
  <1>15. Contados'
    <2> SUFFICES ASSUME NEW b \in DOMAIN listaFCB
                 PROVE  /\ Contado(Vigente(b)') /\ Contado(directorio'[b])
                        /\ b \notin recargados' /\ listaFCB'[b].punteroIn = NADA
                               => listaFCB'[b].cantidad_indirectos = 0
      BY <1>5 DEF Contados, Contado
    <2>1. /\ Contado(Vigente(b)) /\ Contado(directorio[b])
          /\ b \notin recargados /\ listaFCB[b].punteroIn = NADA
                 => listaFCB[b].cantidad_indirectos = 0
      BY DEF BloquesInv, Sanidad, Contados
    <2>2. CASE b = a
      BY <1>1, <1>3, <1>4, <1>6, <1>8, <2>1, <2>2 DEF Contado
    <2>3. CASE b # a
      BY <1>3, <1>5, <1>9, <2>1, <2>3
    <2> QED
      BY <2>2, <2>3
  <1>16. RanurasEnBlanco'
    <2> SUFFICES ASSUME NEW b \in DOMAIN listaFCB, NEW k \in 0 .. TAM_BLOQUE - 1,
                        b \notin recargados, listaFCB'[b].punteroIn # NADA,
                        k >= listaFCB'[b].cantidad_indirectos
                 PROVE  datos_bloques[listaFCB'[b].punteroIn + k] = BLANCO
      BY <1>3, <1>5 DEF RanurasEnBlanco
    <2>1. /\ listaFCB'[b].punteroIn = listaFCB[b].punteroIn
          /\ listaFCB'[b].cantidad_indirectos = listaFCB[b].cantidad_indirectos
      BY <1>1, <1>4, <1>5, <1>6
    <2> QED
      BY <2>1 DEF BloquesInv, Sanidad, RanurasEnBlanco
  <1>17. SegunTamanio'
    <2> SUFFICES ASSUME integro, ~sinBloque, NEW b \in DOMAIN listaFCB PROVE Conforme(b)'
      BY <1>3, <1>5 DEF SegunTamanio
    <2>1. Conforme(b) /\ ~EnCurso(b)'
      BY <1>3 DEF BloquesInv, Sanidad, SegunTamanio, EnCurso
    <2>2. CASE b # a
      BY <1>1, <1>9, <2>1, <2>2, ConformeQuieto DEF EnCurso
    <2>3. CASE b = a
      <3>1. EnCurso(a) /\ Saldo = 0
        BY <1>1, <1>2 DEF EnCurso, Saldo
      <3>2. /\ Cuantos(v) = BloquesPara(t) + 0
            /\ (v.punteroIn # NADA => Cuantos(v) > 1) /\ (Cuantos(v) > 1 => v.punteroIn # NADA)
        BY <1>1, <1>2, <2>1, <2>3, <3>1 DEF Conforme
      <3>3. BloquesPara(t) \in Nat
        BY <1>2, BloquesParaNatural, Constantes
      <3>4. /\ Cuantos(v1) = BloquesPara(v1.tamanio)
            /\ (v1.punteroIn # NADA => Cuantos(v1) > 1) /\ (Cuantos(v1) > 1 => v1.punteroIn # NADA)
        BY <1>8, <1>10, <3>2, <3>3
      <3> QED
        BY <1>4, <2>1, <2>3, <3>4 DEF Conforme
    <2> QED
      BY <2>2, <2>3
  <1>18. ElObservado'
    <2>1. PICK b : b = observado.archivo
      OBVIOUS
    <2>2. observado # SinObservar =>
             b \in DOMAIN listaFCB /\ Cabe(Vigente(b), observado) /\ Cabe(directorio[b], observado)
      BY <2>1 DEF BloquesInv, Sanidad, ElObservado
    <2>3. Cuantos(Vigente(b)') = Cuantos(Vigente(b)) /\ Cuantos(directorio'[b]) = Cuantos(directorio[b])
      BY <1>1, <1>4, <1>5, <1>9, <1>10
    <2>4. observado # SinObservar =>
             Cabe(Vigente(b), observado)' /\ Cabe(directorio[b], observado)'
      BY <1>3, <2>2, <2>3 DEF Cabe, Cuantos
    <2>5. observado # SinObservar => Coincide(Vigente(b), listaFCB'[b])
      <3> SUFFICES ASSUME observado # SinObservar
                   PROVE  /\ listaFCB'[b].punteroDir = Vigente(b).punteroDir
                          /\ listaFCB'[b].punteroIn = Vigente(b).punteroIn
        BY DEF Coincide
      <3>1. /\ Vigente(b).punteroDir = listaFCB[b].punteroDir
            /\ Vigente(b).punteroIn = listaFCB[b].punteroIn
        BY <2>2, ElVigente
      <3>2. /\ listaFCB'[b].punteroDir = listaFCB[b].punteroDir
            /\ listaFCB'[b].punteroIn = listaFCB[b].punteroIn
        BY <1>1, <1>4, <1>5, <1>6
      <3> QED
        BY <3>1, <3>2
    <2> QED
      BY <1>3, <1>5, <2>1, <2>2, <2>4, <2>5, ObservadoQuieto
  <1> QED
    BY <1>13, <1>14, <1>15, <1>16, <1>17, <1>18 DEF Sanidad

LEMMA SanoReiniciar ==
    ASSUME BloquesInv, FcbInv', sano, sano', Reiniciar
    PROVE  Sanidad'
  <1>1. PICK cuenta \in [DOMAIN directorio -> 0 .. TAM_BLOQUE] :
           listaFCB' = [a \in DOMAIN directorio |->
                           [directorio[a] EXCEPT !.cantidad_indirectos = cuenta[a]]]
    BY DEF Reiniciar
  <1>2. /\ recargados' = DOMAIN directorio /\ pc' = "esperar"
        /\ integro' = (integro /\ pc = "esperar") /\ pc # "asentarLiberado"
        /\ UNCHANGED <<directorio, bitmap, datos_bloques, sinBloque, observado>>
    BY DEF Reiniciar, discoVars
  <1>3. DOMAIN listaFCB' = DOMAIN directorio /\ DOMAIN directorio = DOMAIN listaFCB
    BY <1>1 DEF BloquesInv, FcbInv, Tipado
  <1>4. ASSUME NEW b \in DOMAIN listaFCB
        PROVE  /\ listaFCB'[b].punteroDir = directorio[b].punteroDir
               /\ listaFCB'[b].punteroIn = directorio[b].punteroIn
               /\ listaFCB'[b].tamanio = directorio[b].tamanio
    <2>1. PICK d, n : d = directorio[b] /\ n = cuenta[b]
      OBVIOUS
    <2>2. d \in FCBs /\ listaFCB'[b] = [d EXCEPT !.cantidad_indirectos = n]
      BY <1>1, <1>3, <2>1 DEF BloquesInv, FcbInv, Tipado, Forma
    <2> QED
      BY <2>1, <2>2 DEF FCBs
  <1>5. ASSUME NEW b \in DOMAIN listaFCB
        PROVE  /\ Vigente(b)'.punteroDir = directorio[b].punteroDir
               /\ Vigente(b)'.punteroIn = directorio[b].punteroIn
               /\ Vigente(b)'.tamanio = directorio[b].tamanio
               /\ directorio[b].punteroIn # NADA => Vigente(b)' = directorio[b]
    BY <1>2, <1>3, <1>4 DEF Vigente
  <1>6. \A b, l, x : Tiene(b, l, x)' <=> EnDisco(b, l, x)
    <2> SUFFICES ASSUME NEW b \in DOMAIN listaFCB, NEW l, NEW x
                 PROVE  Tiene(b, l, x)' <=> EnDisco(b, l, x)
      BY <1>3 DEF Tiene, EnDisco
    <2>1. PICK v, d : v = Vigente(b)' /\ d = directorio[b]
      OBVIOUS
    <2>2. /\ v.punteroDir = d.punteroDir /\ v.punteroIn = d.punteroIn
          /\ d.punteroIn # NADA => v = d
      BY <1>5, <2>1
    <2>3. Nombra(v, l, x)' <=> Nombra(d, l, x)
      BY <1>2, <2>2 DEF Nombra
    <2> QED
      BY <1>3, <2>1, <2>3 DEF Tiene, EnDisco
  <1>7. \A b, l, x : EnDisco(b, l, x)' <=> EnDisco(b, l, x)
    BY <1>2 DEF EnDisco, Nombra
  <1>8. \A b, l, x : EnDisco(b, l, x) => Tiene(b, l, x)
    BY <1>2, LoSuyo
  <1>9. Bases' = Bases
    BY <1>2 DEF Bases
  <1>10. UnDuenio'
    <2>1. \A b, l, x : Tiene(b, l, x)' => x \in Bases' /\ Tiene(b, l, x)
      BY <1>6, <1>8, <1>9, LoSuyo
    <2> QED
      BY <2>1, UnDuenioCambia
  <1>11. DiscoContenido' /\ Momento' /\ EnBlanco'
    BY <1>2, <1>6, <1>7, <1>9 DEF DiscoContenido, Momento, BloquesInv, Sanidad, EnBlanco
  <1>12. NadaPerdido'
    <2> SUFFICES ASSUME integro', NEW x \in Bases' PROVE \E b, l : Tiene(b, l, x)'
      BY DEF NadaPerdido
    <2>1. PICK b, l : Tiene(b, l, x)
      BY <1>2, <1>9 DEF BloquesInv, Sanidad, NadaPerdido
    <2>2. b \in DOMAIN listaFCB /\ ~PorAsentar(b)
      BY <1>2, <2>1 DEF Tiene, PorAsentar
    <2>3. EnDisco(b, l, x)
      BY <2>1, <2>2, ElDelDisco
    <2> QED
      BY <1>6, <2>3
  <1>13. Contados'
    <2> SUFFICES ASSUME NEW b \in DOMAIN listaFCB
                 PROVE  Contado(Vigente(b)') /\ Contado(directorio[b])
      BY <1>2, <1>3 DEF Contados, Contado
    <2>1. Contado(directorio[b])
      BY DEF BloquesInv, Sanidad, Contados
    <2> QED
      BY <1>5, <2>1 DEF Contado
  <1>14. RanurasEnBlanco'
    BY <1>2, <1>3 DEF RanurasEnBlanco
  <1>15. SegunTamanio'
    <2> SUFFICES ASSUME integro', ~sinBloque, NEW b \in DOMAIN listaFCB PROVE Conforme(b)'
      BY <1>2, <1>3 DEF SegunTamanio
    <2>1. pc = "esperar" /\ ~EnCurso(b) /\ ~EnCurso(b)' /\ ~PorAsentar(b)
      BY <1>2 DEF EnCurso, PorAsentar
    <2>2. Conforme(b)
      BY <1>2 DEF BloquesInv, Sanidad, SegunTamanio
    <2>3. PICK v, w, d : v = Vigente(b) /\ w = Vigente(b)' /\ d = directorio[b]
      OBVIOUS
    <2>4. /\ d.punteroDir = v.punteroDir /\ d.punteroIn = v.punteroIn /\ d.tamanio = v.tamanio
          /\ v.punteroIn # NADA => d.cantidad_indirectos = v.cantidad_indirectos
      BY <2>1, <2>3, ElDelDisco
    <2>5. /\ w.punteroDir = d.punteroDir /\ w.punteroIn = d.punteroIn /\ w.tamanio = d.tamanio
          /\ d.punteroIn # NADA => w = d
      BY <1>5, <2>3
    <2>6. Cuantos(w) = Cuantos(v) /\ w.punteroIn = v.punteroIn /\ w.tamanio = v.tamanio
      BY <2>4, <2>5 DEF Cuantos
    <2>7. /\ Cuantos(v) = BloquesPara(v.tamanio)
          /\ v.punteroIn # NADA => Cuantos(v) > 1
          /\ Cuantos(v) > 1 => v.punteroIn # NADA
      BY <2>1, <2>2, <2>3 DEF Conforme
    <2>8. /\ Cuantos(w) = BloquesPara(w.tamanio)
          /\ w.punteroIn # NADA => Cuantos(w) > 1
          /\ Cuantos(w) > 1 => w.punteroIn # NADA
      BY <2>6, <2>7
    <2> QED
      BY <2>1, <2>3, <2>8 DEF Conforme
  <1>16. ElObservado'
    <2>1. CASE observado = SinObservar
      BY <1>2, <2>1 DEF ElObservado
    <2>2. CASE observado # SinObservar
      <3>1. PICK b, o, d, w, g, h : /\ b = observado.archivo /\ o = observado /\ d = directorio[b]
                                    /\ w = Vigente(b)' /\ g = listaFCB'[b] /\ h = listaFCB[b]
        OBVIOUS
      <3>2. /\ o.puntero \in Nat /\ o.bytes \in 1 .. TAM_BLOQUE /\ b \in DOMAIN listaFCB
            /\ Cabe(d, o) /\ \A u \in Destino(h, o) : datos_bloques[u] = OBSERVADO
        BY <2>2, <3>1 DEF BloquesInv, Sanidad, ElObservado
      <3>3. Forma(d) /\ Contado(d)
        BY <3>1, <3>2, ElVigente
      <3>4. Coincide(d, g)
        BY <1>4, <3>1, <3>2 DEF Coincide
      <3>5. Coincide(d, h)
        <4>1. \A l, x : Nombra(d, l, x) => Nombra(Vigente(b), l, x)
          BY <1>3, <1>8, <3>1, <3>2 DEF EnDisco, Tiene
        <4>2. d.punteroDir # NADA => Nombra(Vigente(b), DIR, d.punteroDir)
          BY <4>1 DEF Nombra
        <4>3. d.punteroIn # NADA => Nombra(Vigente(b), IND, d.punteroIn)
          BY <4>1 DEF Nombra
        <4>4. Vigente(b).punteroDir = h.punteroDir /\ Vigente(b).punteroIn = h.punteroIn
          BY <3>1, <3>2, ElVigente
        <4>5. d.punteroDir # NADA => d.punteroDir = h.punteroDir
          BY <4>2, <4>4 DEF Nombra, DIR, IND
        <4>6. d.punteroIn # NADA => d.punteroIn = h.punteroIn
          BY <4>3, <4>4 DEF Nombra, DIR, IND
        <4> QED
          BY <4>5, <4>6 DEF Coincide
      <3>6. Destino(h, o) = Destino(d, o)
        BY <3>2, <3>3, <3>5, DestinoIgual
      <3>7. Destino(g, o)' = Destino(d, o)
        BY <1>2, <3>2, <3>3, <3>4, DestinoQuieto
      <3>8. \A u \in Destino(g, o)' : datos_bloques'[u] = OBSERVADO
        BY <1>2, <3>2, <3>6, <3>7
      <3>9. Cuantos(w) = Cuantos(d)
        BY <1>5, <3>1, <3>2 DEF Cuantos
      <3>10. Cabe(w, o) /\ Cabe(d, o)
        BY <3>2, <3>9 DEF Cabe
      <3>11. b \in DOMAIN listaFCB' /\ observado' = o /\ listaFCB'[b] = g /\ directorio'[b] = d
        BY <1>2, <1>3, <3>1, <3>2
      <3> QED
        BY <1>2, <3>1, <3>2, <3>8, <3>10, <3>11 DEF ElObservado, Cabe, Cuantos
    <2> QED
      BY <2>1, <2>2
  <1> QED
    BY <1>10, <1>11, <1>12, <1>13, <1>14, <1>15, <1>16 DEF Sanidad
-----------------------------------------------------------------------------
(* The sequences of blocks, and the writes *)

\* The blocks of data in the order of the file: block n is in place n - 2.
LEMMA LosDatos ==
    ASSUME Tipado, NEW f, Forma(f), Contado(f)
    PROVE  /\ BloquesDeDatos(f) \in Seq(Int) /\ Len(BloquesDeDatos(f)) = Cuantos(f)
           /\ \A n \in 1 .. Cuantos(f) : Nombra(f, n - 2, BloquesDeDatos(f)[n])
  <1>1. PICK s, t : /\ s = (IF f.punteroDir = NADA THEN <<>> ELSE <<f.punteroDir>>)
                    /\ t = (IF f.punteroIn = NADA THEN <<>>
                            ELSE [k \in 1 .. f.cantidad_indirectos |->
                                     datos_bloques[f.punteroIn + k - 1]])
    OBVIOUS
  <1>2. /\ f.punteroDir \in Int /\ f.punteroIn \in Int /\ f.cantidad_indirectos \in Int
        /\ f.punteroIn # NADA => f.punteroDir # NADA /\ f.punteroIn \in LasBases
    BY DEF Forma, FCBs
  <1>3. /\ s \in Seq(Int) /\ Len(s) = IF f.punteroDir = NADA THEN 0 ELSE 1
        /\ f.punteroDir # NADA => s[1] = f.punteroDir
    BY <1>1, <1>2
  <1>4. /\ t \in Seq(Int) /\ Len(t) = IF f.punteroIn = NADA THEN 0 ELSE f.cantidad_indirectos
        /\ f.punteroIn # NADA =>
               \A k \in 1 .. f.cantidad_indirectos : t[k] = datos_bloques[f.punteroIn + (k - 1)]
    <2>1. CASE f.punteroIn = NADA
      BY <1>1, <2>1
    <2>2. CASE f.punteroIn # NADA
      <3>1. PICK p, c : p = f.punteroIn /\ c = f.cantidad_indirectos
        OBVIOUS
      <3>2. p \in LasBases /\ p \in Nat /\ c \in Nat /\ c <= TAM_BLOQUE
        BY <1>2, <2>2, <3>1, LasUnidades, Constantes DEF Contado
      <3>3. t = [k \in 1 .. c |-> datos_bloques[p + k - 1]]
        BY <1>1, <2>2, <3>1
      <3>4. ASSUME NEW k \in 1 .. c PROVE /\ p + k - 1 = p + (k - 1)
                                          /\ datos_bloques[p + (k - 1)] \in Int
        <4>1. k - 1 \in 0 .. TAM_BLOQUE - 1 /\ p + k - 1 = p + (k - 1)
          BY <3>2, <3>4, Constantes
        <4>2. p + (k - 1) \in Unidades
          BY <3>2, <4>1, LasUnidades
        <4> QED
          BY <4>1, <4>2 DEF Tipado
      <3>5. \A k \in 1 .. c : t[k] = datos_bloques[p + (k - 1)] /\ t[k] \in Int
        BY <3>3, <3>4
      <3>6. t \in [1 .. c -> Int]
        BY <3>3, <3>5
      <3> QED
        BY <2>2, <3>1, <3>2, <3>5, <3>6
    <2> QED
      BY <2>1, <2>2
  <1>5. BloquesDeDatos(f) = s \o t
    BY <1>1 DEF BloquesDeDatos
  <1>6. /\ s \o t \in Seq(Int) /\ Len(s \o t) = Len(s) + Len(t)
        /\ \A i \in 1 .. Len(s) + Len(t) : (s \o t)[i] = IF i <= Len(s) THEN s[i] ELSE t[i - Len(s)]
    BY <1>3, <1>4, ConcatProperties
  <1>7. Len(s) + Len(t) = Cuantos(f)
    BY <1>3, <1>4 DEF Cuantos
  <1>8. ASSUME NEW n \in 1 .. Cuantos(f) PROVE Nombra(f, n - 2, (s \o t)[n])
    <2>1. f.punteroDir # NADA /\ Len(s) = 1 /\ Cuantos(f) \in Nat
      BY <1>2, <1>3, <1>8, CuantosNatural DEF Cuantos
    <2>2. CASE n = 1
      BY <1>3, <1>6, <1>7, <2>1, <2>2 DEF Nombra, DIR
    <2>3. CASE n # 1
      <3>1. f.punteroIn # NADA /\ n - 1 \in 1 .. f.cantidad_indirectos
        BY <1>2, <2>1, <2>3 DEF Cuantos
      <3>2. (s \o t)[n] = t[n - 1] /\ (n - 1) - 1 = n - 2 /\ n - 2 \in 0 .. f.cantidad_indirectos - 1
        BY <1>2, <1>6, <1>7, <2>1, <2>3, <3>1
      <3>3. (s \o t)[n] = datos_bloques[f.punteroIn + (n - 2)]
        BY <1>4, <3>1, <3>2
      <3> QED
        BY <3>1, <3>2, <3>3 DEF Nombra
    <2> QED
      BY <2>2, <2>3
  <1> QED
    BY <1>5, <1>6, <1>7, <1>8

\* A write inside of the file leaves what its pointer block, and any other, says.
LEMMA SanoEscribir ==
    ASSUME BloquesInv, FcbInv', sano, sano', NEW a \in DOMAIN listaFCB, NEW acceso \in Accesos,
           NEW dato \in {DATO, OBSERVADO}, Escribir(a, acceso, dato)
    PROVE  Sanidad'
  <1>1. PICK W, h, v, o : /\ W = Destino(listaFCB[a], acceso) /\ h = listaFCB[a]
                          /\ v = Vigente(a) /\ o = observado
    OBVIOUS
  <1>2. /\ pc = "esperar" /\ W \subseteq Unidades /\ datos_bloques' = PonerEn(W, dato)
        /\ Dentro(v, acceso)
        /\ UNCHANGED <<listaFCB, directorio, bitmap, pc, pedido, recargados, integro, sinBloque>>
    BY <1>1 DEF Escribir, EnMarcha
  <1>3. observado' = IF dato = OBSERVADO
                     THEN [archivo |-> a, puntero |-> acceso.puntero, bytes |-> acceso.bytes]
                     ELSE IF o.archivo = a /\ W \cap Destino(h, o) # {} THEN SinObservar ELSE o
    BY <1>1 DEF Escribir
  <1>4. /\ Forma(v) /\ Contado(v) /\ Coincide(v, h) /\ Tipado
        /\ acceso.puntero \in Nat /\ acceso.bytes \in 1 .. TAM_BLOQUE
        /\ \A l, x : Nombra(v, l, x) => x \in LasBases
    <2>1. Forma(v) /\ Contado(v) /\ Coincide(v, h) /\ Tipado
      BY <1>1, ElVigente DEF Coincide, BloquesInv, FcbInv
    <2>2. acceso \in [puntero : Nat, bytes : 1 .. TAM_BLOQUE]
      BY ArchivosAssumption
    <2> QED
      BY <1>1, <2>1, <2>2, LoSuyo
  <1>5. Cabe(v, acceso)
    BY <1>2, <1>4, LosDatos DEF Dentro, Cabe
  <1>6. W = Destino(v, acceso)
    BY <1>1, <1>4, <1>5, DestinoIgual
  <1>7. \A u \in W : \E l, x : Tiene(a, l, x) /\ l # IND /\ x \in LasBases /\ u \in UnidadesDe(x)
    BY <1>1, <1>4, <1>5, <1>6, DestinoEnBloques DEF Tiene
  <1>8. /\ EscribeEn(a, W) /\ Quieto(W)
        /\ \A u \in W : datos_bloques'[u] = dato
    BY <1>2, <1>7 DEF EscribeEn, Quieto, PonerEn
  <1>9. ASSUME NEW b, NEW x, Tiene(b, IND, x), NEW u \in UnidadesDe(x)
        PROVE  datos_bloques'[u] = datos_bloques[u]
    <2>1. x \in LasBases
      BY <1>9, LoSuyo
    <2>2. ASSUME u \in W PROVE FALSE
      <3>1. PICK l, y : Tiene(a, l, y) /\ l # IND /\ y \in LasBases /\ u \in UnidadesDe(y)
        BY <1>7, <2>2
      <3>2. x # y
        BY <1>9, <3>1, LoSuyo
      <3> QED
        BY <1>9, <2>1, <3>1, <3>2, Separadas
    <2>3. u \in Unidades
      BY <1>9, <2>1, LasUnidades
    <2> QED
      BY <1>8, <2>2, <2>3 DEF Quieto
  <1>10. ASSUME NEW b, NEW f, Contado(f), f.punteroIn # NADA => Tiene(b, IND, f.punteroIn)
         PROVE  \A k \in 0 .. f.cantidad_indirectos - 1 :
                    f.punteroIn # NADA =>
                        datos_bloques'[f.punteroIn + k] = datos_bloques[f.punteroIn + k]
    <2> SUFFICES ASSUME NEW k \in 0 .. f.cantidad_indirectos - 1, f.punteroIn # NADA
                 PROVE  datos_bloques'[f.punteroIn + k] = datos_bloques[f.punteroIn + k]
      OBVIOUS
    <2>1. f.punteroIn \in LasBases /\ Tiene(b, IND, f.punteroIn)
      BY <1>10, LoSuyo
    <2>2. k \in 0 .. TAM_BLOQUE - 1
      BY <1>10, Constantes DEF Contado
    <2>3. f.punteroIn + k \in UnidadesDe(f.punteroIn)
      BY <2>1, <2>2, LasUnidades
    <2> QED
      BY <1>9, <2>1, <2>3
  <1>11. \A b : Vigente(b)' = Vigente(b)
    BY <1>2 DEF Vigente
  <1>12. ASSUME NEW b \in DOMAIN listaFCB
         PROVE  /\ \A l, x : Nombra(Vigente(b), l, x)' <=> Nombra(Vigente(b), l, x)
                /\ \A l, x : Nombra(directorio[b], l, x)' <=> Nombra(directorio[b], l, x)
    <2>1. PICK w, d : w = Vigente(b) /\ d = directorio[b]
      OBVIOUS
    <2>2. Contado(w) /\ Contado(d) /\ ~PorAsentar(b) /\ b \in DOMAIN directorio
      BY <1>2, <2>1, ElVigente DEF PorAsentar, BloquesInv, FcbInv, Tipado
    <2>3. w.punteroIn # NADA => Tiene(b, IND, w.punteroIn)
      BY <2>1 DEF Tiene, Nombra
    <2>4. d.punteroIn # NADA => Tiene(b, IND, d.punteroIn)
      <3>1. d.punteroIn # NADA => EnDisco(b, IND, d.punteroIn)
        BY <2>1, <2>2 DEF EnDisco, Nombra
      <3> QED
        BY <2>2, <3>1, LoSuyo
    <2>5. \A l, x : Nombra(w, l, x)' <=> Nombra(w, l, x)
      BY <1>10, <2>2, <2>3, NombraQuieto
    <2>6. \A l, x : Nombra(d, l, x)' <=> Nombra(d, l, x)
      BY <1>10, <2>2, <2>4, NombraQuieto
    <2>7. Vigente(b)' = w /\ directorio'[b] = d
      BY <1>2, <1>11, <2>1
    <2>8. \A l, x : Nombra(Vigente(b), l, x)' <=> Nombra(w, l, x)'
      BY <2>7 DEF Nombra
    <2>9. \A l, x : Nombra(directorio[b], l, x)' <=> Nombra(d, l, x)'
      BY <2>7 DEF Nombra
    <2> QED
      BY <2>1, <2>5, <2>6, <2>8, <2>9
  <1>13. \A b, l, x : (Tiene(b, l, x)' <=> Tiene(b, l, x)) /\ (EnDisco(b, l, x)' <=> EnDisco(b, l, x))
    <2>1. DOMAIN directorio = DOMAIN listaFCB
      BY <1>4 DEF Tipado
    <2> SUFFICES ASSUME NEW b, NEW l, NEW x
                 PROVE  (Tiene(b, l, x)' <=> Tiene(b, l, x)) /\ (EnDisco(b, l, x)' <=> EnDisco(b, l, x))
      OBVIOUS
    <2>2. CASE b \in DOMAIN listaFCB
      BY <1>2, <1>12, <2>2 DEF Tiene, EnDisco
    <2>3. CASE b \notin DOMAIN listaFCB
      BY <1>2, <2>1, <2>3 DEF Tiene, EnDisco
    <2> QED
      BY <2>2, <2>3
  <1>14. Bases' = Bases
    BY <1>2 DEF Bases
  <1>15. UnDuenio'
    BY <1>13, <1>14, LoSuyo, UnDuenioCambia
  <1>16. DiscoContenido' /\ Momento' /\ NadaPerdido'
    <2>1. \A b, l, x : EnDisco(b, l, x) => Tiene(b, l, x)
      BY <1>2, LoSuyo
    <2>2. NadaPerdido
      BY DEF BloquesInv, Sanidad
    <2> QED
      BY <1>2, <1>13, <1>14, <2>1, <2>2 DEF DiscoContenido, Momento, NadaPerdido
  <1>17. Contados'
    <2> SUFFICES ASSUME NEW b \in DOMAIN listaFCB
                 PROVE  /\ Contado(Vigente(b)') /\ Contado(directorio[b])
                        /\ b \notin recargados /\ listaFCB[b].punteroIn = NADA
                               => listaFCB[b].cantidad_indirectos = 0
      BY <1>2 DEF Contados, Contado
    <2> QED
      BY <1>11 DEF BloquesInv, Sanidad, Contados
  <1>18. RanurasEnBlanco'
    <2> SUFFICES ASSUME NEW b \in DOMAIN listaFCB, NEW k \in 0 .. TAM_BLOQUE - 1,
                        b \notin recargados, listaFCB[b].punteroIn # NADA,
                        k >= listaFCB[b].cantidad_indirectos
                 PROVE  datos_bloques'[listaFCB[b].punteroIn + k] = BLANCO
      BY <1>2 DEF RanurasEnBlanco
    <2>1. PICK p : p = listaFCB[b].punteroIn
      OBVIOUS
    <2>2. Tiene(b, IND, p) /\ p \in LasBases
      BY <2>1, ElVigente, LoSuyo DEF Tiene, Nombra
    <2>3. p + k \in UnidadesDe(p)
      BY <2>2, LasUnidades
    <2>4. datos_bloques'[p + k] = datos_bloques[p + k]
      BY <1>9, <2>2, <2>3
    <2>5. datos_bloques[p + k] = BLANCO
      BY <2>1 DEF BloquesInv, Sanidad, RanurasEnBlanco
    <2> QED
      BY <2>1, <2>4, <2>5
  <1>19. EnBlanco'
    <2> SUFFICES ASSUME NEW x \in LasBases, x \notin Bases
                 PROVE  \A u \in UnidadesDe(x) : datos_bloques'[u] = BLANCO
      BY <1>14 DEF EnBlanco
    <2> QED
      BY <1>8, BlancosQuietos
  <1>20. SegunTamanio'
    <2> SUFFICES ASSUME integro, ~sinBloque, NEW b \in DOMAIN listaFCB PROVE Conforme(b)'
      BY <1>2 DEF SegunTamanio
    <2>1. Conforme(b) /\ ~EnCurso(b) /\ ~EnCurso(b)'
      BY <1>2 DEF BloquesInv, Sanidad, SegunTamanio, EnCurso
    <2> QED
      BY <1>11, <2>1, ConformeQuieto
  <1>21. ElObservado'
    <2>1. CASE dato = OBSERVADO
      <3>1. PICK n : n = [archivo |-> a, puntero |-> acceso.puntero, bytes |-> acceso.bytes]
        OBVIOUS
      <3>2. observado' = n /\ n.archivo = a /\ n.puntero = acceso.puntero /\ n.bytes = acceso.bytes
        BY <1>3, <2>1, <3>1
      <3>3. v.punteroIn # NADA => Tiene(a, IND, v.punteroIn)
        BY <1>1 DEF Tiene, Nombra
      <3>4. \A k \in 0 .. v.cantidad_indirectos - 1 :
                v.punteroIn # NADA =>
                    datos_bloques'[v.punteroIn + k] = datos_bloques[v.punteroIn + k]
        BY <1>4, <1>10, <3>3
      <3>5. Cabe(v, n)
        BY <1>5, <3>2 DEF Cabe
      <3>6. Destino(h, n)' = Destino(v, n)
        BY <1>4, <3>2, <3>4, <3>5, DestinoQuieto
      <3>7. Destino(v, n) = W
        BY <1>6, <3>2 DEF Destino
      <3>8. \A u \in Destino(h, n)' : datos_bloques'[u] = OBSERVADO
        BY <1>8, <2>1, <3>6, <3>7
      <3>9. PICK d : d = directorio[a]
        OBVIOUS
      <3>10. Cabe(d, n)
        <4>1. ~PorAsentar(a)
          BY <1>2 DEF PorAsentar
        <4>2. Cuantos(d) = Cuantos(v)
          BY <1>1, <3>9, <4>1, ElDelDisco
        <4> QED
          BY <3>5, <4>2 DEF Cabe
      <3>11. Vigente(a)' = v /\ directorio'[a] = d /\ listaFCB'[a] = h /\ a \in DOMAIN listaFCB'
        BY <1>1, <1>2, <1>11, <3>9
      <3> QED
        BY <1>2, <1>4, <3>2, <3>5, <3>8, <3>10, <3>11 DEF ElObservado, Cabe, Cuantos
    <2>2. CASE dato # OBSERVADO /\ observado' = SinObservar
      BY <2>2 DEF ElObservado
    <2>3. CASE /\ dato # OBSERVADO /\ observado' # SinObservar
               /\ observado' = o /\ ~(o.archivo = a /\ W \cap Destino(h, o) # {})
      <3>1. CASE o.archivo # a
        BY <1>1, <1>2, <1>8, <2>3, <3>1, ObservadoAjeno
      <3>2. CASE o.archivo = a
        <4>1. PICK d : d = directorio[a]
          OBVIOUS
        <4>2. /\ o.puntero \in Nat /\ o.bytes \in 1 .. TAM_BLOQUE /\ Cabe(v, o) /\ Cabe(d, o)
              /\ \A u \in Destino(h, o) : datos_bloques[u] = OBSERVADO
          BY <1>1, <2>3, <3>2, <4>1 DEF BloquesInv, Sanidad, ElObservado
        <4>3. v.punteroIn # NADA => Tiene(a, IND, v.punteroIn)
          BY <1>1 DEF Tiene, Nombra
        <4>4. \A k \in 0 .. v.cantidad_indirectos - 1 :
                  v.punteroIn # NADA =>
                      datos_bloques'[v.punteroIn + k] = datos_bloques[v.punteroIn + k]
          BY <1>4, <1>10, <4>3
        <4>5. Destino(h, o) = Destino(v, o)
          BY <1>4, <4>2, DestinoIgual
        <4>6. Destino(h, o)' = Destino(v, o)
          BY <1>4, <4>2, <4>4, DestinoQuieto
        <4>7. ASSUME NEW u \in Destino(v, o) PROVE datos_bloques'[u] = OBSERVADO
          <5>1. u \in Unidades
            BY <1>4, <4>2, <4>7, DestinoEnBloques, LasUnidades
          <5>2. u \notin W /\ datos_bloques[u] = OBSERVADO
            BY <2>3, <3>2, <4>2, <4>5, <4>7
          <5> QED
            BY <1>8, <5>1, <5>2 DEF Quieto
        <4>8. \A u \in Destino(h, o)' : datos_bloques'[u] = OBSERVADO
          BY <4>6, <4>7
        <4>9. Vigente(a)' = v /\ directorio'[a] = d /\ listaFCB'[a] = h /\ a \in DOMAIN listaFCB'
          BY <1>1, <1>2, <1>11, <4>1
        <4> QED
          BY <1>2, <2>3, <3>2, <4>2, <4>8, <4>9 DEF ElObservado, Cabe, Cuantos
      <3> QED
        BY <3>1, <3>2
    <2> QED
      BY <1>3, <2>1, <2>2, <2>3
  <1> QED
    BY <1>15, <1>16, <1>17, <1>18, <1>19, <1>20, <1>21 DEF Sanidad

-----------------------------------------------------------------------------
(* The blocks that are taken *)

\* A block more for file a, number i, in place l0, whose FCB becomes f; W is written.
Toma(a, f, i) ==
    /\ a = pedido.archivo /\ pc \in {"ocupar", "ocuparOtro"} /\ pc' \in {"ocuparOtro", "asentar"}
    /\ bitmap' = bitmap \cup {i} /\ ConFCB(f)
    /\ UNCHANGED <<directorio, pedido, recargados, integro, sinBloque, observado>>
SinTocar(f) ==
    \A k \in 0 .. f.cantidad_indirectos - 1 :
        f.punteroIn # NADA => datos_bloques'[f.punteroIn + k] = datos_bloques[f.punteroIn + k]
SoloEn(a, h, f, W) ==
    /\ EscribeEn(a, W) /\ Quieto(W) /\ SinTocar(h)
    /\ \A l, x : Tiene(a, l, x) /\ l # IND =>
           \A u \in UnidadesDe(x) : datos_bloques'[u] = datos_bloques[u]
    /\ f.punteroIn # NADA =>
           \A k \in 0 .. TAM_BLOQUE - 1 :
               k >= f.cantidad_indirectos => datos_bloques'[f.punteroIn + k] = BLANCO
Agrega(h, d, f, l0, x0) ==
    /\ \A l, x : Nombra(f, l, x)' <=> Nombra(h, l, x) \/ (l = l0 /\ x = x0)
    /\ \A l, x : Nombra(d, l, x)' <=> Nombra(d, l, x)
    /\ Coincide(h, f)
Cuenta(a, h, f) ==
    /\ a \notin recargados \/ (h.punteroIn = NADA /\ f.punteroIn = NADA)
    /\ Contado(f) /\ (a \notin recargados /\ f.punteroIn = NADA => f.cantidad_indirectos = 0)
    /\ Cuantos(f) = Cuantos(h) + (IF pc' = "asentar" THEN 1 ELSE 0)
    /\ f.punteroIn # NADA => Cuantos(f) > 1 \/ pc' = "ocuparOtro"
    /\ Cuantos(f) > 1 => f.punteroIn # NADA

LEMMA SanoOcupar ==
    ASSUME BloquesInv, FcbInv', sano, NEW a, NEW h, NEW d, NEW f, NEW i \in Bloques \ bitmap,
           NEW l0, NEW x0, NEW W, h = listaFCB[a], d = directorio[a], x0 = i * TAM_BLOQUE,
           Toma(a, f, i), SoloEn(a, h, f, W), Agrega(h, d, f, l0, x0), Cuenta(a, h, f), Momento'
    PROVE  Sanidad'
  <1> USE DEF Toma, SoloEn, Agrega, Cuenta
  <1>2. /\ a \in DOMAIN listaFCB /\ DOMAIN directorio = DOMAIN listaFCB /\ bitmap \subseteq Bloques
        /\ listaFCB' = [listaFCB EXCEPT ![a] = f]
    BY DEF BloquesInv, FcbInv, Tipado, ConFCB
  <1>3. /\ DOMAIN listaFCB' = DOMAIN listaFCB /\ listaFCB'[a] = f /\ directorio'[a] = d
        /\ DOMAIN directorio' = DOMAIN directorio
        /\ \A b : b # a => listaFCB'[b] = listaFCB[b]
    BY <1>2
  <1>4. Vigente(a) = h /\ Vigente(a)' = f
    BY <1>3 DEF Vigente
  <1>5. Bases' = Bases \cup {x0} /\ x0 \notin Bases
    <2>1. Bases = BasesDe(bitmap) /\ Bases' = BasesDe(bitmap \cup {i})
      BY DEF Bases, BasesDe
    <2> QED
      BY <1>2, <2>1, BaseMarcada
  <1>6. \A l, x : Nombra(f, l, x)' <=> Nombra(h, l, x) \/ (l = l0 /\ x = x0)
    OBVIOUS
  <1>7. \A l, x : Tiene(a, l, x)' <=> Tiene(a, l, x) \/ (l = l0 /\ x = x0)
    <2>1. \A l, x : Tiene(a, l, x)' <=> Nombra(f, l, x)'
      BY <1>2, <1>3, <1>4 DEF Tiene
    <2>2. \A l, x : Tiene(a, l, x) <=> Nombra(h, l, x)
      BY <1>2, <1>4 DEF Tiene
    <2> QED
      BY <1>6, <2>1, <2>2
  <1>8. \A l, x : EnDisco(a, l, x)' <=> EnDisco(a, l, x)
    <2>1. \A l, x : EnDisco(a, l, x)' <=> Nombra(d, l, x)'
      BY <1>2, <1>3 DEF EnDisco, Nombra
    <2>2. \A l, x : EnDisco(a, l, x) <=> Nombra(d, l, x)
      BY <1>2 DEF EnDisco
    <2> QED
      BY <2>1, <2>2
  <1>9. ASSUME NEW b \in DOMAIN listaFCB, b # a
        PROVE  /\ Vigente(b)' = Vigente(b)
               /\ \A l, x : Tiene(b, l, x)' <=> Tiene(b, l, x)
               /\ \A l, x : EnDisco(b, l, x)' <=> EnDisco(b, l, x)
    <2>1. /\ listaFCB'[b] = listaFCB[b] /\ directorio'[b] = directorio[b]
          /\ ~(PorAsentar(b) /\ pc = "asentarLiberado")
      BY <1>3, <1>9
    <2> QED
      BY <1>3, <1>9, <2>1, OtrosQuietos
  <1>10. \A b, l, x : Tiene(b, l, x)' <=> Tiene(b, l, x) \/ (b = a /\ l = l0 /\ x = x0)
    <2> SUFFICES ASSUME NEW b, NEW l, NEW x
                 PROVE  Tiene(b, l, x)' <=> Tiene(b, l, x) \/ (b = a /\ l = l0 /\ x = x0)
      OBVIOUS
    <2>1. CASE b = a
      BY <1>7, <2>1
    <2>2. CASE b # a /\ b \in DOMAIN listaFCB
      BY <1>9, <2>2
    <2>3. CASE b # a /\ b \notin DOMAIN listaFCB
      BY <1>3, <2>3 DEF Tiene
    <2> QED
      BY <2>1, <2>2, <2>3
  <1>11. \A b, l, x : EnDisco(b, l, x)' <=> EnDisco(b, l, x)
    <2> SUFFICES ASSUME NEW b, NEW l, NEW x PROVE EnDisco(b, l, x)' <=> EnDisco(b, l, x)
      OBVIOUS
    <2>1. CASE b = a
      BY <1>8, <2>1
    <2>2. CASE b # a /\ b \in DOMAIN listaFCB
      BY <1>9, <2>2
    <2>3. CASE b # a /\ b \notin DOMAIN listaFCB
      BY <1>2, <1>3, <2>3 DEF EnDisco
    <2> QED
      BY <2>1, <2>2, <2>3
  <1>12. UnDuenio'
    <2>1. \A b, l, x : Tiene(b, l, x)' =>
              x \in Bases' /\ (Tiene(b, l, x) \/ (b = a /\ l = l0 /\ x = x0 /\ x \notin Bases))
      BY <1>5, <1>10, LoSuyo
    <2> QED
      BY ONLY BloquesInv, sano, <2>1, UnDuenioCambia
  <1>13. DiscoContenido'
    <2>1. \A b, l, x : EnDisco(b, l, x) => Tiene(b, l, x)
      BY LoSuyo
    <2> QED
      BY <1>10, <1>11, <2>1 DEF DiscoContenido
  <1>14. NadaPerdido'
    BY <1>5, <1>10, NadaPerdidoCambia
  <1>15. EnBlanco'
    <2> SUFFICES ASSUME NEW x \in LasBases, x \notin Bases
                 PROVE  \A u \in UnidadesDe(x) : datos_bloques'[u] = BLANCO
      BY <1>5 DEF EnBlanco
    <2> QED
      BY BlancosQuietos
  <1>16. Contados'
    <2> SUFFICES ASSUME NEW b \in DOMAIN listaFCB
                 PROVE  /\ Contado(Vigente(b)') /\ Contado(directorio[b])
                        /\ b \notin recargados /\ listaFCB'[b].punteroIn = NADA
                               => listaFCB'[b].cantidad_indirectos = 0
      BY <1>3 DEF Contados, Contado
    <2>1. /\ Contado(Vigente(b)) /\ Contado(directorio[b])
          /\ b \notin recargados /\ listaFCB[b].punteroIn = NADA
                 => listaFCB[b].cantidad_indirectos = 0
      BY DEF BloquesInv, Sanidad, Contados
    <2>2. CASE b = a
      BY <1>3, <1>4, <2>1, <2>2
    <2>3. CASE b # a
      BY <1>3, <1>9, <2>1, <2>3
    <2> QED
      BY <2>2, <2>3
  <1>17. RanurasEnBlanco'
    <2> SUFFICES ASSUME NEW b \in DOMAIN listaFCB, NEW k \in 0 .. TAM_BLOQUE - 1,
                        b \notin recargados, listaFCB'[b].punteroIn # NADA,
                        k >= listaFCB'[b].cantidad_indirectos
                 PROVE  datos_bloques'[listaFCB'[b].punteroIn + k] = BLANCO
      BY <1>3 DEF RanurasEnBlanco
    <2>1. CASE b = a
      BY <1>3, <2>1
    <2>2. CASE b # a
      <3>1. listaFCB'[b] = listaFCB[b]
        BY <1>3, <2>2
      <3> QED
        BY <2>2, <3>1, RanurasBlancasAjenas
    <2> QED
      BY <2>1, <2>2
  <1>18. SegunTamanio'
    <2> SUFFICES ASSUME integro, ~sinBloque, NEW b \in DOMAIN listaFCB PROVE Conforme(b)'
      BY <1>3 DEF SegunTamanio
    <2>1. Conforme(b)
      BY DEF BloquesInv, Sanidad, SegunTamanio
    <2>2. CASE b # a
      BY <1>9, <2>1, <2>2, ConformeQuieto DEF EnCurso
    <2>3. CASE b = a
      <3>1. PICK n, m : n = BloquesPara(pedido.tamanio) /\ m = pedido.faltan
        OBVIOUS
      <3>2. n \in Nat /\ m \in Nat
        BY <3>1, BloquesParaNatural, Constantes DEF BloquesInv, FcbInv, Tipado
      <3>3. /\ EnCurso(a) /\ EnCurso(a)' /\ Saldo = 0 - m
            /\ Saldo' = IF pc' = "asentar" THEN 1 - m ELSE 0 - m
        BY <3>1 DEF EnCurso, Saldo
      <3>4. BloquesPara(pedido.tamanio)' = n
        BY <3>1 DEF BloquesPara
      <3>5. Cuantos(h) = n + (0 - m)
        BY <1>4, <2>1, <2>3, <3>1, <3>3 DEF Conforme
      <3>7. Cuantos(f) = n + Saldo'
        BY <3>2, <3>3, <3>5
      <3>8. Cuantos(Vigente(a))' = Cuantos(f)
        BY <1>4 DEF Cuantos
      <3> QED
        BY <1>4, <2>3, <3>3, <3>4, <3>7, <3>8 DEF Conforme
    <2> QED
      BY <2>2, <2>3
  <1>19. ElObservado'
    <2>1. CASE observado = SinObservar
      BY <2>1 DEF ElObservado
    <2>2. CASE observado # SinObservar /\ observado.archivo # a
      <3>1. PICK b : b = observado.archivo
        OBVIOUS
      <3>2. listaFCB'[b] = listaFCB[b] /\ directorio'[b] = directorio[b]
        BY <1>3, <2>2, <3>1
      <3> QED
        BY <1>3, <2>2, <3>1, <3>2, ObservadoAjeno
    <2>3. CASE observado # SinObservar /\ observado.archivo = a
      <3>1. Cabe(h, observado) /\ Cabe(d, observado)
        BY <1>4, <2>3 DEF BloquesInv, Sanidad, ElObservado
      <3>2. Cuantos(h) \in Nat
        BY <1>2, <1>4, ElVigente, CuantosNatural
      <3>3. Cabe(f, observado)
        <4>1. PICK q : q = (observado.puntero + observado.bytes) \div TAM_BLOQUE
          OBVIOUS
        <4>2. q \in Int
          BY <2>3, <4>1, Constantes DEF BloquesInv, Sanidad, ElObservado
        <4> QED
          BY <3>1, <3>2, <4>1, <4>2 DEF Cabe
      <3>4. Cabe(Vigente(a), observado)' /\ Cabe(directorio[a], observado)'
        BY <1>3, <1>4, <3>1, <3>3 DEF Cabe
      <3>7. \A k \in 0 .. Vigente(a).cantidad_indirectos - 1 :
                Vigente(a).punteroIn # NADA =>
                    datos_bloques'[Vigente(a).punteroIn + k] = datos_bloques[Vigente(a).punteroIn + k]
        BY <1>4 DEF SinTocar
      <3>8. Coincide(Vigente(a), listaFCB'[a])
        BY <1>3, <1>4
      <3> QED
        BY <1>2, <1>3, <2>3, <3>4, <3>7, <3>8, ObservadoSigue
    <2> QED
      BY <2>1, <2>2, <2>3
  <1> QED
    BY <1>12, <1>13, <1>14, <1>15, <1>16, <1>17, <1>18, <1>19 DEF Sanidad

\* What a truncation that takes blocks finds in the FCB of its file.
LEMMA LoQueEncuentra ==
    ASSUME BloquesInv, sano, pc # "esperar", NEW a, NEW h, a = pedido.archivo, h = listaFCB[a]
    PROVE  /\ a \in DOMAIN listaFCB /\ Forma(h) /\ h \in FCBs /\ Actual = h
           /\ a \notin recargados /\ h.punteroIn = NADA => h.cantidad_indirectos = 0
           /\ a \notin recargados \/ h.punteroIn = NADA => Vigente(a) = h /\ Contado(h)
  <1>1. a \in DOMAIN listaFCB /\ Actual = h
    BY DEF BloquesInv, FcbInv, Tipado, Actual
  <1>2. Forma(h) /\ h \in FCBs
    BY <1>1 DEF BloquesInv, FcbInv, Tipado, Forma
  <1>3. a \notin recargados /\ h.punteroIn = NADA => h.cantidad_indirectos = 0
    BY <1>1 DEF BloquesInv, Sanidad, Contados
  <1>4. a \notin recargados \/ h.punteroIn = NADA => Vigente(a) = h
    BY DEF Vigente
  <1>5. Contado(Vigente(a))
    BY <1>1, ElVigente
  <1> QED
    BY <1>1, <1>2, <1>3, <1>4, <1>5

LEMMA SanoOcupaDirecto ==
    ASSUME BloquesInv, FcbInv', sano, sano', NEW i \in Bloques \ bitmap, OcupaDirecto(i)
    PROVE  Sanidad'
  <1>1. PICK a, h, d, x0 : /\ a = pedido.archivo /\ h = listaFCB[a] /\ d = directorio[a]
                           /\ x0 = i * TAM_BLOQUE
    OBVIOUS
  <1>2. PICK f : f = [h EXCEPT !.punteroDir = x0]
    OBVIOUS
  <1>3. pc = "ocupar"
    BY DEF OcupaDirecto, EnMarcha
  <1>4. /\ a \in DOMAIN listaFCB /\ Forma(h) /\ h \in FCBs /\ Actual = h
        /\ a \notin recargados /\ h.punteroIn = NADA => h.cantidad_indirectos = 0
        /\ h.punteroIn = NADA => Contado(h)
    BY <1>1, <1>3, LoQueEncuentra
  <1>5. /\ bitmap' = bitmap \cup {i} /\ ConFCB(f) /\ pc' = "asentar"
        /\ UNCHANGED <<directorio, datos_bloques, pedido, recargados, integro, sinBloque, observado>>
        /\ h.punteroDir = NADA /\ h.punteroIn = NADA
    BY <1>1, <1>2, <1>4 DEF OcupaDirecto, historia, Forma
  <1>6. x0 \in LasBases /\ x0 # NADA
    BY <1>1, UnaBase, LasUnidades
  <1>7. /\ f.punteroDir = x0 /\ f.punteroIn = NADA
        /\ f.cantidad_indirectos = h.cantidad_indirectos
    BY <1>2, <1>4, <1>5 DEF FCBs
  <1>8. \A l, x : Nombra(f, l, x)' <=> Nombra(h, l, x) \/ (l = DIR /\ x = x0)
    BY <1>5, <1>6, <1>7 DEF Nombra
  <1>9. \A l, x : Nombra(d, l, x)' <=> Nombra(d, l, x)
    BY <1>5 DEF Nombra
  <1>10. Cuantos(f) = 1 /\ Cuantos(h) = 0
    BY <1>5, <1>6, <1>7 DEF Cuantos
  <1>11. Coincide(h, f) /\ Contado(f)
    BY <1>5, <1>7 DEF Coincide, Contado
  <1>12. Momento'
    <2>1. ConFCB(f) /\ a \in DOMAIN listaFCB /\ pedido' = pedido
      BY <1>4, <1>5
    <2>2. Actual' = f
      BY <1>1, <2>1 DEF Actual, ConFCB
    <2> QED
      BY <1>5, <1>7, <2>2 DEF Momento
  <1>13. EscribeEn(a, {}) /\ Quieto({})
    BY <1>5 DEF EscribeEn, Quieto
  <1>14. Toma(a, f, i)
    BY <1>1, <1>3, <1>5 DEF Toma
  <1>15. SoloEn(a, h, f, {})
    BY <1>5, <1>7, <1>13 DEF SoloEn, SinTocar
  <1>16. Agrega(h, d, f, DIR, x0)
    BY <1>8, <1>9, <1>11 DEF Agrega
  <1>17. Cuenta(a, h, f)
    BY <1>4, <1>5, <1>7, <1>10, <1>11 DEF Cuenta
  <1> QED
    BY <1>1, <1>12, <1>14, <1>15, <1>16, <1>17, SanoOcupar

LEMMA SanoOcupaPuntero ==
    ASSUME BloquesInv, FcbInv', sano, sano', NEW i \in Bloques \ bitmap, OcupaPuntero(i)
    PROVE  Sanidad'
  <1>1. PICK a, h, d, x0 : /\ a = pedido.archivo /\ h = listaFCB[a] /\ d = directorio[a]
                           /\ x0 = i * TAM_BLOQUE
    OBVIOUS
  <1>2. PICK f : f = [h EXCEPT !.punteroIn = x0]
    OBVIOUS
  <1>3. pc = "ocupar"
    BY DEF OcupaPuntero, EnMarcha
  <1>4. /\ a \in DOMAIN listaFCB /\ Forma(h) /\ h \in FCBs /\ Actual = h
        /\ a \notin recargados /\ h.punteroIn = NADA => h.cantidad_indirectos = 0
        /\ a \notin recargados \/ h.punteroIn = NADA => Vigente(a) = h
    BY <1>1, <1>3, LoQueEncuentra
  <1>5. /\ bitmap' = bitmap \cup {i} /\ ConFCB(f) /\ pc' = "ocuparOtro" /\ a \notin recargados
        /\ UNCHANGED <<directorio, datos_bloques, pedido, recargados, integro, sinBloque, observado>>
        /\ h.punteroDir # NADA /\ h.punteroIn = NADA
    BY <1>1, <1>2, <1>4 DEF OcupaPuntero, Confunde
  <1>6. x0 \in LasBases /\ x0 # NADA /\ x0 \notin Bases
    <2>1. Bases = BasesDe(bitmap)
      BY DEF Bases, BasesDe
    <2>2. bitmap \subseteq Bloques
      BY DEF BloquesInv, FcbInv, Tipado
    <2> QED
      BY <1>1, <2>1, <2>2, UnaBase, LasUnidades, BaseMarcada
  <1>7. f.punteroDir = h.punteroDir /\ f.punteroIn = x0 /\ f.cantidad_indirectos = 0
    BY <1>2, <1>4, <1>5 DEF FCBs
  <1>8. \A l, x : Nombra(f, l, x)' <=> Nombra(h, l, x) \/ (l = IND /\ x = x0)
    BY <1>5, <1>6, <1>7 DEF Nombra
  <1>9. \A l, x : Nombra(d, l, x)' <=> Nombra(d, l, x)
    BY <1>5 DEF Nombra
  <1>10. Cuantos(f) = 1 /\ Cuantos(h) = 1
    BY <1>5, <1>6, <1>7 DEF Cuantos
  <1>11. Coincide(h, f) /\ Contado(f)
    BY <1>5, <1>7, Constantes DEF Coincide, Contado
  <1>12. Momento'
    <2>1. ConFCB(f) /\ a \in DOMAIN listaFCB /\ pedido' = pedido
      BY <1>4, <1>5
    <2>2. Actual' = f
      BY <1>1, <2>1 DEF Actual, ConFCB
    <2>3. directorio[a].punteroIn = NADA
      BY <1>3, <1>4, <1>5, ElDelDisco DEF PorAsentar
    <2> QED
      BY <1>1, <1>5, <1>6, <1>7, <2>2, <2>3 DEF Momento
  <1>13. EscribeEn(a, {}) /\ Quieto({})
    BY <1>5 DEF EscribeEn, Quieto
  <1>14. \A k \in 0 .. TAM_BLOQUE - 1 : datos_bloques'[f.punteroIn + k] = BLANCO
    BY <1>5, <1>6, <1>7, LasUnidades DEF BloquesInv, Sanidad, EnBlanco
  <1>15. Toma(a, f, i)
    BY <1>1, <1>3, <1>5 DEF Toma
  <1>16. SoloEn(a, h, f, {})
    BY <1>5, <1>13, <1>14 DEF SoloEn, SinTocar
  <1>17. Agrega(h, d, f, IND, x0)
    BY <1>8, <1>9, <1>11 DEF Agrega
  <1>18. Cuenta(a, h, f)
    BY <1>5, <1>6, <1>7, <1>10, <1>11 DEF Cuenta
  <1> QED
    BY <1>1, <1>12, <1>15, <1>16, <1>17, <1>18, SanoOcupar

LEMMA SanoOcupaRanura ==
    ASSUME BloquesInv, FcbInv', sano, sano', NEW i \in Bloques \ bitmap, OcupaRanura(i)
    PROVE  Sanidad'
  <1>1. PICK a, h, d, x0, p, c : /\ a = pedido.archivo /\ h = listaFCB[a] /\ d = directorio[a]
                                 /\ x0 = i * TAM_BLOQUE
                                 /\ p = h.punteroIn /\ c = h.cantidad_indirectos
    OBVIOUS
  <1>2. PICK f : f = [h EXCEPT !.cantidad_indirectos = c + 1]
    OBVIOUS
  <1>3. /\ pc \in {"ocupar", "ocuparOtro"}
        /\ pc = "ocupar" => Actual.punteroIn # NADA
    BY DEF OcupaRanura, EnMarcha
  <1>4. /\ a \in DOMAIN listaFCB /\ Forma(h) /\ h \in FCBs /\ Actual = h
        /\ a \notin recargados => Vigente(a) = h /\ Contado(h)
    BY <1>1, <1>3, LoQueEncuentra
  <1>5. p # NADA
    BY <1>1, <1>3, <1>4 DEF BloquesInv, Sanidad, Momento
  <1>6. /\ AnotarIndirecto(i) /\ p + c \in Unidades
    BY <1>1, <1>4 DEF OcupaRanura
  <1>7. /\ bitmap' = bitmap \cup {i} /\ ConFCB(f) /\ pc' = "asentar" /\ a \notin recargados
        /\ c \in 0 .. TAM_BLOQUE - 1 /\ datos_bloques' = PonerEn({p + c}, x0)
        /\ UNCHANGED <<directorio, pedido, recargados, integro, sinBloque, observado>>
    BY <1>1, <1>2, <1>4, <1>6 DEF AnotarIndirecto, Confunde
  <1>8. /\ p \in LasBases /\ p \in Nat /\ Tiene(a, IND, p) /\ h.punteroDir # NADA
        /\ p + c \in UnidadesDe(p)
    <2>1. Tiene(a, IND, p)
      BY <1>1, <1>4, <1>5, <1>7 DEF Tiene, Nombra
    <2>2. p \in LasBases /\ h.punteroDir # NADA
      BY <1>1, <1>4, <1>5 DEF Forma
    <2> QED
      BY <1>7, <2>1, <2>2, LasUnidades
  <1>9. EscribeEn(a, {p + c})
    BY <1>8 DEF EscribeEn
  <1>10. /\ Quieto({p + c}) /\ datos_bloques'[p + c] = x0
         /\ \A u \in Unidades : u # p + c => datos_bloques'[u] = datos_bloques[u]
    BY <1>6, <1>7 DEF Quieto, PonerEn
  <1>11. ASSUME NEW k \in 0 .. TAM_BLOQUE - 1, k # c
         PROVE  datos_bloques'[p + k] = datos_bloques[p + k]
    <2>1. p + k \in Unidades /\ p + k # p + c
      BY <1>7, <1>8, <1>11, LasUnidades, Constantes
    <2> QED
      BY <1>10, <2>1
  <1>12. ASSUME NEW l, NEW x, Tiene(a, l, x), l # IND, NEW u \in UnidadesDe(x)
         PROVE  datos_bloques'[u] = datos_bloques[u]
    <2>1. x \in LasBases /\ x # p
      BY <1>8, <1>12, LoSuyo
    <2>2. u \in Unidades /\ u # p + c
      BY <1>8, <1>12, <2>1, LasUnidades, Separadas
    <2> QED
      BY <1>10, <2>2
  <1>13. /\ f.punteroDir = h.punteroDir /\ f.punteroIn = p /\ f.cantidad_indirectos = c + 1
    BY <1>1, <1>2, <1>4 DEF FCBs
  <1>14. ASSUME NEW l, NEW x PROVE Nombra(f, l, x)' <=> Nombra(h, l, x) \/ (l = c /\ x = x0)
    <2>1. Nombra(f, l, x)' <=> \/ l = DIR /\ x = h.punteroDir
                               \/ l = IND /\ x = p
                               \/ l \in 0 .. c /\ x = datos_bloques'[p + l]
      <3>1. (c + 1) - 1 = c
        BY <1>7
      <3> QED
        BY <1>5, <1>8, <1>13, <3>1 DEF Nombra
    <2>2. Nombra(h, l, x) <=> \/ l = DIR /\ x = h.punteroDir
                              \/ l = IND /\ x = p
                              \/ l \in 0 .. c - 1 /\ x = datos_bloques[p + l]
      BY <1>1, <1>5, <1>8 DEF Nombra
    <2>3. l \in 0 .. c <=> l \in 0 .. c - 1 \/ l = c
      BY <1>7, Constantes
    <2>4. l \in 0 .. c - 1 => datos_bloques'[p + l] = datos_bloques[p + l]
      BY <1>7, <1>11, Constantes
    <2> QED
      BY <1>10, <2>1, <2>2, <2>3, <2>4
  <1>15. \A l, x : Nombra(d, l, x)' <=> Nombra(d, l, x)
    <2>1. d.punteroIn = NADA \/ (d.punteroIn = p /\ d.cantidad_indirectos = c)
      <3>1. CASE pc = "ocuparOtro"
        BY <1>1, <3>1 DEF BloquesInv, Sanidad, Momento
      <3>2. CASE pc = "ocupar"
        <4>1. ~PorAsentar(a)
          BY <3>2 DEF PorAsentar
        <4> QED
          BY <1>1, <1>4, <1>5, <1>7, <4>1, ElDelDisco
      <3> QED
        BY <1>3, <3>1, <3>2
    <2>2. ASSUME NEW k \in 0 .. d.cantidad_indirectos - 1, d.punteroIn # NADA
          PROVE  datos_bloques'[d.punteroIn + k] = datos_bloques[d.punteroIn + k]
      <3>1. k \in 0 .. TAM_BLOQUE - 1 /\ k # c
        BY <1>7, <2>1, <2>2, Constantes
      <3> QED
        BY <1>11, <2>1, <2>2, <3>1
    <2> QED
      BY <2>2, NombraQuieto
  <1>16. Cuantos(h) = 1 + c /\ Cuantos(f) = 1 + (c + 1)
    BY <1>1, <1>5, <1>8, <1>13 DEF Cuantos
  <1>17. Coincide(h, f) /\ Contado(f)
    BY <1>1, <1>7, <1>13, Constantes DEF Coincide, Contado
  <1>18. Momento'
    BY <1>1, <1>7 DEF Momento
  <1>19. \A k \in 0 .. TAM_BLOQUE - 1 :
             k >= f.cantidad_indirectos => datos_bloques'[f.punteroIn + k] = BLANCO
    <2> SUFFICES ASSUME NEW k \in 0 .. TAM_BLOQUE - 1, k >= c + 1
                 PROVE  datos_bloques'[p + k] = BLANCO
      BY <1>13
    <2>1. k # c /\ k >= c
      BY <1>7
    <2>2. datos_bloques[p + k] = BLANCO
      BY <1>1, <1>4, <1>5, <1>7, <2>1 DEF BloquesInv, Sanidad, RanurasEnBlanco
    <2> QED
      BY <1>11, <2>1, <2>2
  <1>20. SinTocar(h)
    <2> SUFFICES ASSUME NEW k \in 0 .. c - 1 PROVE datos_bloques'[p + k] = datos_bloques[p + k]
      BY <1>1 DEF SinTocar
    <2>1. k \in 0 .. TAM_BLOQUE - 1 /\ k # c
      BY <1>7, Constantes
    <2> QED
      BY <1>11, <2>1
  <1>21. Toma(a, f, i)
    BY <1>1, <1>3, <1>7 DEF Toma
  <1>22. SoloEn(a, h, f, {p + c})
    BY <1>9, <1>10, <1>12, <1>19, <1>20 DEF SoloEn
  <1>23. Agrega(h, d, f, c, x0)
    BY <1>14, <1>15, <1>17 DEF Agrega
  <1>24. Cuenta(a, h, f)
    BY <1>5, <1>7, <1>13, <1>16, <1>17 DEF Cuenta
  <1> QED
    BY <1>1, <1>18, <1>21, <1>22, <1>23, <1>24, SanoOcupar

-----------------------------------------------------------------------------
(* The blocks that are given back *)

\* File a gives back the blocks X and its FCB becomes f; W is written.
Suelta(a, f, X) ==
    /\ a = pedido.archivo /\ pc = "liberar" /\ pc' = "asentarLiberado" /\ ConFCB(f)
    /\ UNCHANGED <<directorio, pedido, recargados, integro, sinBloque, observado>>
    /\ Bases' = Bases \ X /\ \A x \in X : \E l : Tiene(a, l, x)
Borra(a, f, X, W) ==
    /\ EscribeEn(a, W) /\ Quieto(W)
    /\ \A x \in X : \A u \in UnidadesDe(x) : datos_bloques'[u] = BLANCO
    /\ f.punteroIn # NADA =>
           \A k \in 0 .. TAM_BLOQUE - 1 :
               k >= f.cantidad_indirectos => datos_bloques'[f.punteroIn + k] = BLANCO
Descuenta(a, h, f) ==
    /\ a \notin recargados \/ (h.punteroIn = NADA /\ f.punteroIn = NADA)
    /\ Contado(f) /\ (a \notin recargados /\ f.punteroIn = NADA => f.cantidad_indirectos = 0)
    /\ Cuantos(f) = Cuantos(h) - 1
    /\ f.punteroIn # NADA => Cuantos(f) > 1
    /\ Cuantos(f) > 1 => f.punteroIn # NADA

LEMMA SanoLiberar ==
    ASSUME BloquesInv, FcbInv', sano, NEW a, NEW h, NEW f, NEW X, NEW W, h = listaFCB[a],
           Suelta(a, f, X), Borra(a, f, X, W), Descuenta(a, h, f),
           \A l, x : Nombra(f, l, x)' <=> Nombra(h, l, x) /\ x \notin X
    PROVE  Sanidad'
  <1>1. /\ a = pedido.archivo /\ pc = "liberar" /\ pc' = "asentarLiberado" /\ ConFCB(f)
        /\ UNCHANGED <<directorio, pedido, recargados, integro, sinBloque, observado>>
        /\ Bases' = Bases \ X /\ \A x \in X : \E l : Tiene(a, l, x)
    BY DEF Suelta
  <1>2. EscribeEn(a, W) /\ Quieto(W)
    BY DEF Borra
  <1>3. PICK d : d = directorio[a]
    OBVIOUS
  <1>4. /\ a \in DOMAIN listaFCB /\ DOMAIN directorio = DOMAIN listaFCB
        /\ listaFCB' = [listaFCB EXCEPT ![a] = f]
    BY <1>1 DEF BloquesInv, FcbInv, Tipado, ConFCB
  <1>5. /\ DOMAIN listaFCB' = DOMAIN listaFCB /\ listaFCB'[a] = f /\ directorio'[a] = d
        /\ DOMAIN directorio' = DOMAIN directorio
        /\ \A b : b # a => listaFCB'[b] = listaFCB[b]
    BY <1>1, <1>3, <1>4
  <1>6. Vigente(a) = h /\ Vigente(a)' = f
    BY <1>1, <1>5 DEF Vigente, Descuenta
  <1>7. \A l, x : Tiene(a, l, x)' <=> Tiene(a, l, x) /\ x \notin X
    <2>1. \A l, x : Tiene(a, l, x)' <=> Nombra(f, l, x)'
      BY <1>4, <1>5, <1>6 DEF Tiene
    <2>2. \A l, x : Tiene(a, l, x) <=> Nombra(h, l, x)
      BY <1>4, <1>6 DEF Tiene
    <2> QED
      BY <2>1, <2>2
  <1>8. ASSUME NEW b \in DOMAIN listaFCB, b # a
        PROVE  /\ Vigente(b)' = Vigente(b)
               /\ \A l, x : Tiene(b, l, x)' <=> Tiene(b, l, x)
               /\ \A l, x : EnDisco(b, l, x)' <=> EnDisco(b, l, x)
    <2>1. /\ listaFCB'[b] = listaFCB[b] /\ directorio'[b] = directorio[b]
          /\ ~(PorAsentar(b) /\ pc = "asentarLiberado")
      BY <1>1, <1>5, <1>8
    <2> QED
      BY <1>1, <1>2, <1>5, <1>8, <2>1, OtrosQuietos
  <1>9. \A b, l, x : Tiene(b, l, x)' <=> Tiene(b, l, x) /\ x \notin X
    <2> SUFFICES ASSUME NEW b, NEW l, NEW x
                 PROVE  Tiene(b, l, x)' <=> Tiene(b, l, x) /\ x \notin X
      OBVIOUS
    <2>1. CASE b = a
      BY <1>7, <2>1
    <2>2. CASE b # a /\ b \in DOMAIN listaFCB
      <3>1. Tiene(b, l, x) => x \notin X
        BY <1>1, <2>2, LoSuyo
      <3> QED
        BY <1>8, <2>2, <3>1
    <2>3. CASE b # a /\ b \notin DOMAIN listaFCB
      BY <1>5, <2>3 DEF Tiene
    <2> QED
      BY <2>1, <2>2, <2>3
  <1>10. UnDuenio'
    <2>1. \A b, l, x : Tiene(b, l, x)' => x \in Bases' /\ Tiene(b, l, x)
      BY <1>1, <1>9, LoSuyo
    <2> QED
      BY <2>1, UnDuenioCambia
  <1>11. DiscoContenido'
    <2> SUFFICES ASSUME NEW b, NEW l, NEW x, EnDisco(b, l, x)', b # a
                 PROVE  Tiene(b, l, x)'
      BY <1>1 DEF DiscoContenido, PorAsentar
    <2>1. b \in DOMAIN listaFCB
      BY <1>4, <1>5 DEF EnDisco
    <2> QED
      BY <1>1, <1>8, <2>1, LoSuyo
  <1>12. NadaPerdido'
    BY <1>1, <1>9, NadaPerdidoCambia
  <1>13. EnBlanco'
    <2> SUFFICES ASSUME NEW x \in LasBases, x \notin Bases \/ x \in X
                 PROVE  \A u \in UnidadesDe(x) : datos_bloques'[u] = BLANCO
      BY <1>1 DEF EnBlanco
    <2> QED
      BY <1>2, BlancosQuietos DEF Borra
  <1>14. Contados'
    <2> SUFFICES ASSUME NEW b \in DOMAIN listaFCB
                 PROVE  /\ Contado(Vigente(b)') /\ Contado(directorio[b])
                        /\ b \notin recargados /\ listaFCB'[b].punteroIn = NADA
                               => listaFCB'[b].cantidad_indirectos = 0
      BY <1>1, <1>5 DEF Contados, Contado
    <2>1. /\ Contado(Vigente(b)) /\ Contado(directorio[b])
          /\ b \notin recargados /\ listaFCB[b].punteroIn = NADA
                 => listaFCB[b].cantidad_indirectos = 0
      BY DEF BloquesInv, Sanidad, Contados
    <2>2. CASE b = a
      BY <1>5, <1>6, <2>1, <2>2 DEF Descuenta
    <2>3. CASE b # a
      BY <1>5, <1>8, <2>1, <2>3
    <2> QED
      BY <2>2, <2>3
  <1>15. RanurasEnBlanco'
    <2> SUFFICES ASSUME NEW b \in DOMAIN listaFCB, NEW k \in 0 .. TAM_BLOQUE - 1,
                        b \notin recargados, listaFCB'[b].punteroIn # NADA,
                        k >= listaFCB'[b].cantidad_indirectos
                 PROVE  datos_bloques'[listaFCB'[b].punteroIn + k] = BLANCO
      BY <1>1, <1>5 DEF RanurasEnBlanco
    <2>1. CASE b = a
      BY <1>5, <2>1 DEF Borra
    <2>2. CASE b # a
      <3>1. listaFCB'[b] = listaFCB[b]
        BY <1>5, <2>2
      <3> QED
        BY <1>2, <2>2, <3>1, RanurasBlancasAjenas
    <2> QED
      BY <2>1, <2>2
  <1>16. Momento'
    <2>1. Actual' = f
      BY <1>1, <1>5 DEF Actual
    <2> QED
      BY <1>1, <2>1 DEF Momento, Descuenta
  <1>17. SegunTamanio'
    <2> SUFFICES ASSUME integro, ~sinBloque, NEW b \in DOMAIN listaFCB PROVE Conforme(b)'
      BY <1>1, <1>5 DEF SegunTamanio
    <2>1. Conforme(b)
      BY DEF BloquesInv, Sanidad, SegunTamanio
    <2>2. CASE b # a
      BY <1>1, <1>8, <2>1, <2>2, ConformeQuieto DEF EnCurso
    <2>3. CASE b = a
      <3>1. PICK n, m : n = BloquesPara(pedido.tamanio) /\ m = pedido.faltan
        OBVIOUS
      <3>2. n \in Nat /\ m \in Nat
        BY <3>1, BloquesParaNatural, Constantes DEF BloquesInv, FcbInv, Tipado
      <3>3. /\ EnCurso(a) /\ EnCurso(a)' /\ Saldo = m /\ Saldo' = m - 1
        BY <1>1, <3>1 DEF EnCurso, Saldo
      <3>4. BloquesPara(pedido.tamanio)' = n
        BY <1>1, <3>1 DEF BloquesPara
      <3>5. Cuantos(h) = n + m
        BY <1>6, <2>1, <2>3, <3>1, <3>3 DEF Conforme
      <3>6. Cuantos(f) = n + Saldo'
        BY <3>2, <3>3, <3>5 DEF Descuenta
      <3>7. Cuantos(Vigente(a))' = Cuantos(f)
        BY <1>6 DEF Cuantos
      <3> QED
        BY <1>6, <2>3, <3>3, <3>4, <3>6, <3>7 DEF Conforme, Descuenta
    <2> QED
      BY <2>2, <2>3
  <1>18. ElObservado'
    <2>1. CASE observado = SinObservar
      BY <1>1, <2>1 DEF ElObservado
    <2>2. CASE observado # SinObservar
      <3>1. PICK b : b = observado.archivo
        OBVIOUS
      <3>2. b # a
        BY <1>1, <2>2, <3>1 DEF BloquesInv, Sanidad, ElObservado
      <3>3. listaFCB'[b] = listaFCB[b] /\ directorio'[b] = directorio[b]
        BY <1>1, <1>5, <3>2
      <3> QED
        BY <1>1, <1>2, <1>5, <2>2, <3>1, <3>2, <3>3, ObservadoAjeno
    <2> QED
      BY <2>1, <2>2
  <1> QED
    BY <1>10, <1>11, <1>12, <1>13, <1>14, <1>15, <1>16, <1>17, <1>18 DEF Sanidad

LEMMA SanoLiberaRanura ==
    ASSUME BloquesInv, FcbInv', sano, sano', NEW x0, LiberaRanura(x0)
    PROVE  Sanidad'
  <1>1. PICK a, h, p, c : /\ a = pedido.archivo /\ h = listaFCB[a]
                          /\ p = h.punteroIn /\ c = h.cantidad_indirectos
    OBVIOUS
  <1>2. pc = "liberar"
    BY DEF LiberaRanura, EnMarcha
  <1>3. /\ a \in DOMAIN listaFCB /\ Forma(h) /\ h \in FCBs /\ Actual = h
        /\ a \notin recargados => Vigente(a) = h /\ Contado(h)
    BY <1>1, <1>2, LoQueEncuentra
  <1>4. PICK r, s, W : /\ r = (IF c = 1 THEN NADA ELSE p) /\ s = (h.tamanio - TAM_BLOQUE) % MODULO
                       /\ W = UnidadesDe(x0) \cup {p + c - 1}
    OBVIOUS
  <1>5. PICK f : f = [h EXCEPT !.punteroIn = r, !.cantidad_indirectos = c - 1, !.tamanio = s]
    OBVIOUS
  <1>6. /\ p # NADA /\ p + c - 1 \in Unidades /\ x0 = datos_bloques[p + c - 1]
        /\ UnidadesDe(x0) \subseteq Unidades /\ LiberarIndirecto
    BY <1>1, <1>3 DEF LiberaRanura
  <1>7. /\ a \notin recargados /\ c - 1 \in 0 .. TAM_BLOQUE - 1 /\ pc' = "asentarLiberado"
        /\ bitmap' = bitmap \ ({x0 \div TAM_BLOQUE} \cup (IF c = 1 THEN {p \div TAM_BLOQUE} ELSE {}))
        /\ datos_bloques' = PonerEn(W, BLANCO)
        /\ UNCHANGED <<directorio, pedido, recargados, integro, sinBloque, observado>>
    BY <1>1, <1>3, <1>4, <1>6 DEF LiberarIndirecto, Confunde
  <1>8. ConFCB(f)
    <2>1. ConFCB([h EXCEPT !.punteroIn = IF c = 1 THEN NADA ELSE @,
                           !.cantidad_indirectos = @ - 1, !.tamanio = (@ - TAM_BLOQUE) % MODULO])
      BY <1>1, <1>3, <1>6 DEF LiberarIndirecto
    <2>2. f = [h EXCEPT !.punteroIn = IF c = 1 THEN NADA ELSE @,
                        !.cantidad_indirectos = @ - 1, !.tamanio = (@ - TAM_BLOQUE) % MODULO]
      BY <1>1, <1>4, <1>5
    <2> QED
      BY <2>1, <2>2
  <1>9. f.punteroDir = h.punteroDir /\ f.punteroIn = r /\ f.cantidad_indirectos = c - 1
    BY <1>3, <1>5 DEF FCBs
  <1>10. /\ c \in 1 .. TAM_BLOQUE /\ p \in LasBases /\ p \in Nat /\ h.punteroDir # NADA
         /\ p + c - 1 = p + (c - 1)
    <2>1. p \in LasBases /\ h.punteroDir # NADA
      BY <1>1, <1>3, <1>6 DEF Forma
    <2>2. c \in Int
      BY <1>1, <1>3 DEF FCBs
    <2> QED
      BY <1>7, <2>1, <2>2, LasUnidades, Constantes
  <1>11. \A l, x : Tiene(a, l, x) <=> Nombra(h, l, x)
    BY <1>3, <1>7 DEF Tiene
  <1>12. \A l, x : Nombra(h, l, x) <=> \/ l = DIR /\ x = h.punteroDir
                                       \/ l = IND /\ x = p
                                       \/ l \in 0 .. c - 1 /\ x = datos_bloques[p + l]
    BY <1>1, <1>6, <1>10 DEF Nombra
  <1>13. Tiene(a, IND, p) /\ Tiene(a, c - 1, x0)
    <2>1. PICK m : m = c - 1
      OBVIOUS
    <2>2. m \in 0 .. c - 1 /\ x0 = datos_bloques[p + m]
      BY <1>6, <1>10, <2>1
    <2>3. Nombra(h, m, x0)
      BY <1>12, <2>2
    <2>4. Nombra(h, IND, p)
      BY <1>12
    <2> QED
      BY <1>11, <2>1, <2>3, <2>4
  <1>14. c - 1 # IND /\ c - 1 # DIR
    BY <1>10 DEF IND, DIR
  <1>15. /\ x0 \in LasBases /\ x0 # p /\ p \in Bases /\ x0 \in Bases
         /\ UnidadesDe(x0) \cap UnidadesDe(p) = {}
    <2>1. x0 \in LasBases /\ p \in Bases /\ x0 \in Bases
      BY <1>13, LoSuyo
    <2>2. PICK m : m = c - 1
      OBVIOUS
    <2>3. Tiene(a, m, x0) /\ m # IND
      BY <1>13, <1>14, <2>2
    <2>4. x0 # p
      BY <1>13, <2>3, LoSuyo
    <2> QED
      BY <1>10, <2>1, <2>4, Separadas
  <1>16. PICK X : X = {x0} \cup (IF c = 1 THEN {p} ELSE {})
    OBVIOUS
  <1>17. Bases' = Bases \ X
    <2>1. bitmap \subseteq Bloques /\ Bases = BasesDe(bitmap) /\ Bases' = BasesDe(bitmap')
      BY DEF BloquesInv, FcbInv, Tipado, Bases, BasesDe
    <2>2. BasesDe(bitmap \ {x0 \div TAM_BLOQUE}) = Bases \ {x0}
      BY <1>15, <2>1, BaseLiberada
    <2>3. CASE c # 1
      <3>1. bitmap' = bitmap \ {x0 \div TAM_BLOQUE}
        BY <1>7, <2>3
      <3> QED
        BY <1>16, <2>1, <2>2, <2>3, <3>1
    <2>4. CASE c = 1
      <3>1. PICK B : B = bitmap \ {x0 \div TAM_BLOQUE}
        OBVIOUS
      <3>2. bitmap' = B \ {p \div TAM_BLOQUE} /\ B \in SUBSET Bloques
        BY <1>7, <2>1, <2>4, <3>1
      <3>3. BasesDe(B \ {p \div TAM_BLOQUE}) = BasesDe(B) \ {p}
        BY <1>10, <3>2, BaseLiberada
      <3> QED
        BY <1>16, <2>1, <2>2, <2>4, <3>1, <3>2, <3>3
    <2> QED
      BY <2>3, <2>4
  <1>18. Suelta(a, f, X)
    BY <1>1, <1>2, <1>7, <1>8, <1>13, <1>16, <1>17 DEF Suelta
  <1>19. p + (c - 1) \in UnidadesDe(p)
    BY <1>7, <1>10, LasUnidades
  <1>20. EscribeEn(a, W)
    BY <1>4, <1>10, <1>13, <1>19 DEF EscribeEn
  <1>21. /\ Quieto(W)
         /\ \A u \in Unidades : u \in W => datos_bloques'[u] = BLANCO
    BY <1>7 DEF Quieto, PonerEn
  <1>22. ASSUME NEW k \in 0 .. TAM_BLOQUE - 1, k # c - 1
         PROVE  datos_bloques'[p + k] = datos_bloques[p + k]
    <2>1. p + k \in UnidadesDe(p) /\ p + k \in Unidades /\ p + k # p + c - 1
      BY <1>10, <1>22, LasUnidades, Constantes
    <2>2. p + k \notin W
      BY <1>4, <1>15, <2>1
    <2> QED
      BY <1>21, <2>1, <2>2 DEF Quieto
  <1>23. ASSUME NEW k \in 0 .. TAM_BLOQUE - 1, k >= c - 1
         PROVE  datos_bloques'[p + k] = BLANCO
    <2>1. CASE k = c - 1
      BY <1>4, <1>6, <1>10, <1>21, <2>1
    <2>2. CASE k # c - 1
      <3>1. k >= c
        BY <1>10, <1>23, <2>2
      <3>2. datos_bloques[p + k] = BLANCO
        BY <1>1, <1>3, <1>6, <1>7, <3>1 DEF BloquesInv, Sanidad, RanurasEnBlanco
      <3> QED
        BY <1>22, <2>2, <3>2
    <2> QED
      BY <2>1, <2>2
  <1>24. ASSUME NEW x \in X, NEW u \in UnidadesDe(x) PROVE datos_bloques'[u] = BLANCO
    <2>1. CASE x = x0
      BY <1>4, <1>6, <1>21, <1>24, <2>1
    <2>2. CASE x = p /\ c = 1
      <3>1. PICK k : k = u - p
        OBVIOUS
      <3>2. k \in 0 .. TAM_BLOQUE - 1 /\ u = p + k
        BY <1>10, <1>24, <2>2, <3>1, Constantes DEF UnidadesDe
      <3> QED
        BY <1>23, <2>2, <3>2
    <2> QED
      BY <1>16, <1>24, <2>1, <2>2
  <1>25. Borra(a, f, X, W)
    <2>1. f.punteroIn # NADA =>
              \A k \in 0 .. TAM_BLOQUE - 1 :
                  k >= f.cantidad_indirectos => datos_bloques'[f.punteroIn + k] = BLANCO
      BY <1>4, <1>9, <1>23
    <2> QED
      BY <1>20, <1>21, <1>24, <2>1 DEF Borra
  <1>26. Descuenta(a, h, f)
    <2>1. Cuantos(h) = 1 + c
      BY <1>1, <1>6, <1>10 DEF Cuantos
    <2>2. Cuantos(f) = c
      BY <1>4, <1>6, <1>9, <1>10 DEF Cuantos
    <2>3. Contado(f)
      BY <1>7, <1>9, Constantes DEF Contado
    <2>4. f.punteroIn = NADA => f.cantidad_indirectos = 0
      BY <1>4, <1>6, <1>9
    <2>5. (f.punteroIn # NADA => c > 1) /\ (c > 1 => f.punteroIn # NADA)
      BY <1>4, <1>6, <1>9, <1>10
    <2> QED
      BY <1>7, <1>10, <2>1, <2>2, <2>3, <2>4, <2>5 DEF Descuenta
  <1>27. ASSUME NEW l, NEW x PROVE Nombra(f, l, x)' <=> Nombra(h, l, x) /\ x \notin X
    <2>1. Nombra(f, l, x)' <=> \/ l = DIR /\ x = h.punteroDir
                               \/ c # 1 /\ l = IND /\ x = p
                               \/ c # 1 /\ l \in 0 .. (c - 1) - 1 /\ x = datos_bloques'[p + l]
      BY <1>4, <1>6, <1>9, <1>10 DEF Nombra
    <2>2. l \in 0 .. (c - 1) - 1 => l # c - 1 /\ l \in 0 .. TAM_BLOQUE - 1 /\ l \in 0 .. c - 1
      BY <1>10, Constantes
    <2>3. l \in 0 .. (c - 1) - 1 => datos_bloques'[p + l] = datos_bloques[p + l]
      BY <1>22, <2>2
    <2>4. l \in 0 .. c - 1 => l \in 0 .. (c - 1) - 1 \/ l = c - 1
      BY <1>10
    <2>5. c = 1 => l \notin 0 .. (c - 1) - 1
      BY <1>10
    <2>6. Nombra(h, l, x) => (x = x0 <=> l = c - 1) /\ (x = p <=> l = IND)
      <3> SUFFICES ASSUME Nombra(h, l, x) PROVE (x = x0 <=> l = c - 1) /\ (x = p <=> l = IND)
        OBVIOUS
      <3>1. Tiene(a, l, x)
        BY <1>11
      <3>2. (x = x0 => l = c - 1) /\ (x = p => l = IND)
        BY <1>13, <3>1, LoSuyo
      <3>3. l = c - 1 => x = x0
        BY <1>6, <1>10, <1>12, <1>14
      <3>4. l = IND => x = p
        BY <1>10, <1>12 DEF DIR, IND
      <3> QED
        BY <3>2, <3>3, <3>4
    <2>7. x \in X <=> x = x0 \/ (c = 1 /\ x = p)
      BY <1>16
    <2>8. l \in 0 .. c - 1 => l # DIR /\ l # IND
      BY <1>10 DEF DIR, IND
    <2>9. DIR # IND
      BY DEF DIR, IND
    <2>10. CASE l = DIR
      BY <1>12, <1>14, <2>1, <2>2, <2>6, <2>7, <2>8, <2>9, <2>10
    <2>11. CASE l = IND
      BY <1>12, <1>14, <2>1, <2>2, <2>6, <2>7, <2>8, <2>9, <2>11
    <2>12. CASE l # DIR /\ l # IND
      BY <1>12, <2>1, <2>2, <2>3, <2>4, <2>5, <2>6, <2>7, <2>12
    <2> QED
      BY <2>10, <2>11, <2>12
  <1> QED
    BY <1>1, <1>18, <1>25, <1>26, <1>27, SanoLiberar

LEMMA SanoLiberaDirecto ==
    ASSUME BloquesInv, FcbInv', sano, sano', LiberarDirecto, ~Cae
    PROVE  Sanidad'
  <1>1. PICK a, h, x0, s : /\ a = pedido.archivo /\ h = listaFCB[a] /\ x0 = h.punteroDir
                           /\ s = (h.tamanio - TAM_BLOQUE) % MODULO
    OBVIOUS
  <1>2. PICK f : f = [h EXCEPT !.punteroDir = NADA, !.tamanio = s]
    OBVIOUS
  <1>3. pc = "liberar"
    BY DEF LiberarDirecto, EnMarcha
  <1>4. /\ a \in DOMAIN listaFCB /\ Forma(h) /\ h \in FCBs /\ Actual = h
        /\ a \notin recargados /\ h.punteroIn = NADA => h.cantidad_indirectos = 0
        /\ h.punteroIn = NADA => Vigente(a) = h
    BY <1>1, <1>3, LoQueEncuentra
  <1>5. /\ h.punteroIn = NADA /\ UnidadesDe(x0) \subseteq Unidades
        /\ datos_bloques' = PonerEn(UnidadesDe(x0), BLANCO)
        /\ bitmap' = bitmap \ {x0 \div TAM_BLOQUE}
        /\ pc' = "asentarLiberado"
        /\ UNCHANGED <<directorio, pedido, recargados, integro, sinBloque, observado>>
    BY <1>1, <1>4 DEF LiberarDirecto, historia
  <1>6. ConFCB(f)
    <2>1. ConFCB([h EXCEPT !.punteroDir = NADA, !.tamanio = (@ - TAM_BLOQUE) % MODULO])
      BY <1>1, <1>4 DEF LiberarDirecto
    <2>2. f = [h EXCEPT !.punteroDir = NADA, !.tamanio = (@ - TAM_BLOQUE) % MODULO]
      BY <1>1, <1>2
    <2> QED
      BY <2>1, <2>2
  <1>7. x0 \in LasBases /\ x0 # NADA
    <2>1. x0 = NADA => x0 \in UnidadesDe(x0)
      BY Constantes DEF UnidadesDe, NADA
    <2>2. NADA \notin Unidades
      BY DEF Unidades, NADA
    <2> QED
      BY <1>1, <1>4, <1>5, <2>1, <2>2 DEF Forma
  <1>8. /\ f.punteroDir = NADA /\ f.punteroIn = NADA
        /\ f.cantidad_indirectos = h.cantidad_indirectos
    BY <1>2, <1>4, <1>5 DEF FCBs
  <1>9. Tiene(a, DIR, x0)
    BY <1>1, <1>4, <1>5, <1>7 DEF Tiene, Nombra
  <1>10. Bases' = Bases \ {x0}
    <2>1. bitmap \subseteq Bloques /\ Bases = BasesDe(bitmap) /\ Bases' = BasesDe(bitmap')
      BY DEF BloquesInv, FcbInv, Tipado, Bases, BasesDe
    <2> QED
      BY <1>5, <1>7, <2>1, BaseLiberada
  <1>11. Suelta(a, f, {x0})
    BY <1>1, <1>3, <1>5, <1>6, <1>9, <1>10 DEF Suelta
  <1>12. EscribeEn(a, UnidadesDe(x0)) /\ Quieto(UnidadesDe(x0))
    BY <1>5, <1>9 DEF EscribeEn, Quieto, PonerEn
  <1>13. Borra(a, f, {x0}, UnidadesDe(x0))
    <2>1. \A u \in UnidadesDe(x0) : datos_bloques'[u] = BLANCO
      BY <1>5 DEF PonerEn
    <2> QED
      BY <1>8, <1>12, <2>1 DEF Borra
  <1>14. Descuenta(a, h, f)
    <2>1. Cuantos(h) = 1 /\ Cuantos(f) = 0
      BY <1>1, <1>5, <1>7, <1>8 DEF Cuantos
    <2> QED
      BY <1>4, <1>5, <1>8, <2>1 DEF Descuenta, Contado
  <1>15. \A l, x : Nombra(f, l, x)' <=> Nombra(h, l, x) /\ x \notin {x0}
    BY <1>1, <1>5, <1>7, <1>8 DEF Nombra
  <1> QED
    BY <1>1, <1>11, <1>13, <1>14, <1>15, SanoLiberar

-----------------------------------------------------------------------------
(* The invariant *)

LEMMA SanidadAlInicio == Init => Sanidad
  <1> SUFFICES ASSUME Init PROVE Sanidad
    OBVIOUS
  <1>1. /\ DOMAIN listaFCB = {} /\ DOMAIN directorio = {} /\ Bases = {} /\ pc = "esperar"
        /\ \A u \in Unidades : datos_bloques[u] = BLANCO
        /\ observado = SinObservar
    BY DEF Init, Bases
  <1>2. \A a, l, x : ~Tiene(a, l, x) /\ ~EnDisco(a, l, x)
    BY <1>1 DEF Tiene, EnDisco
  <1>3. Contados /\ RanurasEnBlanco /\ Momento /\ SegunTamanio
    BY <1>1 DEF Contados, RanurasEnBlanco, Momento, SegunTamanio
  <1>4. UnDuenio /\ DiscoContenido
    BY <1>2 DEF UnDuenio, DiscoContenido
  <1>5. EnBlanco /\ NadaPerdido /\ ElObservado
    BY <1>1, LasUnidades DEF EnBlanco, NadaPerdido, ElObservado
  <1> QED
    BY <1>3, <1>4, <1>5 DEF Sanidad

\* What was not found once is not found again.
LEMMA SanoAntes ==
    ASSUME [Next]_vars, sano'
    PROVE  sano
  <1> USE DEF historia
  <1>1. ASSUME NEW a \in Archivos, Crear(a) PROVE sano
    BY <1>1 DEF Crear
  <1>2. ASSUME NEW a \in DOMAIN listaFCB, NEW t \in Tamanios, Truncar(a, t) PROVE sano
    BY <1>2 DEF Truncar
  <1>3. ASSUME NEW i, AnotarIndirecto(i) PROVE sano
    BY <1>3 DEF AnotarIndirecto, Cae
  <1>4. ASSUME OcuparBloque \/ OcuparIndirecto PROVE sano
    BY <1>3, <1>4 DEF OcuparBloque, OcuparIndirecto
  <1>5. ASSUME NoHayIndirecto \/ NoHayBloque PROVE sano
    BY <1>5 DEF NoHayIndirecto, NoHayBloque
  <1>6. ASSUME LiberarIndirecto \/ LiberarDirecto PROVE sano
    BY <1>6 DEF LiberarIndirecto, LiberarDirecto, Cae
  <1>7. ASSUME AsentarOcupado \/ AsentarLiberado \/ Guardar PROVE sano
    BY <1>7 DEF AsentarOcupado, AsentarLiberado, Asentar, Guardar
  <1>8. ASSUME NEW a \in DOMAIN listaFCB, NEW acceso \in Accesos,
               Escribe(a, acceso) \/ SalirDeLosBloques(a, acceso)
        PROVE  sano
    BY <1>8 DEF Escribe, Escribir, SalirDeLosBloques, Cae
  <1>9. ASSUME Reiniciar PROVE sano
    BY <1>9 DEF Reiniciar
  <1>10. ASSUME UNCHANGED vars PROVE sano
    BY <1>10 DEF vars
  <1> QED
    BY <1>1, <1>2, <1>4, <1>5, <1>6, <1>7, <1>8, <1>9, <1>10 DEF Next

LEMMA SanidadEnUnPaso ==
    ASSUME BloquesInv, FcbInv', sano', [Next]_vars
    PROVE  Sanidad'
  <1>1. sano
    BY SanoAntes
  <1>2. Tipado
    BY DEF BloquesInv, FcbInv
  <1>3. ASSUME NEW a \in Archivos, Crear(a) PROVE Sanidad'
    BY <1>1, <1>3, SanoCrear
  <1>4. ASSUME NEW a \in DOMAIN listaFCB, NEW t \in Tamanios, Truncar(a, t) PROVE Sanidad'
    BY <1>1, <1>4, SanoTruncar
  <1>5. ASSUME Cae \/ UNCHANGED vars PROVE Sanidad'
    BY <1>1, <1>5, SanoAlCaer
  <1>6. ASSUME OcuparBloque \/ OcuparIndirecto PROVE Sanidad'
    <2>1. Cae \/ \E i \in Bloques \ bitmap : OcupaDirecto(i) \/ OcupaPuntero(i) \/ OcupaRanura(i)
      BY <1>2, <1>6, FormasDeOcupar
    <2>2. ASSUME NEW i \in Bloques \ bitmap, OcupaDirecto(i) \/ OcupaPuntero(i) \/ OcupaRanura(i)
          PROVE  Sanidad'
      BY <1>1, <2>2, SanoOcupaDirecto, SanoOcupaPuntero, SanoOcupaRanura
    <2> QED
      BY <1>5, <2>1, <2>2
  <1>7. ASSUME NoHayIndirecto \/ NoHayBloque PROVE Sanidad'
    BY <1>1, <1>7, SanoSinBloque
  <1>8. ASSUME LiberarIndirecto PROVE Sanidad'
    BY <1>1, <1>5, <1>8, FormasDeLiberar, SanoLiberaRanura
  <1>9. ASSUME LiberarDirecto PROVE Sanidad'
    BY <1>1, <1>5, <1>9, SanoLiberaDirecto
  <1>10. ASSUME AsentarOcupado \/ AsentarLiberado PROVE Sanidad'
    BY <1>1, <1>10, SanoAsentar DEF AsentarOcupado, AsentarLiberado
  <1>11. ASSUME Guardar PROVE Sanidad'
    BY <1>1, <1>11, SanoGuardar
  <1>12. ASSUME NEW a \in DOMAIN listaFCB, NEW acceso \in Accesos,
                Escribe(a, acceso) \/ SalirDeLosBloques(a, acceso)
         PROVE  Sanidad'
    <2>1. CASE SalirDeLosBloques(a, acceso)
      BY <1>5, <2>1 DEF SalirDeLosBloques
    <2>2. CASE Escribe(a, acceso)
      <3>1. PICK dato \in {DATO, OBSERVADO} : Escribir(a, acceso, dato)
        BY <2>2 DEF Escribe
      <3> QED
        BY <1>1, <3>1, SanoEscribir
    <2> QED
      BY <1>12, <2>1, <2>2
  <1>13. ASSUME Reiniciar PROVE Sanidad'
    BY <1>1, <1>13, SanoReiniciar
  <1> QED
    BY <1>3, <1>4, <1>5, <1>6, <1>7, <1>8, <1>9, <1>10, <1>11, <1>12, <1>13 DEF Next

LEMMA SiempreBloquesInv == Spec => []BloquesInv
  <1>1. Init => BloquesInv
    <2>1. Init => Sincronizado
      BY DEF Init, Sincronizado
    <2> QED
      BY <2>1, TipadoAlInicio, SanidadAlInicio DEF BloquesInv, FcbInv
  <1>2. BloquesInv /\ [Next]_vars => BloquesInv'
    <2>1. BloquesInv /\ [Next]_vars => FcbInv'
      BY TipadoEnUnPaso, SincronizadoEnUnPaso DEF BloquesInv, FcbInv
    <2> QED
      BY <2>1, SanidadEnUnPaso DEF BloquesInv
  <1> QED
    BY <1>1, <1>2, PTL DEF Spec
-----------------------------------------------------------------------------
(* What the runs check *)

\* The sequence of the blocks of a file holds the block of each place once.
LEMMA SusBloques ==
    ASSUME Tipado, NEW f, Forma(f), Contado(f),
           \A l, m, x : Nombra(f, l, x) /\ Nombra(f, m, x) => l = m
    PROVE  /\ IsInjective(BloquesDe(f))
           /\ \A x : x \in Range(BloquesDe(f)) <=> \E l : Nombra(f, l, x)
  <1>1. PICK s, t, n, q : /\ s = BloquesDeDatos(f) /\ n = Cuantos(f) /\ q = BloquesDe(f)
                          /\ t = (IF f.punteroIn = NADA THEN <<>> ELSE <<f.punteroIn>>)
    OBVIOUS
  <1>2. /\ s \in Seq(Int) /\ Len(s) = n /\ n \in Nat
        /\ \A i \in 1 .. n : Nombra(f, i - 2, s[i])
    BY <1>1, LosDatos, CuantosNatural
  <1>3. /\ f.punteroIn \in Int /\ f.cantidad_indirectos \in Int
        /\ f.punteroIn # NADA => f.punteroDir # NADA
    BY DEF Forma, FCBs
  <1>4. /\ t \in Seq(Int) /\ Len(t) = IF f.punteroIn = NADA THEN 0 ELSE 1
        /\ f.punteroIn # NADA => t[1] = f.punteroIn
    BY <1>1, <1>3
  <1>5. PICK N : N = n + Len(t)
    OBVIOUS
  <1>6. /\ q \in Seq(Int) /\ Len(q) = N /\ N \in Nat
        /\ \A i \in 1 .. N : q[i] = IF i <= n THEN s[i] ELSE t[i - n]
    <2>1. s \in Seq(Int) /\ t \in Seq(Int)
      BY <1>2, <1>4
    <2>2. /\ s \o t \in Seq(Int) /\ Len(s \o t) = Len(s) + Len(t)
          /\ \A i \in 1 .. Len(s) + Len(t) :
                 (s \o t)[i] = IF i <= Len(s) THEN s[i] ELSE t[i - Len(s)]
      BY <2>1, ConcatProperties
    <2>3. q = s \o t
      BY <1>1 DEF BloquesDe
    <2> QED
      BY <1>2, <1>4, <1>5, <2>2, <2>3
  <1>7. DOMAIN q = 1 .. N
    BY <1>6
  <1>8. ASSUME NEW i \in 1 .. N PROVE Nombra(f, IF i <= n THEN i - 2 ELSE IND, q[i])
    <2>1. CASE i <= n
      BY <1>2, <1>6, <1>8, <2>1
    <2>2. CASE ~(i <= n)
      <3>1. f.punteroIn # NADA /\ i - n = 1
        BY <1>2, <1>4, <1>5, <1>8, <2>2
      <3>2. q[i] = f.punteroIn
        BY <1>4, <1>6, <1>8, <2>2, <3>1
      <3> QED
        BY <2>2, <3>1, <3>2 DEF Nombra
    <2> QED
      BY <2>1, <2>2
  <1>9. ASSUME NEW i \in 1 .. N, NEW j \in 1 .. N, q[i] = q[j] PROVE i = j
    <2>1. (IF i <= n THEN i - 2 ELSE IND) = (IF j <= n THEN j - 2 ELSE IND)
      BY <1>8, <1>9
    <2>2. N \in {n, n + 1} /\ n \in Nat /\ i \in Nat \ {0} /\ j \in Nat \ {0} /\ i <= N /\ j <= N
      BY <1>2, <1>4, <1>5
    <2>3. CASE i <= n
      BY <2>1, <2>2, <2>3 DEF IND
    <2>4. CASE ~(i <= n)
      BY <2>1, <2>2, <2>4 DEF IND
    <2> QED
      BY <2>3, <2>4
  <1>10. IsInjective(q)
    BY <1>7, <1>9 DEF IsInjective
  <1>11. ASSUME NEW l, NEW x, NEW y, Nombra(f, l, x), Nombra(f, l, y) PROVE x = y
    BY <1>11 DEF Nombra, DIR, IND
  <1>12. ASSUME NEW l, NEW x, Nombra(f, l, x) PROVE \E i \in 1 .. N : q[i] = x
    <2>1. CASE l = IND
      <3>1. f.punteroIn # NADA /\ x = f.punteroIn
        BY <1>12, <2>1 DEF Nombra, DIR, IND
      <3>2. N \in 1 .. N /\ ~(N <= n) /\ N - n = 1
        BY <1>2, <1>4, <1>5, <3>1
      <3> QED
        BY <1>4, <1>6, <3>1, <3>2
    <2>2. CASE l # IND
      <3>1. l \in Int /\ l + 2 \in 1 .. n
        BY <1>1, <1>3, <1>12, <2>2 DEF Nombra, DIR, Cuantos, Contado
      <3>2. PICK i : i = l + 2
        OBVIOUS
      <3>3. i \in 1 .. N /\ i <= n /\ i - 2 = l
        BY <1>2, <1>4, <1>5, <3>1, <3>2
      <3>4. Nombra(f, l, q[i])
        BY <1>8, <3>3
      <3> QED
        BY <1>11, <1>12, <3>3, <3>4
    <2> QED
      BY <2>1, <2>2
  <1>13. ASSUME NEW x PROVE x \in Range(q) <=> \E l : Nombra(f, l, x)
    <2>1. x \in Range(q) <=> \E i \in 1 .. N : q[i] = x
      BY <1>7 DEF Range
    <2>2. (\E i \in 1 .. N : q[i] = x) => \E l : Nombra(f, l, x)
      BY <1>8
    <2> QED
      BY <1>12, <2>1, <2>2
  <1> QED
    BY <1>1, <1>10, <1>13

\* The blocks of the files in memory.
LEMMA LosVigentes ==
    ASSUME BloquesInv, sano
    PROVE  /\ DOMAIN Vigentes = DOMAIN listaFCB
           /\ \A a \in DOMAIN listaFCB :
                  /\ IsInjective(BloquesDe(Vigentes[a]))
                  /\ \A x : x \in Range(BloquesDe(Vigentes[a])) <=> \E l : Tiene(a, l, x)
           /\ \A x : x \in MarcadosPara(Vigentes) <=> \E a, l : Tiene(a, l, x)
  <1>1. Tipado /\ DOMAIN Vigentes = DOMAIN listaFCB
    BY DEF BloquesInv, FcbInv, Vigentes
  <1>2. ASSUME NEW a \in DOMAIN listaFCB
        PROVE  /\ IsInjective(BloquesDe(Vigentes[a]))
               /\ \A x : x \in Range(BloquesDe(Vigentes[a])) <=> \E l : Tiene(a, l, x)
    <2>1. PICK v : v = Vigente(a)
      OBVIOUS
    <2>2. Vigentes[a] = v /\ Forma(v) /\ Contado(v)
      BY <2>1, ElVigente DEF Vigentes
    <2>3. \A l, x : Tiene(a, l, x) <=> Nombra(v, l, x)
      BY <2>1 DEF Tiene
    <2>4. \A l, m, x : Nombra(v, l, x) /\ Nombra(v, m, x) => l = m
      BY <2>3, LoSuyo
    <2> QED
      BY <1>1, <2>2, <2>3, <2>4, SusBloques
  <1>3. ASSUME NEW x PROVE x \in MarcadosPara(Vigentes) <=> \E a, l : Tiene(a, l, x)
    <2>1. x \in MarcadosPara(Vigentes) <=>
              \E a \in DOMAIN listaFCB : x \in Range(BloquesDe(Vigentes[a]))
      BY <1>1 DEF MarcadosPara
    <2>2. \A a, l : Tiene(a, l, x) => a \in DOMAIN listaFCB
      BY DEF Tiene
    <2> QED
      BY <1>2, <2>1, <2>2
  <1> QED
    BY <1>1, <1>2, <1>3

\* A block is of one file and in one place of it, and marked, in memory and on disk,
\* whatever truncation failed or was cut.
THEOREM SiemprePropios == Spec => []BloquesPropios
  <1>1. BloquesInv => BloquesPropios
    <2> SUFFICES ASSUME BloquesInv, sano
                 PROVE  /\ SinRepetir(Vigentes) /\ MarcadosPara(Vigentes) \subseteq Bases
                        /\ pc # "asentarLiberado" =>
                               SinRepetir(directorio) /\ MarcadosPara(directorio) \subseteq Bases
      BY DEF BloquesPropios
    <2>1. SinRepetir(Vigentes)
      <3>1. \A a \in DOMAIN Vigentes : IsInjective(BloquesDe(Vigentes[a]))
        BY LosVigentes
      <3>2. ASSUME NEW a \in DOMAIN Vigentes, NEW b \in DOMAIN Vigentes, a # b,
                   NEW x, x \in Range(BloquesDe(Vigentes[a])), x \in Range(BloquesDe(Vigentes[b]))
            PROVE  FALSE
        <4>1. PICK l : Tiene(a, l, x)
          BY <3>2, LosVigentes
        <4>2. PICK m : Tiene(b, m, x)
          BY <3>2, LosVigentes
        <4> QED
          BY <3>2, <4>1, <4>2, LoSuyo
      <3> QED
        BY <3>1, <3>2 DEF SinRepetir
    <2>2. MarcadosPara(Vigentes) \subseteq Bases
      BY LosVigentes, LoSuyo
    <2>3. ASSUME pc # "asentarLiberado"
          PROVE  SinRepetir(directorio) /\ MarcadosPara(directorio) \subseteq Bases
      <3>1. Tipado /\ DOMAIN directorio = DOMAIN listaFCB
        BY DEF BloquesInv, FcbInv, Tipado
      <3>2. ASSUME NEW a \in DOMAIN directorio
            PROVE  /\ IsInjective(BloquesDe(directorio[a]))
                   /\ \A x : x \in Range(BloquesDe(directorio[a])) => \E l : Tiene(a, l, x)
        <4>1. PICK d : d = directorio[a]
          OBVIOUS
        <4>2. Forma(d) /\ Contado(d)
          BY <3>1, <4>1, ElVigente
        <4>3. \A l, x : Nombra(d, l, x) => Tiene(a, l, x)
          BY <2>3, <4>1, LoSuyo DEF EnDisco
        <4>4. \A l, m, x : Nombra(d, l, x) /\ Nombra(d, m, x) => l = m
          BY <4>3, LoSuyo
        <4>5. /\ IsInjective(BloquesDe(d))
              /\ \A x : x \in Range(BloquesDe(d)) <=> \E l : Nombra(d, l, x)
          BY <3>1, <4>2, <4>4, SusBloques
        <4> QED
          BY <4>1, <4>3, <4>5
      <3>3. ASSUME NEW a \in DOMAIN directorio, NEW b \in DOMAIN directorio, a # b,
                   NEW x, x \in Range(BloquesDe(directorio[a])),
                   x \in Range(BloquesDe(directorio[b]))
            PROVE  FALSE
        <4>1. PICK l : Tiene(a, l, x)
          BY <3>2, <3>3
        <4>2. PICK m : Tiene(b, m, x)
          BY <3>2, <3>3
        <4> QED
          BY <3>3, <4>1, <4>2, LoSuyo
      <3>4. SinRepetir(directorio)
        BY <3>2, <3>3 DEF SinRepetir
      <3>5. ASSUME NEW x, x \in MarcadosPara(directorio) PROVE x \in Bases
        <4>1. PICK a \in DOMAIN directorio : x \in Range(BloquesDe(directorio[a]))
          BY <3>5 DEF MarcadosPara
        <4> QED
          BY <3>2, <4>1, LoSuyo
      <3> QED
        BY <3>4, <3>5
    <2> QED
      BY <2>1, <2>2, <2>3
  <1> QED
    BY <1>1, SiempreBloquesInv, PTL

\* While no truncation is cut, a marked block is named by a file.
THEOREM NingunoPerdido == Spec => []NingunBloquePerdido
  <1>1. BloquesInv => NingunBloquePerdido
    <2> SUFFICES ASSUME BloquesInv, sano, integro, NEW x \in Bases
                 PROVE  x \in MarcadosPara(Vigentes)
      BY DEF NingunBloquePerdido
    <2>1. \E a, l : Tiene(a, l, x)
      BY DEF BloquesInv, Sanidad, NadaPerdido
    <2> QED
      BY <2>1, LosVigentes
  <1> QED
    BY <1>1, SiempreBloquesInv, PTL

\* Between requests a file has the blocks of its size.
THEOREM SegunSuTamanio == Spec => []BloquesSegunTamanio
  <1>1. BloquesInv => BloquesSegunTamanio
    <2> SUFFICES ASSUME BloquesInv, sano, integro, ~sinBloque, pc = "esperar",
                        NEW a \in DOMAIN listaFCB
                 PROVE  Corresponde(Vigente(a))
      BY DEF BloquesSegunTamanio
    <2>1. PICK v : v = Vigente(a)
      OBVIOUS
    <2>2. Forma(v) /\ Contado(v) /\ Tipado
      BY <2>1, ElVigente DEF BloquesInv, FcbInv
    <2>3. Len(BloquesDeDatos(v)) = Cuantos(v)
      BY <2>2, LosDatos
    <2>4. /\ Cuantos(v) = BloquesPara(v.tamanio)
          /\ v.punteroIn # NADA => Cuantos(v) > 1
          /\ Cuantos(v) > 1 => v.punteroIn # NADA
      BY <2>1 DEF BloquesInv, Sanidad, SegunTamanio, Conforme, EnCurso
    <2> QED
      BY <2>1, <2>3, <2>4 DEF Corresponde
  <1> QED
    BY <1>1, SiempreBloquesInv, PTL

\* A block that is not marked is blank.
THEOREM LibresBlancos == Spec => []LibresEnBlanco
  <1>1. BloquesInv => LibresEnBlanco
    <2> SUFFICES ASSUME BloquesInv, sano, NEW b \in Bloques, b \notin bitmap
                 PROVE  \A u \in UnidadesDe(b * TAM_BLOQUE) : datos_bloques[u] = BLANCO
      BY DEF LibresEnBlanco
    <2>1. PICK x : x = b * TAM_BLOQUE
      OBVIOUS
    <2>2. bitmap \subseteq Bloques
      BY DEF BloquesInv, FcbInv, Tipado
    <2>3. x \in LasBases /\ x \notin Bases
      BY <2>1, <2>2, UnaBase, BaseMarcada DEF Bases, BasesDe
    <2> QED
      BY <2>1, <2>3 DEF BloquesInv, Sanidad, EnBlanco
  <1> QED
    BY <1>1, SiempreBloquesInv, PTL

\* What was written in a file is what a read of it finds.
THEOREM LosDatosPersisten == Spec => []DatosPersisten
  <1>1. BloquesInv => DatosPersisten
    <2> SUFFICES ASSUME BloquesInv, sano, observado # SinObservar,
                        NEW u \in Destino(listaFCB[observado.archivo], observado)
                 PROVE  u \in Unidades /\ datos_bloques[u] = OBSERVADO
      BY DEF DatosPersisten
    <2>1. PICK a, o, h, v : /\ a = observado.archivo /\ o = observado
                            /\ h = listaFCB[a] /\ v = Vigente(a)
      OBVIOUS
    <2>2. /\ o.puntero \in Nat /\ o.bytes \in 1 .. TAM_BLOQUE /\ a \in DOMAIN listaFCB
          /\ Cabe(v, o) /\ datos_bloques[u] = OBSERVADO /\ u \in Destino(h, o)
      BY <2>1 DEF BloquesInv, Sanidad, ElObservado
    <2>3. /\ Forma(v) /\ Contado(v) /\ Coincide(v, h)
          /\ \A l, x : Nombra(v, l, x) => x \in LasBases
      BY <2>1, <2>2, ElVigente, LoSuyo DEF Coincide
    <2>4. u \in Destino(v, o)
      BY <2>2, <2>3, DestinoIgual
    <2>5. \E l, x : Nombra(v, l, x) /\ l # IND /\ x \in LasBases /\ u \in UnidadesDe(x)
      BY <2>2, <2>3, <2>4, DestinoEnBloques
    <2> QED
      BY <2>2, <2>5, LasUnidades
  <1> QED
    BY <1>1, SiempreBloquesInv, PTL
=============================================================================
