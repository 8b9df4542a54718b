------------------------- MODULE SistemaDeArchivos -------------------------
(***************************************************************************)
(* FileSystem/src/filesys.h: the blocks of the file system, the FCB of     *)
(* each file in memory (listaFCB) and on disk (one config file each), the  *)
(* truncation that takes and gives back blocks, the reads and writes, and  *)
(* the restart of the process, at rest or in the middle of a truncation.   *)
(* The bitmap and the blocks are mapped MAP_SHARED: they survive.          *)
(*                                                                         *)
(* Addresses are those of the code, offsets into datos_bloques, with       *)
(* sizeof(int) = 1: a unit holds a pointer or a datum.  datos_bloques is   *)
(* flat, so what overflows a block runs into the next one, a blank unit    *)
(* reads as pointer 0, and -1 is the pointer to nothing.                   *)
(*                                                                         *)
(* Requests for a file that is not in listaFCB change nothing (lines       *)
(* 590-595, 677-682, 749-753) and are left out.                            *)
(***************************************************************************)
EXTENDS Integers, Sequences, FiniteSets, FiniteSetsExt, Functions

CONSTANTS Archivos,
          BLOCK_COUNT,     \* of the superblock
          TAM_BLOQUE,      \* BLOCK_SIZE
          BITS_POR_BYTE,   \* 8
          MODULO,          \* sizes are uint32_t: 2^32
          Tamanios,        \* sizes asked of F_TRUNCATE
          Accesos,         \* [puntero, bytes] asked of F_READ and F_WRITE
          MAX_REINICIOS    \* bound: restarts in a behaviour

ASSUME ArchivosAssumption ==
    /\ IsFiniteSet(Archivos) /\ BLOCK_COUNT \in Nat \ {0} /\ TAM_BLOQUE \in Nat \ {0}
    /\ BITS_POR_BYTE \in 1 .. BLOCK_COUNT /\ MODULO \in Nat \ {0}
    /\ Tamanios \subseteq 0 .. MODULO - 1 /\ MAX_REINICIOS \in Nat
    /\ Accesos \subseteq [puntero : Nat, bytes : 1 .. TAM_BLOQUE]

Unidades == 0 .. BLOCK_COUNT * TAM_BLOQUE - 1

\* The bitmap has block_count/8 whole bytes: the ceil rounds an integer division.
Bloques == 0 .. BITS_POR_BYTE * (BLOCK_COUNT \div BITS_POR_BYTE) - 1

NADA == -1
BLANCO == 0                             \* what limpiarBloque and borrarContenido leave
DATO == BLOCK_COUNT * TAM_BLOQUE        \* a datum: read as a pointer, it is out of the blocks
OBSERVADO == DATO + 1                   \* a datum of the write that is observed

VARIABLES
    listaFCB, directorio,    \* FCB of each file, in memory and in its config file
    bitmap, datos_bloques,   \* blocks marked, and the content of each unit
    pc, pedido,              \* where the process is, and the truncation it attends
    caido,                   \* it used an address outside datos_bloques
    reinicios,
    \* History, read by the properties alone:
    recargados,              \* files whose FCB was loaded at a restart
    sano,                    \* every step found what it assumes: see Confunde
    integro,                 \* no truncation was cut by a restart
    sinBloque,               \* a truncation found no block, whether it said so or not
    observado                \* the write observed, while its data must be there

discoVars == <<directorio, bitmap, datos_bloques>>
historia == <<recargados, sano, integro, sinBloque, observado>>
vars == <<listaFCB, discoVars, pc, pedido, caido, reinicios, historia>>

SinPedido == [archivo |-> NADA, tamanio |-> 0, faltan |-> 0]
SinObservar == [archivo |-> NADA, puntero |-> 0, bytes |-> 0]
FCBNuevo == [tamanio |-> 0, punteroDir |-> NADA, punteroIn |-> NADA, cantidad_indirectos |-> 0]

Init ==
    /\ listaFCB = <<>> /\ directorio = <<>>
    /\ bitmap = {} /\ datos_bloques = [u \in Unidades |-> BLANCO]
    /\ pc = "esperar" /\ pedido = SinPedido /\ caido = FALSE /\ reinicios = 0
    /\ recargados = {} /\ sano = TRUE /\ integro = TRUE /\ sinBloque = FALSE
    /\ observado = SinObservar

EnMarcha(donde) == ~caido /\ pc = donde
BloquesPara(tamanio) == (tamanio + TAM_BLOQUE - 1) \div TAM_BLOQUE
UnidadesDe(puntero) == puntero .. puntero + TAM_BLOQUE - 1
PonerEn(unidades, valor) ==
    [u \in Unidades |-> IF u \in unidades THEN valor ELSE datos_bloques[u]]

\* The process used an address outside datos_bloques: it is not followed further.
Cae ==
    /\ caido' = TRUE
    /\ UNCHANGED <<listaFCB, discoVars, pc, pedido, reinicios, historia>>

\* The FCB that the truncation works on, and its new value.
Actual == listaFCB[pedido.archivo]
ConFCB(fcb) == listaFCB' = [listaFCB EXCEPT ![pedido.archivo] = fcb]

\* History: the step relies on a count of indirect blocks that was never loaded, or
\* on one that is not a slot of the pointer block.
Confunde(cantidad) == pedido.archivo \in recargados \/ cantidad \notin 0 .. TAM_BLOQUE - 1
-----------------------------------------------------------------------------
(* F_OPEN and F_TRUNCATE *)

\* The function f with one more key.
Con(f, k, v) == [x \in DOMAIN f \cup {k} |-> IF x = k THEN v ELSE f[x]]

\* crearOAbrirArchivo: a file that is in the list is only opened, which changes nothing.
Crear(a) ==
    /\ EnMarcha("esperar") /\ a \notin DOMAIN listaFCB
    /\ listaFCB' = Con(listaFCB, a, FCBNuevo)
    /\ directorio' = Con(directorio, a, FCBNuevo)
    /\ UNCHANGED <<bitmap, datos_bloques, pc, pedido, caido, reinicios, historia>>

\* The blocks needed are rounded down.
Truncar_SinCeil(a, tamanio) ==
    LET necesarios == tamanio \div TAM_BLOQUE
        actuales == BloquesPara(listaFCB[a].tamanio)
        faltan == IF actuales > necesarios THEN actuales - necesarios ELSE necesarios - actuales
    IN
    /\ EnMarcha("esperar")
    /\ pedido' = [archivo |-> a, tamanio |-> tamanio, faltan |-> faltan]
    /\ pc' = CASE actuales > necesarios -> "liberar"
               [] actuales < necesarios -> "ocupar"
               [] OTHER -> "guardar"
    /\ observado' = IF observado.archivo = a /\ actuales > necesarios
                    THEN SinObservar ELSE observado
    /\ UNCHANGED <<listaFCB, discoVars, caido, reinicios, recargados, sano, integro, sinBloque>>

\* truncarArchivo, up to its loop: the blocks to free or to take are counted once.
Truncar(a, tamanio) ==
    LET necesarios == BloquesPara(tamanio)
        actuales == BloquesPara(listaFCB[a].tamanio)
        faltan == IF actuales > necesarios THEN actuales - necesarios ELSE necesarios - actuales
    IN
    /\ EnMarcha("esperar")
    /\ pedido' = [archivo |-> a, tamanio |-> tamanio, faltan |-> faltan]
    /\ pc' = CASE actuales > necesarios -> "liberar"
               [] actuales < necesarios -> "ocupar"
               [] OTHER -> "guardar"
    /\ observado' = IF observado.archivo = a /\ actuales > necesarios
                    THEN SinObservar ELSE observado
    /\ UNCHANGED <<listaFCB, discoVars, caido, reinicios, recargados, sano, integro, sinBloque>>

\* The block that the slot names is not marked.
AnotarIndirecto_SinMarcar(i) ==
    LET ranura == Actual.punteroIn + Actual.cantidad_indirectos IN
    IF ranura \notin Unidades THEN Cae ELSE
    /\ datos_bloques' = PonerEn({ranura}, i * TAM_BLOQUE)
    /\ ConFCB([Actual EXCEPT !.cantidad_indirectos = @ + 1])
    /\ pc' = "asentar"
    /\ sano' = (sano /\ ~Confunde(Actual.cantidad_indirectos))
    /\ UNCHANGED <<directorio, bitmap, pedido, caido, reinicios, recargados, integro, sinBloque,
                   observado>>

\* The third branch of ocuparBloqueLibre: a slot of the pointer block names block i.
AnotarIndirecto(i) ==
    LET ranura == Actual.punteroIn + Actual.cantidad_indirectos IN
    IF ranura \notin Unidades THEN Cae ELSE
    /\ bitmap' = bitmap \cup {i}
    /\ datos_bloques' = PonerEn({ranura}, i * TAM_BLOQUE)
    /\ ConFCB([Actual EXCEPT !.cantidad_indirectos = @ + 1])
    /\ pc' = "asentar"
    /\ sano' = (sano /\ ~Confunde(Actual.cantidad_indirectos))
    /\ UNCHANGED <<directorio, pedido, caido, reinicios, recargados, integro, sinBloque, observado>>

\* ocuparBloqueLibre takes the first free block, as direct block, as pointer block
\* (it then calls itself for the block to point to) or as one more indirect block.
OcuparBloque ==
    /\ EnMarcha("ocupar") /\ Bloques \ bitmap # {}
    /\ LET i == Min(Bloques \ bitmap)
           Asignar(fcb, sigue) ==
               /\ bitmap' = bitmap \cup {i} /\ ConFCB(fcb) /\ pc' = sigue
               /\ UNCHANGED <<directorio, datos_bloques, pedido, caido, reinicios, recargados,
                              integro, sinBloque, observado>>
       IN
       \/ /\ Actual.punteroDir = NADA
          /\ Asignar([Actual EXCEPT !.punteroDir = i * TAM_BLOQUE], "asentar")
          /\ UNCHANGED sano
       \/ /\ Actual.punteroDir # NADA /\ Actual.punteroIn = NADA
          /\ Asignar([Actual EXCEPT !.punteroIn = i * TAM_BLOQUE], "ocuparOtro")
          /\ sano' = (sano /\ ~Confunde(Actual.cantidad_indirectos))
       \/ /\ Actual.punteroDir # NADA /\ Actual.punteroIn # NADA
          /\ AnotarIndirecto(i)

\* The call inside the call; both end in asentarFCB, of the same FCB.
OcuparIndirecto ==
    /\ EnMarcha("ocuparOtro") /\ Bloques \ bitmap # {}
    /\ AnotarIndirecto(Min(Bloques \ bitmap))

\* Its -1 is dropped: the truncation goes on with an empty pointer block.
NoHayIndirecto ==
    /\ EnMarcha("ocuparOtro") /\ Bloques \ bitmap = {}
    /\ pc' = "asentar"
    /\ sinBloque' = TRUE
    /\ UNCHANGED <<listaFCB, discoVars, pedido, caido, reinicios, recargados, sano, integro,
                   observado>>

\* The -1 of the outer call is answered; the blocks already taken stay taken.
NoHayBloque ==
    /\ EnMarcha("ocupar") /\ Bloques \ bitmap = {}
    /\ pc' = "esperar" /\ pedido' = SinPedido /\ sinBloque' = TRUE
    /\ UNCHANGED <<listaFCB, discoVars, caido, reinicios, recargados, sano, integro, observado>>

\* The pointer block stays marked when its last slot is emptied.
LiberarIndirecto_SinPunteros ==
    LET cantidad == Actual.cantidad_indirectos
        ranura == Actual.punteroIn + cantidad - 1
        ultimo == datos_bloques[ranura]
    IN
    /\ EnMarcha("liberar") /\ Actual.punteroIn # NADA
    /\ IF ranura \notin Unidades \/ ~(UnidadesDe(ultimo) \subseteq Unidades) THEN Cae ELSE
       /\ datos_bloques' = PonerEn(UnidadesDe(ultimo) \cup {ranura}, BLANCO)
       /\ bitmap' = bitmap \ {ultimo \div TAM_BLOQUE}
       /\ ConFCB([Actual EXCEPT !.punteroIn = IF cantidad = 1 THEN NADA ELSE @,
                                !.cantidad_indirectos = @ - 1,
                                !.tamanio = (@ - TAM_BLOQUE) % MODULO])
       /\ pc' = "asentarLiberado"
       /\ sano' = (sano /\ ~Confunde(cantidad - 1))
       /\ UNCHANGED <<directorio, pedido, caido, reinicios, recargados, integro, sinBloque,
                      observado>>

\* The size is kept as a signed number.
LiberarDirecto_ConSigno ==
    LET puntero == Actual.punteroDir IN
    /\ EnMarcha("liberar") /\ Actual.punteroIn = NADA
    /\ IF ~(UnidadesDe(puntero) \subseteq Unidades) THEN Cae ELSE
       /\ datos_bloques' = PonerEn(UnidadesDe(puntero), BLANCO)
       /\ bitmap' = bitmap \ {puntero \div TAM_BLOQUE}
       /\ ConFCB([Actual EXCEPT !.punteroDir = NADA, !.tamanio = @ - TAM_BLOQUE])
       /\ pc' = "asentarLiberado"
       /\ UNCHANGED <<directorio, pedido, caido, reinicios, historia>>

\* The direct block is freed with its content.
LiberarDirecto_SinLimpiar ==
    LET puntero == Actual.punteroDir IN
    /\ EnMarcha("liberar") /\ Actual.punteroIn = NADA
    /\ IF ~(UnidadesDe(puntero) \subseteq Unidades) THEN Cae ELSE
       /\ bitmap' = bitmap \ {puntero \div TAM_BLOQUE}
       /\ ConFCB([Actual EXCEPT !.punteroDir = NADA, !.tamanio = (@ - TAM_BLOQUE) % MODULO])
       /\ pc' = "asentarLiberado"
       /\ UNCHANGED <<directorio, datos_bloques, pedido, caido, reinicios, historia>>

\* liberarUltimoBloqueFCB, up to asentarFCB, when it frees the last indirect block
\* and, with the last of them, the pointer block.
LiberarIndirecto ==
    LET cantidad == Actual.cantidad_indirectos
        ranura == Actual.punteroIn + cantidad - 1
        ultimo == datos_bloques[ranura]
        libres == {ultimo \div TAM_BLOQUE}
                  \cup (IF cantidad = 1 THEN {Actual.punteroIn \div TAM_BLOQUE} ELSE {})
    IN
    /\ EnMarcha("liberar") /\ Actual.punteroIn # NADA
    /\ IF ranura \notin Unidades \/ ~(UnidadesDe(ultimo) \subseteq Unidades) THEN Cae ELSE
       /\ datos_bloques' = PonerEn(UnidadesDe(ultimo) \cup {ranura}, BLANCO)
       /\ bitmap' = bitmap \ libres
       /\ ConFCB([Actual EXCEPT !.punteroIn = IF cantidad = 1 THEN NADA ELSE @,
                                !.cantidad_indirectos = @ - 1,
                                !.tamanio = (@ - TAM_BLOQUE) % MODULO])
       /\ pc' = "asentarLiberado"
       /\ sano' = (sano /\ ~Confunde(cantidad - 1))
       /\ UNCHANGED <<directorio, pedido, caido, reinicios, recargados, integro, sinBloque,
                      observado>>

\* The same, when there is no pointer block: it frees the direct block.
LiberarDirecto ==
    LET puntero == Actual.punteroDir IN
    /\ EnMarcha("liberar") /\ Actual.punteroIn = NADA
    /\ IF ~(UnidadesDe(puntero) \subseteq Unidades) THEN Cae ELSE
       /\ datos_bloques' = PonerEn(UnidadesDe(puntero), BLANCO)
       /\ bitmap' = bitmap \ {puntero \div TAM_BLOQUE}
       /\ ConFCB([Actual EXCEPT !.punteroDir = NADA, !.tamanio = (@ - TAM_BLOQUE) % MODULO])
       /\ pc' = "asentarLiberado"
       /\ UNCHANGED <<directorio, pedido, caido, reinicios, historia>>

\* asentarFCB leaves out PUNTERO_INDIRECTO.
Asentar_SinIndirecto(donde, bucle) ==
    /\ EnMarcha(donde)
    /\ directorio' = [directorio EXCEPT
           ![pedido.archivo] = [Actual EXCEPT !.punteroIn = directorio[pedido.archivo].punteroIn]]
    /\ pedido' = [pedido EXCEPT !.faltan = @ - 1]
    /\ pc' = IF pedido.faltan = 1 THEN "guardar" ELSE bucle
    /\ UNCHANGED <<listaFCB, bitmap, datos_bloques, caido, reinicios, historia>>

\* asentarFCB writes the whole FCB to its config file, and the loop goes on.
Asentar(donde, bucle) ==
    /\ EnMarcha(donde)
    /\ directorio' = [directorio EXCEPT ![pedido.archivo] = Actual]
    /\ pedido' = [pedido EXCEPT !.faltan = @ - 1]
    /\ pc' = IF pedido.faltan = 1 THEN "guardar" ELSE bucle
    /\ UNCHANGED <<listaFCB, bitmap, datos_bloques, caido, reinicios, historia>>

AsentarOcupado == Asentar("asentar", "ocupar")
AsentarLiberado == Asentar("asentarLiberado", "liberar")

\* The size is updated in memory alone.
Guardar_SinDisco ==
    /\ EnMarcha("guardar")
    /\ ConFCB([Actual EXCEPT !.tamanio = pedido.tamanio])
    /\ pc' = "esperar" /\ pedido' = SinPedido
    /\ UNCHANGED <<directorio, bitmap, datos_bloques, caido, reinicios, historia>>

\* The end of truncarArchivo: the size asked for, in memory and alone on disk.
Guardar ==
    /\ EnMarcha("guardar")
    /\ ConFCB([Actual EXCEPT !.tamanio = pedido.tamanio])
    /\ directorio' = [directorio EXCEPT ![pedido.archivo].tamanio = pedido.tamanio]
    /\ pc' = "esperar" /\ pedido' = SinPedido
    /\ UNCHANGED <<bitmap, datos_bloques, caido, reinicios, historia>>
-----------------------------------------------------------------------------
(* F_READ and F_WRITE: both cut the range in two and go through the same map *)

\* block_pointer_from_number reads a slot of the pointer block, whatever it holds.
PunteroDeBloque(fcb, n) ==
    IF n = 0 THEN fcb.punteroDir
    ELSE IF fcb.punteroIn + n - 1 \in Unidades THEN datos_bloques[fcb.punteroIn + n - 1]
    ELSE DATO

\* The units that the range is read from or written to: exceded_bytes of them
\* at the start of the second block.
Destino(fcb, acceso) ==
    LET n == acceso.puntero \div TAM_BLOQUE
        offset == acceso.puntero % TAM_BLOQUE
        primero == PunteroDeBloque(fcb, n) + offset
        segundo == PunteroDeBloque(fcb, n + 1)
        exceded == offset + acceso.bytes - TAM_BLOQUE + 1
    IN IF offset + acceso.bytes >= TAM_BLOQUE
       THEN primero .. primero + acceso.bytes - exceded - 1 \cup segundo .. segundo + exceded - 1
       ELSE primero .. primero + acceso.bytes - 1

\* The blocks of data that the FCB names, in the order of the file, and all its blocks.
BloquesDeDatos(fcb) ==
    (IF fcb.punteroDir = NADA THEN <<>> ELSE <<fcb.punteroDir>>)
    \o (IF fcb.punteroIn = NADA THEN <<>>
        ELSE [k \in 1 .. fcb.cantidad_indirectos |-> datos_bloques[fcb.punteroIn + k - 1]])
BloquesDe(fcb) ==
    BloquesDeDatos(fcb) \o (IF fcb.punteroIn = NADA THEN <<>> ELSE <<fcb.punteroIn>>)

\* The FCB with its count: CANTIDAD_INDIRECTOS is on disk but is not loaded.
Vigente(a) ==
    IF a \in recargados /\ listaFCB[a].punteroIn # NADA THEN directorio[a] ELSE listaFCB[a]

\* The range is in blocks of the file, counting the one after a range that ends a
\* block: the code reads its pointer too, from a slot that may hold none.
Dentro(fcb, acceso) ==
    (acceso.puntero + acceso.bytes) \div TAM_BLOQUE < Len(BloquesDeDatos(fcb))

\* leerArchivo and escribirArchivo of a range that leaves datos_bloques.
SalirDeLosBloques(a, acceso) ==
    /\ EnMarcha("esperar")
    /\ ~(Destino(listaFCB[a], acceso) \subseteq Unidades)
    /\ Cae

\* escribirArchivo; leerArchivo changes nothing here.
Escribir(a, acceso, dato) ==
    LET destino == Destino(listaFCB[a], acceso)
        pisa == observado.archivo = a
                /\ destino \cap Destino(listaFCB[a], observado) # {}
    IN
    /\ EnMarcha("esperar")
    /\ destino \subseteq Unidades
    /\ datos_bloques' = PonerEn(destino, dato)
    /\ sano' = (sano /\ Dentro(Vigente(a), acceso))
    /\ observado' = IF dato = OBSERVADO
                    THEN [archivo |-> a, puntero |-> acceso.puntero, bytes |-> acceso.bytes]
                    ELSE IF pisa THEN SinObservar ELSE observado
    /\ UNCHANGED <<listaFCB, directorio, bitmap, pc, pedido, caido, reinicios, recargados,
                   integro, sinBloque>>

\* One write of a behaviour is observed: no unit holds its data yet.
Escribe(a, acceso) ==
    \/ Escribir(a, acceso, DATO)
    \/ /\ \A u \in Unidades : datos_bloques[u] # OBSERVADO
       /\ Escribir(a, acceso, OBSERVADO)
-----------------------------------------------------------------------------
(* The process ends, at any point, and is started again *)

\* inicializarListaFCB loads every FCB; its malloc leaves cantidad_indirectos with
\* what the memory held.
Reiniciar ==
    /\ ~caido /\ reinicios < MAX_REINICIOS
    /\ \E cuenta \in [DOMAIN directorio -> 0 .. TAM_BLOQUE] :
           listaFCB' = [a \in DOMAIN directorio |->
                           [directorio[a] EXCEPT !.cantidad_indirectos = cuenta[a]]]
    /\ recargados' = DOMAIN directorio
    /\ reinicios' = reinicios + 1
    /\ pc' = "esperar" /\ pedido' = SinPedido
    /\ integro' = (integro /\ pc = "esperar")
    /\ sano' = (sano /\ pc # "asentarLiberado")
    /\ UNCHANGED <<discoVars, caido, sinBloque, observado>>

Next ==
    \/ \E a \in Archivos : Crear(a)
    \/ \E a \in DOMAIN listaFCB, tamanio \in Tamanios : Truncar(a, tamanio)
    \/ OcuparBloque
    \/ OcuparIndirecto
    \/ NoHayIndirecto
    \/ NoHayBloque
    \/ LiberarIndirecto
    \/ LiberarDirecto
    \/ AsentarOcupado
    \/ AsentarLiberado
    \/ Guardar
    \/ \E a \in DOMAIN listaFCB, acceso \in Accesos :
           Escribe(a, acceso) \/ SalirDeLosBloques(a, acceso)
    \/ Reiniciar

Spec == Init /\ [][Next]_vars
-----------------------------------------------------------------------------
(* Properties *)

FCBs == [tamanio : 0 .. MODULO - 1, punteroDir : Int, punteroIn : Int, cantidad_indirectos : Int]

\* Types: every file has an FCB in memory exactly when it has a config file.
TypeOK ==
    /\ DOMAIN listaFCB \subseteq Archivos /\ DOMAIN directorio = DOMAIN listaFCB
    /\ \A a \in DOMAIN listaFCB : listaFCB[a] \in FCBs /\ directorio[a] \in FCBs
    /\ bitmap \subseteq Bloques /\ datos_bloques \in [Unidades -> Int]
    /\ pc \in {"esperar", "ocupar", "ocuparOtro", "asentar", "liberar", "asentarLiberado",
               "guardar"}
    /\ pedido.archivo \in (IF pc = "esperar" THEN {NADA} ELSE DOMAIN listaFCB)
    /\ caido \in BOOLEAN /\ reinicios \in 0 .. MAX_REINICIOS
    /\ recargados \subseteq DOMAIN listaFCB /\ sano \in BOOLEAN /\ integro \in BOOLEAN
    /\ sinBloque \in BOOLEAN

Vigentes == [a \in DOMAIN listaFCB |-> Vigente(a)]
MarcadosPara(fcbs) == UNION {Range(BloquesDe(fcbs[a])) : a \in DOMAIN fcbs}
Bases == {b * TAM_BLOQUE : b \in bitmap}
SinRepetir(fcbs) ==
    /\ \A a \in DOMAIN fcbs : IsInjective(BloquesDe(fcbs[a]))
    /\ \A a, b \in DOMAIN fcbs :
           a # b => Range(BloquesDe(fcbs[a])) \cap Range(BloquesDe(fcbs[b])) = {}

\* A block belongs to one file, in one place of it, and is marked in the bitmap:
\* for the FCBs in memory at every step, and for those on disk at every step but
\* the one between bitarray_clean_bit and asentarFCB (lines 162-183), whatever
\* truncation failed or was cut by a restart anywhere else.
BloquesPropios ==
    sano => /\ SinRepetir(Vigentes) /\ MarcadosPara(Vigentes) \subseteq Bases
            /\ pc # "asentarLiberado" =>
                   SinRepetir(directorio) /\ MarcadosPara(directorio) \subseteq Bases

\* No block is lost: while no truncation is cut, a block that is marked is named
\* by an FCB, also during a truncation and after one that ran out of blocks.
NingunBloquePerdido == sano /\ integro => Bases \subseteq MarcadosPara(Vigentes)

Corresponde(fcb) ==
    LET bloques == Len(BloquesDeDatos(fcb)) IN
    bloques = BloquesPara(fcb.tamanio) /\ (fcb.punteroIn # NADA <=> bloques > 1)

\* Between requests a file has the blocks that its size needs, and a pointer block
\* when it needs more than one, until a truncation finds no block or is cut: what
\* truncarArchivo assumes of tamanio when it counts the blocks to take or free.
BloquesSegunTamanio ==
    sano /\ integro /\ ~sinBloque /\ pc = "esperar" =>
        \A a \in DOMAIN listaFCB : Corresponde(Vigente(a))

\* "los cambios en el fcb tienen que actualizarse en el archivo de configuración"
\* (line 531): between requests the FCB on disk is that in memory, also after a
\* truncation that failed half-way, except for the count that a restart loses.
FcbEnDisco ==
    pc = "esperar" /\ ~caido =>
        \A a \in DOMAIN listaFCB :
            \/ directorio[a] = listaFCB[a]
            \/ /\ a \in recargados
               /\ directorio[a] = [listaFCB[a] EXCEPT
                       !.cantidad_indirectos = directorio[a].cantidad_indirectos]

\* A free block is blank, so a file that grows never reads what another one left:
\* ocuparBloqueLibre does not clean what it takes.
LibresEnBlanco ==
    sano => \A b \in Bloques \ bitmap :
                \A u \in UnidadesDe(b * TAM_BLOQUE) : datos_bloques[u] = BLANCO

\* What a write put in the blocks of its file is what a read of the same range
\* finds, whatever the other files do and across restarts, until the file shrinks
\* or is written there again.
DatosPersisten ==
    sano /\ observado # SinObservar =>
        \A u \in Destino(listaFCB[observado.archivo], observado) :
            u \in Unidades /\ datos_bloques[u] = OBSERVADO
=============================================================================
