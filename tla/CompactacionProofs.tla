------------------------- MODULE CompactacionProofs -------------------------
(***************************************************************************)
(* What holds of Compactacion for every set of processes and any number   *)
(* of compactions.                                                        *)
(***************************************************************************)
EXTENDS Compactacion, TLAPS, SequenceTheorems, FunctionTheorems, FiniteSetTheorems

USE DEF NINGUNO

\* The places of a queue whose nodes forbid compaction: EnCola is Impiden(consolasBlocked).
Impiden(s) == {i \in DOMAIN s : s[i].impide_compactacion}

-----------------------------------------------------------------------------
(* The queue of operarFS *)

LEMMA ImpidenEsFinito ==
    ASSUME NEW s \in Seq(Nodo)
    PROVE  IsFiniteSet(Impiden(s)) /\ Cardinality(Impiden(s)) \in Nat
  <1>1. DOMAIN s = 1 .. Len(s) /\ Len(s) \in Nat
    BY LenProperties
  <1>2. IsFiniteSet(DOMAIN s)
    BY <1>1, FS_Interval
  <1>3. Impiden(s) \in SUBSET (DOMAIN s)
    BY DEF Impiden
  <1> QED
    BY <1>2, <1>3, FS_Subset, FS_CardinalityType

\* block_NODE: one more that forbids compaction when the node does.
LEMMA EncolarCuenta ==
    ASSUME NEW s \in Seq(Nodo), NEW n \in Nodo
    PROVE  /\ Append(s, n) \in Seq(Nodo)
           /\ Cardinality(Impiden(Append(s, n)))
                = Cardinality(Impiden(s)) + Cuenta(n.impide_compactacion)
  <1>1. /\ Append(s, n) \in Seq(Nodo) /\ Len(Append(s, n)) = Len(s) + 1
        /\ \A i \in 1 .. Len(s) : Append(s, n)[i] = s[i]
        /\ Append(s, n)[Len(s) + 1] = n
    BY AppendProperties
  <1>2. DOMAIN s = 1 .. Len(s) /\ Len(s) \in Nat /\ DOMAIN Append(s, n) = 1 .. Len(s) + 1
    BY <1>1, LenProperties
  <1>3. CASE n.impide_compactacion
    <2>1. Impiden(Append(s, n)) = Impiden(s) \cup {Len(s) + 1} /\ Len(s) + 1 \notin Impiden(s)
      BY <1>1, <1>2, <1>3 DEF Impiden
    <2>2. Cardinality(Impiden(s) \cup {Len(s) + 1}) = Cardinality(Impiden(s)) + 1
      BY <2>1, ImpidenEsFinito, FS_AddElement
    <2>3. Cuenta(n.impide_compactacion) = 1
      BY <1>3 DEF Cuenta
    <2> QED
      BY <1>1, <2>1, <2>2, <2>3
  <1>4. CASE ~n.impide_compactacion
    <2>1. Impiden(Append(s, n)) = Impiden(s)
      BY <1>1, <1>2, <1>4 DEF Impiden
    <2> QED
      BY <1>1, <1>4, <2>1, ImpidenEsFinito DEF Cuenta
  <1> QED
    BY <1>3, <1>4

\* operarFS takes the head: one less when it forbids compaction.
LEMMA QuitarCuenta ==
    ASSUME NEW s \in Seq(Nodo), s # <<>>
    PROVE  /\ Head(s) \in Nodo /\ Tail(s) \in Seq(Nodo)
           /\ Cardinality(Impiden(s))
                = Cardinality(Impiden(Tail(s))) + Cuenta(Head(s).impide_compactacion)
  <1> DEFINE t == Tail(s)
             f == [i \in Impiden(t) |-> i + 1]
  <1>1. /\ Head(s) \in Nodo /\ Head(s) = s[1] /\ t \in Seq(Nodo) /\ Len(t) = Len(s) - 1
        /\ \A i \in 1 .. Len(t) : t[i] = s[i + 1]
    BY HeadTailProperties
  <1>2. /\ DOMAIN s = 1 .. Len(s) /\ Len(s) \in Nat \ {0}
        /\ DOMAIN t = 1 .. Len(s) - 1
    BY <1>1, LenProperties, EmptySeq
  <1>3. f \in Bijection(Impiden(t), Impiden(s) \ {1})
    <2>1. f \in [Impiden(t) -> Impiden(s) \ {1}]
      BY <1>1, <1>2 DEF Impiden
    <2>2. \A i, j \in Impiden(t) : f[i] = f[j] => i = j
      BY <1>2 DEF Impiden
    <2>3. \A k \in Impiden(s) \ {1} : \E i \in Impiden(t) : f[i] = k
      <3> TAKE k \in Impiden(s) \ {1}
      <3>1. k - 1 \in Impiden(t) /\ f[k - 1] = k
        BY <1>1, <1>2 DEF Impiden
      <3> QED
        BY <3>1
    <2> QED
      BY <2>1, <2>2, <2>3, Fun_IsBij
  <1>4. Cardinality(Impiden(s) \ {1}) = Cardinality(Impiden(t))
    BY <1>1, <1>3, ImpidenEsFinito, FS_Bijection DEF ExistsBijection
  <1>5. Cardinality(Impiden(s) \ {1})
          = IF 1 \in Impiden(s) THEN Cardinality(Impiden(s)) - 1 ELSE Cardinality(Impiden(s))
    BY ImpidenEsFinito, FS_RemoveElement
  <1>6. 1 \in Impiden(s) <=> Head(s).impide_compactacion
    BY <1>1, <1>2 DEF Impiden
  <1> QED
    BY <1>1, <1>4, <1>5, <1>6, ImpidenEsFinito DEF Cuenta
-----------------------------------------------------------------------------
(* The counter and the permission *)

\* The threads hold a process, and a node, in the steps that use it; a request is within the
\* bound.
ConPCB == {"cpu", "solicitar", "leerContador", "esperarPermiso", "compactar"}

Manos ==
    /\ run_pc \in ConPCB => runningPCB \in Procesos
    /\ run_pc = "solicitar" => solicitudes < MAX_SOLICITUDES
    /\ run_pc \in {"sumar", "encolar"} => nuevo_nodo \in Nodo
    /\ run_pc = "sumar" => nuevo_nodo.impide_compactacion
    /\ fs_pc \in {"operar", "restar"} => un_nodo \in Nodo
    /\ fs_pc = "restar" => un_nodo.impide_compactacion

\* Somebody saw the counter at zero, and the compaction may start on that.
VistoEnCero ==
    \/ compaction_permission > 0 \/ run_pc = "compactar"
    \/ fs_pc \in {"leerRequerida", "darPermiso", "olvidar"}

\* From the request until the compaction the scheduler adds no file call, so that the counter
\* stays at zero once one of the threads saw it there, if nobody had seen it before.
CalmaMientrasEspera ==
    run_pc \in {"leerContador", "esperarPermiso", "compactar"} /\ ~pendiente /\ VistoEnCero
        => compactionBlockers = 0

\* The inductive invariant.
CompactacionInv == TypeOK /\ BloqueosContados /\ Manos /\ CalmaMientrasEspera

LEMMA InvAlInicio == Init => CompactacionInv
  <1> SUFFICES ASSUME Init PROVE CompactacionInv
    OBVIOUS
  <1>1. <<>> \in Seq(Nodo) /\ EnCola = {}
    BY DEF Init, EnCola
  <1>2. Cardinality(EnCola) = 0
    BY <1>1, FS_EmptySet
  <1>3. TypeOK
    <2>1. solicitudes \in 0 .. MAX_SOLICITUDES
      BY CompactacionAssumption DEF Init
    <2>2. run_pc \in RunPcs /\ fs_pc \in FsPcs
      BY DEF Init, RunPcs, FsPcs
    <2> QED
      BY <1>1, <2>1, <2>2 DEF Init, TypeOK
  <1>4. BloqueosContados
    BY <1>2 DEF Init, BloqueosContados, Cuenta
  <1>5. Manos /\ CalmaMientrasEspera
    BY DEF Init, Manos, ConPCB, CalmaMientrasEspera
  <1> QED
    BY <1>3, <1>4, <1>5 DEF CompactacionInv

LEMMA CuentaEsNumero == ASSUME NEW c PROVE Cuenta(c) \in {0, 1}
  BY DEF Cuenta

\* compactionBlockers-- finds something to count down.
LEMMA RestarTieneQue ==
    ASSUME CompactacionInv, fs_pc = "restar"
    PROVE  compactionBlockers \in Nat \ {0}
  <1>1. Cuenta(fs_pc \in {"operar", "restar"} /\ un_nodo.impide_compactacion) = 1
    BY DEF CompactacionInv, Manos, Cuenta
  <1>2. EnCola = Impiden(consolasBlocked) /\ consolasBlocked \in Seq(Nodo)
    BY DEF EnCola, Impiden, CompactacionInv, TypeOK
  <1>3. /\ Cardinality(EnCola) \in Nat
        /\ Cuenta(run_pc = "encolar" /\ nuevo_nodo.impide_compactacion) \in {0, 1}
    BY <1>2, ImpidenEsFinito, CuentaEsNumero
  <1> QED
    BY <1>1, <1>3 DEF CompactacionInv, BloqueosContados

LEMMA TiposEnUnPaso == CompactacionInv /\ [Next]_vars => TypeOK'
  <1> USE CompactacionAssumption
      DEF readyVars, colaVars, permisoVars, historia, RunPcs, FsPcs, CompactacionInv, Manos, ConPCB,
          TypeOK
  <1> SUFFICES ASSUME CompactacionInv, [Next]_vars PROVE TypeOK'
    OBVIOUS
  <1>1. ASSUME NEW p \in Procesos, Despachar(p) PROVE TypeOK'
    BY <1>1 DEF Despachar
  <1>2. ASSUME NEW impide \in BOOLEAN, RetornaFS(impide) PROVE TypeOK'
    <2>1. nuevo_nodo' \in Nodo
      BY <1>2 DEF RetornaFS, Nodo
    <2> QED
      BY <1>2, <2>1 DEF RetornaFS
  <1>3. CASE Retorna
    BY <1>3 DEF Retorna, VuelveAReady
  <1>4. CASE FaltaCompactar
    BY <1>4 DEF FaltaCompactar
  <1>5. CASE Sumar
    BY <1>5 DEF Sumar
  <1>6. CASE Encolar
    <2>1. Append(consolasBlocked, nuevo_nodo) \in Seq(Nodo)
      BY <1>6, EncolarCuenta DEF Encolar
    <2> QED
      BY <1>6, <2>1 DEF Encolar
  <1>7. CASE SenialBlocked
    BY <1>7 DEF SenialBlocked
  <1>8. CASE Solicitar
    <2>1. solicitudes + 1 \in 0 .. MAX_SOLICITUDES
      BY <1>8 DEF Solicitar
    <2>2. AlgoPendiente \in BOOLEAN
      BY DEF AlgoPendiente
    <2> QED
      BY <1>8, <2>1, <2>2 DEF Solicitar
  <1>9. CASE LeerBloqueos
    BY <1>9 DEF LeerBloqueos
  <1>10. CASE EsperarPermiso
    BY <1>10 DEF EsperarPermiso
  <1>11. CASE Compactar
    BY <1>11 DEF Compactar, VuelveAReady
  <1>12. CASE LeerContador
    BY <1>12 DEF LeerContador
  <1>13. CASE LeerRequerida
    BY <1>13 DEF LeerRequerida
  <1>14. CASE DarPermiso
    BY <1>14 DEF DarPermiso
  <1>15. CASE Olvidar
    BY <1>15 DEF Olvidar
  <1>16. CASE EsperarBlocked
    BY <1>16 DEF EsperarBlocked
  <1>17. CASE QuitarBlocked
    BY <1>17, QuitarCuenta DEF QuitarBlocked
  <1>18. CASE Operar
    <2>1. un_nodo.un_pcb \in Procesos
      BY <1>18 DEF Operar, Nodo
    <2> QED
      BY <1>18, <2>1 DEF Operar
  <1>19. CASE Restar
    <2>1. compactionBlockers - 1 \in Nat
      BY <1>19, RestarTieneQue DEF Restar
    <2> QED
      BY <1>19, <2>1 DEF Restar
  <1>20. CASE UNCHANGED vars
    BY <1>20 DEF vars
  <1> QED
    BY <1>1, <1>2, <1>3, <1>4, <1>5, <1>6, <1>7, <1>8, <1>9, <1>10,
       <1>11, <1>12, <1>13, <1>14, <1>15, <1>16, <1>17, <1>18, <1>19, <1>20
    DEF Next, GestionadorRunning, OperarFS


\* What each thread adds to the count.
DeRun == Cuenta(run_pc = "encolar" /\ nuevo_nodo.impide_compactacion)
DeFs == Cuenta(fs_pc \in {"operar", "restar"} /\ un_nodo.impide_compactacion)

LEMMA CuentaPorPartes ==
    ASSUME CompactacionInv
    PROVE  /\ compactionBlockers = DeRun + Cardinality(EnCola) + DeFs
           /\ compactionBlockers \in Nat /\ Cardinality(EnCola) \in Nat
           /\ DeRun \in {0, 1} /\ DeFs \in {0, 1}
  <1>1. EnCola = Impiden(consolasBlocked) /\ consolasBlocked \in Seq(Nodo)
    BY DEF EnCola, Impiden, CompactacionInv, TypeOK
  <1>2. Cardinality(EnCola) \in Nat
    BY <1>1, ImpidenEsFinito
  <1> QED
    BY <1>2, CuentaEsNumero DEF CompactacionInv, BloqueosContados, TypeOK, DeRun, DeFs

LEMMA CuentaEnUnPaso == CompactacionInv /\ [Next]_vars => BloqueosContados'
  <1> USE DEF readyVars, colaVars, permisoVars, historia
  <1> SUFFICES ASSUME CompactacionInv, [Next]_vars PROVE BloqueosContados'
    OBVIOUS
  <1>p. /\ compactionBlockers = DeRun + Cardinality(EnCola) + DeFs
        /\ compactionBlockers \in Nat /\ Cardinality(EnCola) \in Nat
        /\ DeRun \in {0, 1} /\ DeFs \in {0, 1}
        /\ BloqueosContados' <=> (compactionBlockers' = DeRun' + Cardinality(EnCola') + DeFs')
    BY CuentaPorPartes DEF BloqueosContados, DeRun, DeFs
  <1>r. UNCHANGED <<run_pc, nuevo_nodo>> => DeRun' = DeRun
    BY DEF DeRun
  <1>f. UNCHANGED <<fs_pc, un_nodo>> => DeFs' = DeFs
    BY DEF DeFs
  \* A thread that does not hold a node to be counted, before or after the step.
  <1>v. run_pc # "encolar" /\ run_pc' # "encolar" => DeRun' = DeRun
    BY DEF DeRun, Cuenta
  <1>w. fs_pc \notin {"operar", "restar"} /\ fs_pc' \notin {"operar", "restar"} => DeFs' = DeFs
    BY DEF DeFs, Cuenta
  <1>i. UNCHANGED <<consolasBlocked, compactionBlockers>> /\ DeRun' = DeRun /\ DeFs' = DeFs
            => BloqueosContados'
    BY <1>p DEF EnCola
  <1>1. ASSUME NEW p \in Procesos, Despachar(p) PROVE BloqueosContados'
    BY <1>1, <1>i, <1>r, <1>f, <1>v, <1>w DEF Despachar
  <1>2. ASSUME NEW impide \in BOOLEAN, RetornaFS(impide) PROVE BloqueosContados'
    <2>1. DeRun = 0 /\ DeRun' = 0
      <3>1. run_pc = "cpu" /\ run_pc' \in {"sumar", "encolar"}
        BY <1>2 DEF RetornaFS
      <3>2. run_pc' = "encolar" => ~nuevo_nodo'.impide_compactacion
        BY <1>2 DEF RetornaFS
      <3> QED
        BY <3>1, <3>2 DEF DeRun, Cuenta
    <2>2. UNCHANGED <<compactionBlockers, consolasBlocked, fs_pc, un_nodo>>
      BY <1>2 DEF RetornaFS
    <2> QED
      BY <2>1, <2>2, <1>p, <1>f DEF EnCola
  <1>3. CASE Retorna
    BY <1>3, <1>i, <1>r, <1>f, <1>v, <1>w DEF Retorna, VuelveAReady
  <1>4. CASE FaltaCompactar
    BY <1>4, <1>i, <1>r, <1>f, <1>v, <1>w DEF FaltaCompactar
  <1>5. CASE Sumar
    <2>1. DeRun = 0 /\ DeRun' = 1
      BY <1>5 DEF Sumar, CompactacionInv, Manos, DeRun, Cuenta
    <2>2. /\ compactionBlockers' = compactionBlockers + 1
          /\ UNCHANGED <<consolasBlocked, fs_pc, un_nodo>>
      BY <1>5 DEF Sumar
    <2> QED
      BY <2>1, <2>2, <1>p, <1>f DEF EnCola
  <1>6. CASE Encolar
    <2>1. DeRun = Cuenta(nuevo_nodo.impide_compactacion) /\ DeRun' = 0
      BY <1>6 DEF Encolar, DeRun, Cuenta
    <2>2. Cardinality(EnCola') = Cardinality(EnCola) + Cuenta(nuevo_nodo.impide_compactacion)
      <3>1. nuevo_nodo \in Nodo /\ consolasBlocked \in Seq(Nodo)
        BY <1>6 DEF Encolar, CompactacionInv, Manos, TypeOK
      <3> QED
        BY <1>6, <3>1, EncolarCuenta DEF Encolar, EnCola, Impiden
    <2>3. UNCHANGED <<compactionBlockers, fs_pc, un_nodo>>
      BY <1>6 DEF Encolar
    <2> QED
      BY <2>1, <2>2, <2>3, <1>p, <1>f
  <1>7. CASE SenialBlocked
    BY <1>7, <1>i, <1>r, <1>f, <1>v, <1>w DEF SenialBlocked
  <1>8. CASE Solicitar
    BY <1>8, <1>i, <1>r, <1>f, <1>v, <1>w DEF Solicitar
  <1>9. CASE LeerBloqueos
    BY <1>9, <1>i, <1>r, <1>f, <1>v, <1>w DEF LeerBloqueos
  <1>10. CASE EsperarPermiso
    BY <1>10, <1>i, <1>r, <1>f, <1>v, <1>w DEF EsperarPermiso
  <1>11. CASE Compactar
    BY <1>11, <1>i, <1>r, <1>f, <1>v, <1>w DEF Compactar, VuelveAReady
  <1>12. CASE LeerContador
    BY <1>12, <1>i, <1>r, <1>f, <1>v, <1>w DEF LeerContador
  <1>13. CASE LeerRequerida
    BY <1>13, <1>i, <1>r, <1>f, <1>v, <1>w DEF LeerRequerida
  <1>14. CASE DarPermiso
    BY <1>14, <1>i, <1>r, <1>f, <1>v, <1>w DEF DarPermiso
  <1>15. CASE Olvidar
    BY <1>15, <1>i, <1>r, <1>f, <1>v, <1>w DEF Olvidar
  <1>16. CASE EsperarBlocked
    BY <1>16, <1>i, <1>r, <1>f, <1>v, <1>w DEF EsperarBlocked
  <1>17. CASE QuitarBlocked
    <2>1. DeFs = 0 /\ DeFs' = Cuenta(un_nodo'.impide_compactacion)
      BY <1>17 DEF QuitarBlocked, DeFs, Cuenta
    <2>2. Cardinality(EnCola) = Cardinality(EnCola') + Cuenta(un_nodo'.impide_compactacion)
      <3>1. consolasBlocked \in Seq(Nodo) /\ consolasBlocked # <<>>
        BY <1>17 DEF QuitarBlocked, CompactacionInv, TypeOK
      <3> QED
        BY <1>17, <3>1, QuitarCuenta DEF QuitarBlocked, EnCola, Impiden
    <2>3. Cardinality(EnCola') \in Nat
      BY <1>17, QuitarCuenta, ImpidenEsFinito
      DEF QuitarBlocked, EnCola, Impiden, CompactacionInv, TypeOK
    <2>4. UNCHANGED <<compactionBlockers, run_pc, nuevo_nodo>>
      BY <1>17 DEF QuitarBlocked
    <2>5. DeFs' \in {0, 1}
      BY <2>1, CuentaEsNumero
    <2> QED
      BY <2>1, <2>2, <2>3, <2>4, <2>5, <1>p, <1>r
  <1>18. CASE Operar
    <2>1. DeFs' = DeFs
      <3>1. CASE un_nodo.impide_compactacion
        BY <1>18, <3>1 DEF Operar, DeFs, Cuenta
      <3>2. CASE ~un_nodo.impide_compactacion
        BY <1>18, <3>2 DEF Operar, DeFs, Cuenta, SinNodo
      <3> QED
        BY <3>1, <3>2
    <2>2. UNCHANGED <<compactionBlockers, consolasBlocked, run_pc, nuevo_nodo>>
      BY <1>18 DEF Operar
    <2> QED
      BY <2>1, <2>2, <1>p, <1>r DEF EnCola
  <1>19. CASE Restar
    <2>1. DeFs = 1 /\ DeFs' = 0
      BY <1>19 DEF Restar, CompactacionInv, Manos, DeFs, Cuenta
    <2>2. /\ compactionBlockers' = compactionBlockers - 1
          /\ UNCHANGED <<consolasBlocked, run_pc, nuevo_nodo>>
      BY <1>19 DEF Restar
    <2> QED
      BY <2>1, <2>2, <1>p, <1>r DEF EnCola
  <1>20. CASE UNCHANGED vars
    BY <1>20, <1>i, <1>r, <1>f, <1>v, <1>w DEF vars
  <1> QED
    BY <1>1, <1>2, <1>3, <1>4, <1>5, <1>6, <1>7, <1>8, <1>9, <1>10,
       <1>11, <1>12, <1>13, <1>14, <1>15, <1>16, <1>17, <1>18, <1>19, <1>20
    DEF Next, GestionadorRunning, OperarFS

LEMMA ManosEnUnPaso == CompactacionInv /\ [Next]_vars => Manos'
  <1> USE DEF readyVars, colaVars, permisoVars, historia, ConPCB, Manos, CompactacionInv
  <1> SUFFICES ASSUME CompactacionInv, [Next]_vars PROVE Manos'
    OBVIOUS
  <1>1. ASSUME NEW p \in Procesos, Despachar(p) PROVE Manos'
    BY <1>1 DEF Despachar
  <1>2. ASSUME NEW impide \in BOOLEAN, RetornaFS(impide) PROVE Manos'
    <2>1. run_pc' \in {"sumar", "encolar"} /\ fs_pc' = fs_pc /\ un_nodo' = un_nodo
      BY <1>2 DEF RetornaFS
    <2>2. nuevo_nodo' \in Nodo
      BY <1>2 DEF RetornaFS, Nodo
    <2>3. run_pc' = "sumar" => nuevo_nodo'.impide_compactacion
      BY <1>2 DEF RetornaFS
    <2> QED
      BY <2>1, <2>2, <2>3
  <1>3. CASE Retorna
    BY <1>3 DEF Retorna, VuelveAReady
  <1>4. CASE FaltaCompactar
    BY <1>4 DEF FaltaCompactar
  <1>5. CASE Sumar
    BY <1>5 DEF Sumar
  <1>6. CASE Encolar
    BY <1>6 DEF Encolar
  <1>7. CASE SenialBlocked
    BY <1>7 DEF SenialBlocked
  <1>8. CASE Solicitar
    BY <1>8 DEF Solicitar
  <1>9. CASE LeerBloqueos
    BY <1>9 DEF LeerBloqueos
  <1>10. CASE EsperarPermiso
    BY <1>10 DEF EsperarPermiso
  <1>11. CASE Compactar
    BY <1>11 DEF Compactar, VuelveAReady
  <1>12. CASE LeerContador
    BY <1>12 DEF LeerContador
  <1>13. CASE LeerRequerida
    BY <1>13 DEF LeerRequerida
  <1>14. CASE DarPermiso
    BY <1>14 DEF DarPermiso
  <1>15. CASE Olvidar
    BY <1>15 DEF Olvidar
  <1>16. CASE EsperarBlocked
    BY <1>16 DEF EsperarBlocked
  <1>17. CASE QuitarBlocked
    <2>1. un_nodo' \in Nodo
      BY <1>17, QuitarCuenta DEF QuitarBlocked, TypeOK
    <2> QED
      BY <1>17, <2>1 DEF QuitarBlocked
  <1>18. CASE Operar
    BY <1>18 DEF Operar
  <1>19. CASE Restar
    BY <1>19 DEF Restar
  <1>20. CASE UNCHANGED vars
    BY <1>20 DEF vars
  <1> QED
    BY <1>1, <1>2, <1>3, <1>4, <1>5, <1>6, <1>7, <1>8, <1>9, <1>10,
       <1>11, <1>12, <1>13, <1>14, <1>15, <1>16, <1>17, <1>18, <1>19, <1>20
    DEF Next, GestionadorRunning, OperarFS

\* The scheduler, which is the only one to count a blocker, is busy with the compaction, and
\* what the other thread counts down was not there.
LEMMA CalmaEnUnPaso == CompactacionInv /\ [Next]_vars => CalmaMientrasEspera'
  <1> USE DEF readyVars, colaVars, permisoVars, historia, CompactacionInv, CalmaMientrasEspera,
              VistoEnCero
  <1> SUFFICES ASSUME CompactacionInv, [Next]_vars PROVE CalmaMientrasEspera'
    OBVIOUS
  <1>1. ASSUME NEW p \in Procesos, Despachar(p) PROVE CalmaMientrasEspera'
    BY <1>1 DEF Despachar
  <1>2. ASSUME NEW impide \in BOOLEAN, RetornaFS(impide) PROVE CalmaMientrasEspera'
    BY <1>2 DEF RetornaFS
  <1>3. CASE Retorna
    BY <1>3 DEF Retorna, VuelveAReady
  <1>4. CASE FaltaCompactar
    BY <1>4 DEF FaltaCompactar
  <1>5. CASE Sumar
    BY <1>5 DEF Sumar
  <1>6. CASE Encolar
    BY <1>6 DEF Encolar
  <1>7. CASE SenialBlocked
    BY <1>7 DEF SenialBlocked
  <1>8. CASE Solicitar
    BY <1>8 DEF Solicitar, AlgoPendiente
  <1>9. CASE LeerBloqueos
    BY <1>9, CuentaPorPartes DEF LeerBloqueos
  <1>10. CASE EsperarPermiso
    BY <1>10 DEF EsperarPermiso, TypeOK
  <1>11. CASE Compactar
    BY <1>11 DEF Compactar, VuelveAReady
  <1>12. CASE LeerContador
    BY <1>12 DEF LeerContador
  <1>13. CASE LeerRequerida
    BY <1>13 DEF LeerRequerida
  <1>14. CASE DarPermiso
    BY <1>14 DEF DarPermiso
  <1>15. CASE Olvidar
    BY <1>15 DEF Olvidar
  <1>16. CASE EsperarBlocked
    BY <1>16 DEF EsperarBlocked
  <1>17. CASE QuitarBlocked
    BY <1>17 DEF QuitarBlocked
  <1>18. CASE Operar
    BY <1>18 DEF Operar
  <1>19. CASE Restar
    <2>1. compactionBlockers # 0
      BY <1>19, RestarTieneQue DEF Restar
    <2> QED
      BY <1>19, <2>1 DEF Restar
  <1>20. CASE UNCHANGED vars
    BY <1>20 DEF vars
  <1> QED
    BY <1>1, <1>2, <1>3, <1>4, <1>5, <1>6, <1>7, <1>8, <1>9, <1>10,
       <1>11, <1>12, <1>13, <1>14, <1>15, <1>16, <1>17, <1>18, <1>19, <1>20
    DEF Next, GestionadorRunning, OperarFS

LEMMA InvSiempre == Spec => []CompactacionInv
  <1>1. Init => CompactacionInv
    BY InvAlInicio
  <1>2. CompactacionInv /\ [Next]_vars => CompactacionInv'
    BY TiposEnUnPaso, CuentaEnUnPaso, ManosEnUnPaso, CalmaEnUnPaso DEF CompactacionInv
  <1> QED
    BY <1>1, <1>2, PTL DEF Spec

\* Every variable keeps its type: no matter how the two threads interleave, the counter of
\* blockers and the semaphores never go below zero.
THEOREM Tipos == Spec => []TypeOK
  <1>1. CompactacionInv => TypeOK
    BY DEF CompactacionInv
  <1> QED
    BY <1>1, InvSiempre, PTL

\* compactionBlockers is always the number of F_READ and F_WRITE that were accepted and not
\* finished, although the two threads count up and down at different times.
THEOREM BloqueosSiempreContados == Spec => []BloqueosContados
  <1>1. CompactacionInv => BloqueosContados
    BY DEF CompactacionInv
  <1> QED
    BY <1>1, InvSiempre, PTL

\* A compaction before which nothing was pending never starts while an F_READ or F_WRITE keeps
\* a physical address, although the threads read the counter under no mutex.
THEOREM SiempreCompactaEnCalma == Spec => []CompactaEnCalma
  <1>1. ASSUME CompactacionInv PROVE CompactaEnCalma
    <2> SUFFICES ASSUME run_pc = "compactar", ~pendiente PROVE ~HayOperacionQueImpide
      BY DEF CompactaEnCalma
    <2>1. compactionBlockers = 0
      BY <1>1 DEF CompactacionInv, CalmaMientrasEspera, VistoEnCero
    <2>2. Cardinality(EnCola) = 0 /\ DeFs = 0
      BY <1>1, <2>1, CuentaPorPartes
    <2>3. EnCola = {}
      <3>1. EnCola = Impiden(consolasBlocked) /\ consolasBlocked \in Seq(Nodo)
        BY <1>1 DEF EnCola, Impiden, CompactacionInv, TypeOK
      <3> QED
        BY <2>2, <3>1, ImpidenEsFinito, FS_EmptySet
    <2>4. ~(fs_pc = "operar" /\ un_nodo.impide_compactacion)
      BY <2>2 DEF DeFs, Cuenta
    <2> QED
      BY <2>3, <2>4 DEF HayOperacionQueImpide
  <1> QED
    BY <1>1, InvSiempre, PTL
=============================================================================
