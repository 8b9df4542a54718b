------------------------- MODULE PlanificadorProofs -------------------------
(***************************************************************************)
(* What holds of Planificador for every set of consoles, degree of        *)
(* multiprogramming and length of programs.                               *)
(***************************************************************************)
EXTENDS Planificador, TLAPS, SequenceTheorems, FunctionTheorems, FiniteSetTheorems

USE DEF NINGUNO

\* list_add: one more PCB, at the end.
LEMMA AgregaAlFinal ==
    ASSUME NEW S, NEW s \in Seq(S), NEW e \in S
    PROVE  Append(s, e) \in Seq(S) /\ Len(Append(s, e)) = Len(s) + 1
  OBVIOUS

\* list_add_in_index(lista, 0): one more PCB, at the front.
LEMMA AgregaAlFrente ==
    ASSUME NEW S, NEW s \in Seq(S), NEW e \in S
    PROVE  <<e>> \o s \in Seq(S) /\ Len(<<e>> \o s) = Len(s) + 1
  OBVIOUS

\* list_remove(lista, 0): the head leaves.
LEMMA QuitaCabeza ==
    ASSUME NEW S, NEW s \in Seq(S), s # <<>>
    PROVE  /\ Head(s) \in S
           /\ Tail(s) \in Seq(S)
           /\ Len(Tail(s)) = Len(s) - 1
           /\ Len(s) > 0
  BY HeadTailProperties, EmptySeq

\* list_sort: the same number of PCBs.
LEMMA Reordena ==
    ASSUME NEW S, NEW s \in Seq(S), NEW t \in Permutaciones(s)
    PROVE  t \in Seq(S) /\ Len(t) = Len(s)
  <1>1. PICK f \in [DOMAIN s -> DOMAIN s] : t = [i \in DOMAIN s |-> s[f[i]]]
    BY DEF Permutaciones
  <1>2. DOMAIN s = 1 .. Len(s) /\ Len(s) \in Nat /\ s \in [1 .. Len(s) -> S]
    BY LenProperties
  <1>3. t \in [1 .. Len(s) -> S]
    BY <1>1, <1>2
  <1>4. t \in Seq(S)
    BY <1>2, <1>3, SeqDef
  <1>5. Len(t) = Len(s)
    BY <1>2, <1>3, <1>4, LenProperties
  <1> QED
    BY <1>4, <1>5

-----------------------------------------------------------------------------
(* The types *)

LEMMA TiposAlInicio == Init => TypeOK
  <1> SUFFICES ASSUME Init PROVE TypeOK
    OBVIOUS
  <1>1. <<>> \in Seq(Procesos) /\ GRADO_MAX \in Nat /\ MAX_SYSCALLS \in Nat
    BY PlanificadorAssumption
  <1>2. instrucciones \in [Procesos -> Nat]
    BY <1>1 DEF Init
  <1>3. consola \in [Procesos -> {"fuera", "agregada", "atendida"}]
    BY DEF Init
  <1> QED
    BY <1>1, <1>2, <1>3 DEF Init, TypeOK, ReadyPcs, RunPcs, FsPcs, ExitPcs

LEMMA TiposEnUnPaso == TypeOK /\ [Next]_vars => TypeOK'
  <1> USE PlanificadorAssumption
      DEF consolaVars, readyVars, runPCBs, runVars, exitVars, fsVars, ioVars, newLista,
          readyLista, exitLista, ReadyPcs, RunPcs, FsPcs, ExitPcs
  <1> SUFFICES ASSUME TypeOK, [Next]_vars PROVE TypeOK'
    OBVIOUS
  <1>1. ASSUME NEW p \in Procesos, NuevaConsola(p) PROVE TypeOK'
    BY <1>1, AgregaAlFinal DEF NuevaConsola, TypeOK
  <1>2. ASSUME NEW p \in Procesos, SenialNew(p) PROVE TypeOK'
    BY <1>2 DEF SenialNew, TypeOK
  <1>3. ASSUME NEW p \in Procesos, Despertar(p) PROVE TypeOK'
    BY <1>3, AgregaAlFinal DEF Despertar, TypeOK
  <1>4. CASE Iniciar
    BY <1>4 DEF Iniciar, AlLazo, TypeOK
  <1>5. CASE EsperarNew
    BY <1>5 DEF EsperarNew, TypeOK
  <1>6. CASE EsperarEspacio
    BY <1>6 DEF EsperarEspacio, TypeOK
  <1>7. CASE QuitarNew
    BY <1>7, QuitaCabeza DEF QuitarNew, TypeOK
  <1>8. CASE AgregarReady
    BY <1>8, AgregaAlFinal DEF AgregarReady, TypeOK
  <1>9. CASE AgregarGlobal
    BY <1>9 DEF AgregarGlobal, TypeOK
  <1>10. CASE SenialReady
    BY <1>10 DEF SenialReady, TypeOK
  <1>11. CASE Planificar
    BY <1>11 DEF Planificar, TypeOK
  <1>12. CASE EsperarPlan
    BY <1>12 DEF EsperarPlan, TypeOK
  <1>13. CASE Ordenar
    BY <1>13, Reordena DEF Ordenar, TypeOK
  <1>14. CASE Devolver
    BY <1>14 DEF Devolver, TypeOK
  <1>15. CASE Mirar
    BY <1>15, QuitaCabeza DEF Mirar, AlLazo, TypeOK
  <1>16. CASE EsperarReady
    BY <1>16 DEF EsperarReady, TypeOK
  <1>17. CASE QuitarReady
    BY <1>17, QuitaCabeza DEF QuitarReady, TypeOK
  <1>18. CASE RetornaYield
    BY <1>18, AgregaAlFinal DEF RetornaYield, Continua, Retorna, AlLazo, TypeOK
  <1>19. CASE RetornaFrente
    BY <1>19, AgregaAlFrente DEF RetornaFrente, Continua, Retorna, AlLazo, TypeOK
  <1>20. CASE RetornaIO
    BY <1>20 DEF RetornaIO, Continua, Retorna, AlLazo, TypeOK
  <1>21. CASE RetornaFS
    BY <1>21, AgregaAlFinal DEF RetornaFS, Continua, Retorna, AlLazo, TypeOK
  <1>22. CASE RetornaTerminal(TRUE)
    BY <1>22, AgregaAlFinal DEF RetornaTerminal, Retorna, TypeOK
  <1>23. CASE RetornaTerminal(replanificar)
    BY <1>23, AgregaAlFinal DEF RetornaTerminal, Retorna, TypeOK
  <1>24. CASE RunSenialReady
    BY <1>24 DEF RunSenialReady, AlLazo, TypeOK
  <1>25. CASE RunSenialExit
    BY <1>25 DEF RunSenialExit, AlLazo, TypeOK
  <1>26. CASE RunSenialBlocked
    BY <1>26 DEF RunSenialBlocked, AlLazo, TypeOK
  <1>27. CASE EsperarBlocked
    BY <1>27 DEF EsperarBlocked, TypeOK
  <1>28. CASE QuitarBlocked
    BY <1>28, QuitaCabeza DEF QuitarBlocked, TypeOK
  <1>29. CASE Operar
    <2>1. fsPCB \in Procesos /\ consolasReady \in Seq(Procesos)
      BY <1>29 DEF Operar, TypeOK
    <2>2. {<<fsPCB>> \o consolasReady, Append(consolasReady, fsPCB)} \subseteq Seq(Procesos)
      BY <2>1, AgregaAlFinal, AgregaAlFrente
    <2>3. consolasReady' \in Seq(Procesos)
      BY <1>29, <2>2 DEF Operar
    <2> QED
      BY <1>29, <2>3 DEF Operar, TypeOK
  <1>30. CASE OperarError
    BY <1>30, AgregaAlFinal DEF OperarError, TypeOK
  <1>31. CASE FsSenialReady
    BY <1>31 DEF FsSenialReady, TypeOK
  <1>32. CASE FsSenialExit
    BY <1>32 DEF FsSenialExit, TypeOK
  <1>33. CASE EsperarExit
    BY <1>33 DEF EsperarExit, TypeOK
  <1>34. CASE QuitarExit
    BY <1>34, QuitaCabeza DEF QuitarExit, TypeOK
  <1>35. CASE LiberarPCB
    BY <1>35 DEF LiberarPCB, TypeOK
  <1>36. CASE SenialEspacio
    BY <1>36 DEF SenialEspacio, TypeOK
  <1>37. CASE SenialIO
    BY <1>37 DEF SenialIO, TypeOK
  <1>38. CASE UNCHANGED vars
    BY <1>38 DEF vars, TypeOK
  <1> QED
    BY <1>1, <1>2, <1>3, <1>4, <1>5, <1>6, <1>7, <1>8, <1>9, <1>10,
       <1>11, <1>12, <1>13, <1>14, <1>15, <1>16, <1>17, <1>18, <1>19, <1>20,
       <1>21, <1>22, <1>23, <1>24, <1>25, <1>26, <1>27, <1>28, <1>29, <1>30,
       <1>31, <1>32, <1>33, <1>34, <1>35, <1>36, <1>37, <1>38
    DEF Next, GestionadorReady, GestionadorRunning, ReadOp, OperarFS, GestionadorExit

\* Every variable keeps its type: no counting semaphore is ever below zero, and a thread holds
\* a PCB exactly between the step that takes it from a list and the one that gives it away.
THEOREM Tipos == Spec => []TypeOK
  <1>1. Init => TypeOK
    BY TiposAlInicio
  <1>2. TypeOK /\ [Next]_vars => TypeOK'
    BY TiposEnUnPaso
  <1> QED
    BY <1>1, <1>2, PTL DEF Spec

-----------------------------------------------------------------------------
(* The tokens: the counting semaphores and the lists agree *)

\* At "mirar" HRRN holds no token, but it has just given one back and nobody else takes tokens
\* of consolasReady.
FichaDeMirar == run_pc = "mirar" => hayConsolasReady > 0

\* The inductive invariant.
FichasInv == TypeOK /\ Fichas /\ FichaDeMirar

LEMMA FichasAlInicio == Init => FichasInv
  <1> SUFFICES ASSUME Init PROVE FichasInv
    OBVIOUS
  <1>1. TypeOK
    BY TiposAlInicio
  <1>2. Cardinality(Agregadas) = 0
    <2>1. Agregadas = {}
      BY DEF Init, Agregadas
    <2> QED
      BY <2>1, FS_EmptySet
  <1>3. <<>> \in Seq(Procesos) /\ Len(<<>>) = 0
    OBVIOUS
  <1> QED
    BY <1>1, <1>2, <1>3
    DEF Init, FichasInv, FichaDeMirar, Fichas, FichasNew, FichasReady, FichasBlocked, FichasExit,
        Cuenta

\* How many consoles owe a post is a number.
LEMMA CardinalDeAgregadas == IsFiniteSet(Agregadas) /\ Cardinality(Agregadas) \in Nat
  BY PlanificadorAssumption, FS_Subset, FS_CardinalityType DEF Agregadas

\* A console that adds its PCB to NEW is one more that owes a post.
LEMMA FichaQueSeDebe ==
    ASSUME TypeOK, NEW p \in Procesos, NuevaConsola(p)
    PROVE  Cardinality(Agregadas') = Cardinality(Agregadas) + 1
  <1>1. Agregadas' = Agregadas \cup {p} /\ p \notin Agregadas
    BY DEF TypeOK, NuevaConsola, Agregadas
  <1> QED
    BY <1>1, CardinalDeAgregadas, FS_AddElement

\* When it posts, it is one less.
LEMMA FichaQueSePaga ==
    ASSUME TypeOK, NEW p \in Procesos, SenialNew(p)
    PROVE  Cardinality(Agregadas') = Cardinality(Agregadas) - 1
  <1>1. Agregadas' = Agregadas \ {p} /\ p \in Agregadas
    BY DEF TypeOK, SenialNew, Agregadas
  <1> QED
    BY <1>1, CardinalDeAgregadas, FS_RemoveElement

LEMMA FichasEnUnPaso == FichasInv /\ [Next]_vars => FichasInv'
  <1> USE DEF consolaVars, readyVars, runPCBs, runVars, exitVars, fsVars, ioVars, newLista,
              readyLista, exitLista, Cuenta, FichasInv, FichaDeMirar
  <1> SUFFICES ASSUME FichasInv, [Next]_vars PROVE (Fichas /\ FichaDeMirar)'
    BY TiposEnUnPaso
  <1>n. /\ hayConsolasNew \in Nat /\ hayConsolasReady \in Nat /\ hayConsolasBlocked \in Nat
        /\ hayConsolasExit \in Nat /\ io_senial \in Nat /\ Cardinality(Agregadas) \in Nat
        /\ consolasNew \in Seq(Procesos) /\ consolasReady \in Seq(Procesos)
        /\ consolasBlocked \in Seq(Procesos) /\ consolasExit \in Seq(Procesos)
    BY CardinalDeAgregadas DEF TypeOK
  <1>l. /\ Len(consolasNew) \in Nat /\ Len(consolasReady) \in Nat
        /\ Len(consolasBlocked) \in Nat /\ Len(consolasExit) \in Nat
    BY <1>n
  <1>p. /\ runningPCB # NINGUNO => runningPCB \in Procesos
        /\ run_pc = "cpu" => runningPCB \in Procesos
        /\ ready_pc \in {"agregarReady", "agregarGlobal"} => readyPCB \in Procesos
        /\ fs_pc = "operar" => fsPCB \in Procesos
    BY DEF TypeOK
  <1> USE <1>n, <1>l, <1>p DEF Fichas, FichasNew, FichasReady, FichasBlocked, FichasExit
  <1>1. ASSUME NEW p \in Procesos, NuevaConsola(p) PROVE (Fichas /\ FichaDeMirar)'
    <2>1. Cardinality(Agregadas') = Cardinality(Agregadas) + 1
      BY <1>1, FichaQueSeDebe
    <2>2. Len(consolasNew') = Len(consolasNew) + 1 /\ UNCHANGED <<hayConsolasNew, ready_pc>>
      BY <1>1, AgregaAlFinal DEF NuevaConsola
    <2>3. FichasNew'
      BY <2>1, <2>2
    <2>4. (FichasReady /\ FichasBlocked /\ FichasExit /\ FichaDeMirar)'
      BY <1>1 DEF NuevaConsola
    <2> QED
      BY <2>3, <2>4
  <1>2. ASSUME NEW p \in Procesos, SenialNew(p) PROVE (Fichas /\ FichaDeMirar)'
    <2>1. Cardinality(Agregadas') = Cardinality(Agregadas) - 1
      BY <1>2, FichaQueSePaga
    <2>2. hayConsolasNew' = hayConsolasNew + 1 /\ UNCHANGED <<consolasNew, ready_pc>>
      BY <1>2 DEF SenialNew
    <2>3. FichasNew'
      BY <2>1, <2>2
    <2>4. (FichasReady /\ FichasBlocked /\ FichasExit /\ FichaDeMirar)'
      BY <1>2 DEF SenialNew
    <2> QED
      BY <2>3, <2>4
  <1>3. ASSUME NEW p \in Procesos, Despertar(p) PROVE (Fichas /\ FichaDeMirar)'
    BY <1>3, AgregaAlFinal DEF Despertar, Agregadas
  <1>4. CASE Iniciar
    BY <1>4 DEF Iniciar, AlLazo, Agregadas
  <1>5. CASE EsperarNew
    BY <1>5 DEF EsperarNew, Agregadas
  <1>6. CASE EsperarEspacio
    BY <1>6 DEF EsperarEspacio, Agregadas
  <1>7. CASE QuitarNew
    <2>1. FichasNew'
      <3>1. ready_pc = "quitarNew" /\ ready_pc' = "agregarReady" /\ hayConsolasNew' = hayConsolasNew
        BY <1>7 DEF QuitarNew
      <3>2. Len(consolasNew') = Len(consolasNew) - 1
        BY <1>7, QuitaCabeza DEF QuitarNew
      <3>3. Agregadas' = Agregadas
        BY <1>7 DEF QuitarNew, Agregadas
      <3> QED
        BY <3>1, <3>2, <3>3
    <2>2. FichasReady' /\ FichaDeMirar'
      BY <1>7, QuitaCabeza DEF QuitarNew, Agregadas
    <2>3. FichasBlocked'
      BY <1>7, QuitaCabeza DEF QuitarNew, Agregadas
    <2>4. FichasExit'
      BY <1>7, QuitaCabeza DEF QuitarNew, Agregadas
    <2> QED
      BY <2>1, <2>2, <2>3, <2>4
  <1>8. CASE AgregarReady
    BY <1>8, AgregaAlFinal DEF AgregarReady, Agregadas
  <1>9. CASE AgregarGlobal
    BY <1>9 DEF AgregarGlobal, Agregadas
  <1>10. CASE SenialReady
    BY <1>10 DEF SenialReady, Agregadas
  <1>11. CASE Planificar
    BY <1>11 DEF Planificar, Agregadas
  <1>12. CASE EsperarPlan
    <2>1. FichasNew'
      BY <1>12 DEF EsperarPlan, Agregadas
    <2>2. FichasReady' /\ FichaDeMirar'
      <3>1. /\ run_pc \notin {"ordenar", "devolver", "quitarReady", "senialReady"}
            /\ run_pc' \in {"ordenar", "quitarReady"}
            /\ hayConsolasReady' = hayConsolasReady - 1
            /\ UNCHANGED <<consolasReady, io_senial, fs_pc, ready_pc>>
        BY <1>12 DEF EsperarPlan
      <3>2. Cuenta(run_pc \in {"ordenar", "devolver", "quitarReady", "senialReady"}) = 0
        BY <3>1
      <3>3. Cuenta(run_pc' \in {"ordenar", "devolver", "quitarReady", "senialReady"}) = 1
        BY <3>1
      <3> QED
        BY <3>1, <3>2, <3>3
    <2>3. FichasBlocked'
      BY <1>12 DEF EsperarPlan, Agregadas
    <2>4. FichasExit'
      BY <1>12 DEF EsperarPlan, Agregadas
    <2> QED
      BY <2>1, <2>2, <2>3, <2>4
  <1>13. CASE Ordenar
    BY <1>13, Reordena DEF Ordenar, Agregadas
  <1>14. CASE Devolver
    BY <1>14 DEF Devolver, Agregadas
  <1>15. CASE Mirar
    BY <1>15, QuitaCabeza DEF Mirar, AlLazo, Agregadas
  <1>16. CASE EsperarReady
    <2>1. FichasNew'
      BY <1>16 DEF EsperarReady, Agregadas
    <2>2. FichasReady' /\ FichaDeMirar'
      <3>1. /\ run_pc \notin {"ordenar", "devolver", "quitarReady", "senialReady"}
            /\ run_pc' \in {"ordenar", "quitarReady"}
            /\ hayConsolasReady' = hayConsolasReady - 1
            /\ UNCHANGED <<consolasReady, io_senial, fs_pc, ready_pc>>
        BY <1>16 DEF EsperarReady
      <3>2. Cuenta(run_pc \in {"ordenar", "devolver", "quitarReady", "senialReady"}) = 0
        BY <3>1
      <3>3. Cuenta(run_pc' \in {"ordenar", "devolver", "quitarReady", "senialReady"}) = 1
        BY <3>1
      <3> QED
        BY <3>1, <3>2, <3>3
    <2>3. FichasBlocked'
      BY <1>16 DEF EsperarReady, Agregadas
    <2>4. FichasExit'
      BY <1>16 DEF EsperarReady, Agregadas
    <2> QED
      BY <2>1, <2>2, <2>3, <2>4
  <1>17. CASE QuitarReady
    BY <1>17, QuitaCabeza DEF QuitarReady, Agregadas
  <1>18. CASE RetornaYield
    BY <1>18, AgregaAlFinal DEF RetornaYield, Continua, Retorna, AlLazo, Agregadas
  <1>19. CASE RetornaFrente
    BY <1>19, AgregaAlFrente DEF RetornaFrente, Continua, Retorna, AlLazo, Agregadas
  <1>20. CASE RetornaIO
    BY <1>20 DEF RetornaIO, Continua, Retorna, AlLazo, Agregadas
  <1>21. CASE RetornaFS
    <2>1. FichasNew'
      BY <1>21, AgregaAlFinal DEF RetornaFS, Continua, Retorna, AlLazo, Agregadas
    <2>2. FichasReady' /\ FichaDeMirar'
      BY <1>21, AgregaAlFinal DEF RetornaFS, Continua, Retorna, AlLazo, Agregadas
    <2>3. FichasBlocked'
      BY <1>21, AgregaAlFinal DEF RetornaFS, Continua, Retorna, AlLazo, Agregadas
    <2>4. FichasExit'
      BY <1>21, AgregaAlFinal DEF RetornaFS, Continua, Retorna, AlLazo, Agregadas
    <2> QED
      BY <2>1, <2>2, <2>3, <2>4
  <1>22. CASE RetornaTerminal(TRUE)
    BY <1>22, AgregaAlFinal DEF RetornaTerminal, Retorna, Agregadas
  <1>23. CASE RetornaTerminal(replanificar)
    BY <1>23, AgregaAlFinal DEF RetornaTerminal, Retorna, Agregadas
  <1>24. CASE RunSenialReady
    BY <1>24 DEF RunSenialReady, AlLazo, Agregadas
  <1>25. CASE RunSenialExit
    BY <1>25 DEF RunSenialExit, AlLazo, Agregadas
  <1>26. CASE RunSenialBlocked
    BY <1>26 DEF RunSenialBlocked, AlLazo, Agregadas
  <1>27. CASE EsperarBlocked
    BY <1>27 DEF EsperarBlocked, Agregadas
  <1>28. CASE QuitarBlocked
    BY <1>28, QuitaCabeza DEF QuitarBlocked, Agregadas
  <1>29. CASE Operar
    BY <1>29, AgregaAlFinal, AgregaAlFrente DEF Operar, Agregadas
  <1>30. CASE OperarError
    BY <1>30, AgregaAlFinal DEF OperarError, Agregadas
  <1>31. CASE FsSenialReady
    BY <1>31 DEF FsSenialReady, Agregadas
  <1>32. CASE FsSenialExit
    BY <1>32 DEF FsSenialExit, Agregadas
  <1>33. CASE EsperarExit
    BY <1>33 DEF EsperarExit, Agregadas
  <1>34. CASE QuitarExit
    BY <1>34, QuitaCabeza DEF QuitarExit, Agregadas
  <1>35. CASE LiberarPCB
    BY <1>35 DEF LiberarPCB, Agregadas
  <1>36. CASE SenialEspacio
    BY <1>36 DEF SenialEspacio, Agregadas
  <1>37. CASE SenialIO
    <2>1. FichasNew'
      BY <1>37 DEF SenialIO, Agregadas
    <2>2. FichasReady' /\ FichaDeMirar'
      BY <1>37 DEF SenialIO, Agregadas
    <2>3. FichasBlocked'
      BY <1>37 DEF SenialIO, Agregadas
    <2>4. FichasExit'
      BY <1>37 DEF SenialIO, Agregadas
    <2> QED
      BY <2>1, <2>2, <2>3, <2>4
  <1>38. CASE UNCHANGED vars
    BY <1>38 DEF vars, Agregadas
  <1> QED
    BY <1>1, <1>2, <1>3, <1>4, <1>5, <1>6, <1>7, <1>8, <1>9, <1>10,
       <1>11, <1>12, <1>13, <1>14, <1>15, <1>16, <1>17, <1>18, <1>19, <1>20,
       <1>21, <1>22, <1>23, <1>24, <1>25, <1>26, <1>27, <1>28, <1>29, <1>30,
       <1>31, <1>32, <1>33, <1>34, <1>35, <1>36, <1>37, <1>38
    DEF Next, GestionadorReady, GestionadorRunning, ReadOp, OperarFS, GestionadorExit

LEMMA FichasInvSiempre == Spec => []FichasInv
  <1>1. Init => FichasInv
    BY FichasAlInicio
  <1>2. FichasInv /\ [Next]_vars => FichasInv'
    BY FichasEnUnPaso
  <1> QED
    BY <1>1, <1>2, PTL DEF Spec

\* The tokens of the semaphores, with the posts that are due and the tokens that threads hold,
\* are always as many as the PCBs of the lists.
THEOREM FichasSiempre == Spec => []Fichas
  <1>1. FichasInv => Fichas
    BY DEF FichasInv
  <1> QED
    BY <1>1, FichasInvSiempre, PTL

\* No thread ever takes or looks at the head of an empty list.
THEOREM NuncaListaVacia == Spec => []SinListaVacia
  <1>1. ASSUME FichasInv PROVE SinListaVacia
    <2>1. /\ hayConsolasNew \in Nat /\ hayConsolasReady \in Nat /\ hayConsolasBlocked \in Nat
          /\ hayConsolasExit \in Nat /\ io_senial \in Nat /\ Cardinality(Agregadas) \in Nat
      BY <1>1, CardinalDeAgregadas DEF FichasInv, TypeOK
    <2>2. ready_pc = "quitarNew" => Len(consolasNew) > 0
      BY <1>1, <2>1 DEF FichasInv, Fichas, FichasNew, Cuenta
    <2>3. run_pc \in {"ordenar", "devolver", "quitarReady"} => Len(consolasReady) > 0
      BY <1>1, <2>1 DEF FichasInv, Fichas, FichasReady, Cuenta
    <2>4. run_pc = "mirar" => Len(consolasReady) > 0
      BY <1>1, <2>1 DEF FichasInv, FichaDeMirar, Fichas, FichasReady, Cuenta
    <2>5. fs_pc = "quitarBlocked" => Len(consolasBlocked) > 0
      BY <1>1, <2>1 DEF FichasInv, Fichas, FichasBlocked, Cuenta
    <2>6. exit_pc = "quitarExit" => Len(consolasExit) > 0
      BY <1>1, <2>1 DEF FichasInv, Fichas, FichasExit, Cuenta
    <2>7. Len(<<>>) = 0
      OBVIOUS
    <2> QED
      BY <2>2, <2>3, <2>4, <2>5, <2>6, <2>7 DEF SinListaVacia
  <1> QED
    BY <1>1, FichasInvSiempre, PTL
-----------------------------------------------------------------------------
(* The PCB that HRRN looked at *)

\* The inductive invariant: nextPCB is in use only from "mirar" until the next removal.
MiradoInv ==
    /\ TypeOK
    /\ MiradoSigueEnReady
    /\ nextPCB # NINGUNO => run_pc \in {"planificar", "hayReady", "quitarReady"}

\* A PCB stays in a list when another is added at either end.
LEMMA SigueEnLista ==
    ASSUME NEW s \in Seq(Procesos), NEW e \in Procesos, NEW p, EnLista(s, p)
    PROVE  EnLista(Append(s, e), p) /\ EnLista(<<e>> \o s, p)
  <1>1. PICK i \in 1 .. Len(s) : s[i] = p
    BY DEF EnLista
  <1>2. EnLista(Append(s, e), p)
    <2>1. i \in 1 .. Len(Append(s, e)) /\ Append(s, e)[i] = p
      BY <1>1
    <2> QED
      BY <2>1, AgregaAlFinal DEF EnLista
  <1>3. EnLista(<<e>> \o s, p)
    <2>1. i + 1 \in 1 .. Len(<<e>> \o s) /\ (<<e>> \o s)[i + 1] = p
      BY <1>1
    <2>2. i + 1 \in DOMAIN (<<e>> \o s)
      BY <2>1, AgregaAlFrente, LenProperties
    <2> QED
      BY <2>1, <2>2 DEF EnLista
  <1> QED
    BY <1>2, <1>3

LEMMA CabezaEnLista ==
    ASSUME NEW s \in Seq(Procesos), s # <<>>
    PROVE  EnLista(s, Head(s))
  <1>1. Len(s) > 0 /\ 1 \in DOMAIN s /\ Head(s) = s[1]
    OBVIOUS
  <1> QED
    BY <1>1 DEF EnLista

LEMMA MiradoEnUnPaso == MiradoInv /\ [Next]_vars => MiradoInv'
  <1> USE DEF consolaVars, readyVars, runPCBs, runVars, exitVars, fsVars, ioVars, newLista,
              readyLista, exitLista, MiradoInv
  <1> SUFFICES ASSUME MiradoInv, [Next]_vars
               PROVE  /\ MiradoSigueEnReady'
                      /\ (nextPCB # NINGUNO =>
                             run_pc \in {"planificar", "hayReady", "quitarReady"})'
    BY TiposEnUnPaso
  <1> DEFINE Meta == /\ MiradoSigueEnReady'
                     /\ (nextPCB # NINGUNO
                         => run_pc \in {"planificar", "hayReady", "quitarReady"})'
  <1>t. /\ consolasReady \in Seq(Procesos)
        /\ ready_pc \in {"agregarReady", "agregarGlobal"} => readyPCB \in Procesos
        /\ fs_pc = "operar" => fsPCB \in Procesos
    BY DEF TypeOK
  <1>n. \A p : nextPCB = p /\ nextPCB # NINGUNO => EnLista(consolasReady, p)
    BY DEF MiradoSigueEnReady
  \* The steps that touch neither READY nor the short-term scheduler.
  <1>1. ASSUME UNCHANGED <<consolasReady, nextPCB, run_pc>> PROVE Meta
    BY <1>1 DEF MiradoSigueEnReady, EnLista
  \* The other threads add a PCB to READY.
  <1>2. ASSUME UNCHANGED <<nextPCB, run_pc>>, NEW e \in Procesos,
               consolasReady' \in {Append(consolasReady, e), <<e>> \o consolasReady}
        PROVE  Meta
    <2>1. nextPCB # NINGUNO => EnLista(consolasReady', nextPCB)
      BY <1>2, <1>t, <1>n, SigueEnLista
    <2> QED
      BY <1>2, <2>1 DEF MiradoSigueEnReady
  \* The short-term scheduler holds no such PCB after the step.
  <1>3. ASSUME nextPCB' = NINGUNO PROVE Meta
    BY <1>3 DEF MiradoSigueEnReady
  <1>4. ASSUME NEW p \in Procesos, NuevaConsola(p) \/ SenialNew(p) \/ Despertar(p) PROVE Meta
    <2>1. CASE NuevaConsola(p)
      BY <1>1, <2>1 DEF NuevaConsola
    <2>2. CASE SenialNew(p)
      BY <1>1, <2>2 DEF SenialNew
    <2>3. CASE Despertar(p)
      BY <1>2, <2>3 DEF Despertar
    <2> QED
      BY <1>4, <2>1, <2>2, <2>3
  <1>5. CASE Iniciar
    BY <1>3, <1>5 DEF Iniciar
  <1>6. CASE GestionadorReady
    <2>1. CASE AgregarReady
      BY <1>2, <1>t, <2>1 DEF AgregarReady
    <2>2. CASE EsperarNew \/ EsperarEspacio \/ QuitarNew \/ AgregarGlobal \/ SenialReady
      BY <1>1, <2>2 DEF EsperarNew, EsperarEspacio, QuitarNew, AgregarGlobal, SenialReady
    <2> QED
      BY <1>6, <2>1, <2>2 DEF GestionadorReady
  <1>7. CASE GestionadorRunning
    <2>1. CASE Planificar \/ QuitarReady
      BY <1>3, <2>1 DEF Planificar, QuitarReady
    <2>2. CASE EsperarPlan \/ Ordenar \/ Devolver
      BY <1>3, <2>2 DEF EsperarPlan, Ordenar, Devolver
    <2>3. CASE Mirar
      <3>1. EnLista(consolasReady, Head(consolasReady))
        BY <1>t, <2>3, CabezaEnLista DEF Mirar
      <3> QED
        BY <2>3, <3>1 DEF Mirar, AlLazo, MiradoSigueEnReady
    <2>4. CASE EsperarReady
      BY <1>n, <2>4 DEF EsperarReady, MiradoSigueEnReady
    <2>5. CASE ReadOp
      BY <1>3, <2>5 DEF ReadOp, RetornaYield, RetornaFrente, RetornaIO, RetornaFS,
                        RetornaTerminal, Continua, Retorna
    <2>6. CASE RunSenialReady \/ RunSenialExit \/ RunSenialBlocked
      BY <1>3, <2>6 DEF RunSenialReady, RunSenialExit, RunSenialBlocked
    <2> QED
      BY <1>7, <2>1, <2>2, <2>3, <2>4, <2>5, <2>6 DEF GestionadorRunning
  <1>8. CASE OperarFS
    <2>1. CASE Operar
      BY <1>2, <1>t, <2>1 DEF Operar
    <2>2. CASE EsperarBlocked \/ QuitarBlocked \/ OperarError \/ FsSenialReady \/ FsSenialExit
      BY <1>1, <2>2 DEF EsperarBlocked, QuitarBlocked, OperarError, FsSenialReady, FsSenialExit
    <2> QED
      BY <1>8, <2>1, <2>2 DEF OperarFS
  <1>9. CASE GestionadorExit
    BY <1>1, <1>9 DEF GestionadorExit, EsperarExit, QuitarExit, LiberarPCB, SenialEspacio
  <1>10. CASE SenialIO
    BY <1>1, <1>10 DEF SenialIO
  <1>11. CASE UNCHANGED vars
    BY <1>1, <1>11 DEF vars
  <1> QED
    BY <1>4, <1>5, <1>6, <1>7, <1>8, <1>9, <1>10, <1>11 DEF Next

\* Between the look at the head of READY and the next removal, whatever is added or freed
\* meanwhile, the PCB that HRRN logged as RUNNING is in READY.
THEOREM MiradoSiempreEnReady == Spec => []MiradoSigueEnReady
  <1>1. Init => MiradoInv
    BY TiposAlInicio DEF Init, MiradoInv, MiradoSigueEnReady
  <1>2. MiradoInv /\ [Next]_vars => MiradoInv'
    BY MiradoEnUnPaso
  <1>3. MiradoInv => MiradoSigueEnReady
    BY DEF MiradoInv
  <1> QED
    BY <1>1, <1>2, <1>3, PTL DEF Spec
-----------------------------------------------------------------------------
(* The threads, lists and semaphores implement the life cycle *)

SinRepetir(s) == \A i, j \in DOMAIN s : s[i] = s[j] => i = j

\* The places where a process may be; what is not "fuera" nor "liberado" is a list or a thread.
Lugares == {"fuera", "new", "admision", "ready", "cpu", "io", "blocked", "fs", "exit", "salida",
            "liberado"}

\* l says where each process is, and it is nowhere else, nor twice in a list.
Ubicado(l) ==
    /\ l \in [Procesos -> Lugares]
    /\ \A p \in Procesos :
          /\ consola[p] = "fuera" <=> l[p] = "fuera"
          /\ EnLista(consolasNew, p) <=> l[p] = "new"
          /\ EnManosDeReady(p) <=> l[p] = "admision"
          /\ EnLista(consolasReady, p) <=> l[p] = "ready"
          /\ EnCPU(p) <=> l[p] = "cpu"
          /\ p \in durmiendo <=> l[p] = "io"
          /\ EnLista(consolasBlocked, p) <=> l[p] = "blocked"
          /\ EnManosDeFS(p) <=> l[p] = "fs"
          /\ EnLista(consolasExit, p) <=> l[p] = "exit"
          /\ EnManosDeExit(p) <=> l[p] = "salida"
          /\ p \in liberados <=> l[p] = "liberado"
    /\ SinRepetir(consolasNew) /\ SinRepetir(consolasReady)
    /\ SinRepetir(consolasBlocked) /\ SinRepetir(consolasExit)

LugaresAdentro == {"ready", "cpu", "io", "blocked", "fs", "exit", "salida"}
Peso(x) == IF x \in LugaresAdentro THEN 1 ELSE 0
Adentro(l) == {p \in Procesos : l[p] \in LugaresAdentro}

\* GRADO_MAX is the places free, those taken, and those that a thread has yet to fill or to
\* give back.
Cupo(l) ==
    GRADO_MAX = hayEspacioReady + Cardinality(Adentro(l))
                + Cuenta(ready_pc \in {"quitarNew", "agregarReady"})
                + Cuenta(exit_pc = "senialEspacio")

\* The inductive invariant.
LugaresInv == TypeOK /\ \E l : Ubicado(l) /\ Cupo(l)

LEMMA ListaConUnoMas ==
    ASSUME NEW s \in Seq(Procesos), NEW e \in Procesos, ~EnLista(s, e), SinRepetir(s),
           NEW t \in {Append(s, e), <<e>> \o s}
    PROVE  SinRepetir(t) /\ \A q \in Procesos : EnLista(t, q) <=> EnLista(s, q) \/ q = e
  <1>1. DOMAIN s = 1 .. Len(s) /\ Len(s) \in Nat
    BY LenProperties
  <1>2. CASE t = Append(s, e)
    <2>1. /\ DOMAIN t = 1 .. Len(s) + 1 /\ t[Len(s) + 1] = e
          /\ \A i \in 1 .. Len(s) : t[i] = s[i]
      BY <1>1, <1>2, AppendProperties
    <2>2. SinRepetir(t)
      BY <1>1, <2>1 DEF SinRepetir, EnLista
    <2> QED
      BY <1>1, <2>1, <2>2 DEF EnLista
  <1>3. CASE t = <<e>> \o s
    <2>1. /\ DOMAIN t = 1 .. Len(s) + 1 /\ t[1] = e
          /\ \A i \in 2 .. Len(s) + 1 : t[i] = s[i - 1] /\ i - 1 \in 1 .. Len(s)
          /\ \A i \in 1 .. Len(s) : t[i + 1] = s[i] /\ i + 1 \in 1 .. Len(s) + 1
      <3>1. t \in Seq(Procesos) /\ Len(t) = Len(s) + 1
        BY <1>3, AgregaAlFrente
      <3>2. <<e>> \in Seq(Procesos) /\ Len(<<e>>) = 1 /\ <<e>>[1] = e
        OBVIOUS
      <3>3. \A i \in 1 .. 1 + Len(s) : t[i] = IF i <= 1 THEN <<e>>[i] ELSE s[i - 1]
        BY <1>3, <3>2, ConcatProperties
      <3>4. DOMAIN t = 1 .. Len(s) + 1
        BY <3>1, LenProperties
      <3>5. \A i \in 2 .. Len(s) + 1 : t[i] = s[i - 1] /\ i - 1 \in 1 .. Len(s)
        BY <1>1, <3>3
      <3>6. \A i \in 1 .. Len(s) : i + 1 \in 1 .. Len(s) + 1 /\ t[i + 1] = s[i]
        <4> TAKE i \in 1 .. Len(s)
        <4>1. i + 1 \in 2 .. Len(s) + 1 /\ (i + 1) - 1 = i
          BY <1>1
        <4> QED
          BY <1>1, <3>5, <4>1
      <3>7. t[1] = e
        BY <1>1, <3>2, <3>3
      <3> QED
        BY <3>4, <3>5, <3>6, <3>7
    <2>2. ASSUME NEW i \in DOMAIN t, NEW j \in DOMAIN t, t[i] = t[j] PROVE i = j
      <3>1. \A k \in 2 .. Len(s) + 1 : t[k] # e
        <4> SUFFICES ASSUME NEW k \in 2 .. Len(s) + 1 PROVE t[k] # e
          OBVIOUS
        <4>1. k - 1 \in DOMAIN s /\ t[k] = s[k - 1]
          BY <1>1, <2>1
        <4> QED
          BY <4>1 DEF EnLista
      <3>2. CASE i \in 2 .. Len(s) + 1 /\ j \in 2 .. Len(s) + 1
        <4>1. i - 1 \in DOMAIN s /\ j - 1 \in DOMAIN s /\ s[i - 1] = s[j - 1]
          BY <1>1, <2>1, <2>2, <3>2
        <4>2. i - 1 = j - 1
          BY <4>1 DEF SinRepetir
        <4> QED
          BY <1>1, <3>2, <4>2
      <3> QED
        BY <1>1, <2>1, <2>2, <3>1, <3>2
    <2>3. SinRepetir(t)
      BY <2>2 DEF SinRepetir
    <2>4. ASSUME NEW q \in Procesos PROVE EnLista(t, q) <=> EnLista(s, q) \/ q = e
      <3>1. ASSUME EnLista(t, q) PROVE EnLista(s, q) \/ q = e
        <4>1. PICK i \in 1 .. Len(s) + 1 : t[i] = q
          BY <2>1, <3>1 DEF EnLista
        <4>2. i = 1 \/ i \in 2 .. Len(s) + 1
          BY <1>1
        <4> QED
          BY <1>1, <2>1, <4>1, <4>2 DEF EnLista
      <3>2. ASSUME EnLista(s, q) PROVE EnLista(t, q)
        BY <1>1, <2>1, <3>2 DEF EnLista
      <3>3. q = e => EnLista(t, q)
        BY <1>1, <2>1 DEF EnLista
      <3> QED
        BY <3>1, <3>2, <3>3
    <2> QED
      BY <2>3, <2>4
  <1> QED
    BY <1>2, <1>3

LEMMA ListaSinCabeza ==
    ASSUME NEW s \in Seq(Procesos), s # <<>>, SinRepetir(s)
    PROVE  /\ Head(s) \in Procesos /\ Tail(s) \in Seq(Procesos)
           /\ SinRepetir(Tail(s)) /\ EnLista(s, Head(s))
           /\ \A q \in Procesos : EnLista(Tail(s), q) <=> EnLista(s, q) /\ q # Head(s)
  <1> DEFINE t == Tail(s)
  <1>1. /\ Head(s) \in Procesos /\ Head(s) = s[1] /\ t \in Seq(Procesos)
        /\ Len(t) = Len(s) - 1 /\ \A i \in 1 .. Len(t) : t[i] = s[i + 1]
    BY HeadTailProperties
  <1>2. /\ DOMAIN s = 1 .. Len(s) /\ Len(s) \in Nat \ {0} /\ DOMAIN t = 1 .. Len(s) - 1
    BY <1>1, LenProperties, EmptySeq
  <1>3. \A i \in 2 .. Len(s) : i - 1 \in 1 .. Len(t) /\ t[i - 1] = s[i]
    BY <1>1, <1>2
  <1>4. SinRepetir(t)
    BY <1>1, <1>2 DEF SinRepetir
  <1>5. EnLista(s, Head(s))
    BY <1>1, <1>2 DEF EnLista
  <1>6. ASSUME NEW q \in Procesos PROVE EnLista(t, q) <=> EnLista(s, q) /\ q # Head(s)
    <2>1. ASSUME EnLista(t, q) PROVE EnLista(s, q) /\ q # Head(s)
      BY <1>1, <1>2, <2>1 DEF EnLista, SinRepetir
    <2>2. ASSUME EnLista(s, q), q # Head(s) PROVE EnLista(t, q)
      <3>1. PICK i \in 1 .. Len(s) : s[i] = q
        BY <1>2, <2>2 DEF EnLista
      <3>2. i \in 2 .. Len(s)
        BY <1>1, <1>2, <2>2, <3>1
      <3> QED
        BY <1>1, <1>2, <1>3, <3>1, <3>2 DEF EnLista
    <2> QED
      BY <2>1, <2>2
  <1> QED
    BY <1>1, <1>4, <1>5, <1>6

LEMMA ListaReordenada ==
    ASSUME NEW s \in Seq(Procesos), NEW t \in Permutaciones(s), SinRepetir(s)
    PROVE  SinRepetir(t) /\ \A q \in Procesos : EnLista(t, q) <=> EnLista(s, q)
  <1>1. PICK f \in [DOMAIN s -> DOMAIN s] :
            t = [i \in DOMAIN s |-> s[f[i]]] /\ \A i, j \in DOMAIN s : f[i] = f[j] => i = j
    BY DEF Permutaciones
  <1>2. IsFiniteSet(DOMAIN s)
    BY LenProperties, FS_Interval
  <1>3. f \in Surjection(DOMAIN s, DOMAIN s)
    BY <1>1, <1>2, Fun_IsInj, FS_Injection
  <1>4. \A k \in DOMAIN s : \E i \in DOMAIN s : f[i] = k
    BY <1>3, Fun_SurjectionProperties
  <1> QED
    BY <1>1, <1>4 DEF EnLista, SinRepetir

LEMMA AdentroAlMover ==
    ASSUME NEW l \in [Procesos -> Lugares], NEW p \in Procesos, NEW x \in Lugares, NEW m,
           m = [l EXCEPT ![p] = x]
    PROVE  /\ Cardinality(Adentro(l)) \in Nat /\ Cardinality(Adentro(m)) \in Nat
           /\ Cardinality(Adentro(m)) = Cardinality(Adentro(l)) + Peso(x) - Peso(l[p])
  <1>1. IsFiniteSet(Adentro(l)) /\ Cardinality(Adentro(l)) \in Nat
    BY PlanificadorAssumption, FS_Subset, FS_CardinalityType DEF Adentro
  <1>2. IsFiniteSet(Adentro(m)) /\ Cardinality(Adentro(m)) \in Nat
    BY PlanificadorAssumption, FS_Subset, FS_CardinalityType DEF Adentro
  <1>3. Peso(l[p]) = IF p \in Adentro(l) THEN 1 ELSE 0
    BY DEF Adentro, Peso
  <1>4. CASE x \in LugaresAdentro
    <2>1. Adentro(m) = Adentro(l) \cup {p} /\ Peso(x) = 1
      BY <1>4 DEF Adentro, Peso
    <2>2. Cardinality(Adentro(l) \cup {p})
            = IF p \in Adentro(l) THEN Cardinality(Adentro(l)) ELSE Cardinality(Adentro(l)) + 1
      BY <1>1, FS_AddElement
    <2>3. Cardinality(Adentro(m)) = Cardinality(Adentro(l) \cup {p})
      BY <2>1, Zenon
    <2> QED
      BY <1>1, <1>2, <1>3, <2>1, <2>2, <2>3
  <1>5. CASE x \notin LugaresAdentro
    <2>1. Adentro(m) = Adentro(l) \ {p} /\ Peso(x) = 0
      BY <1>5 DEF Adentro, Peso
    <2>2. Cardinality(Adentro(l) \ {p})
            = IF p \in Adentro(l) THEN Cardinality(Adentro(l)) - 1 ELSE Cardinality(Adentro(l))
      BY <1>1, FS_RemoveElement
    <2>3. Cardinality(Adentro(m)) = Cardinality(Adentro(l) \ {p})
      BY <2>1, Zenon
    <2> QED
      BY <1>1, <1>2, <1>3, <2>1, <2>2, <2>3
  <1> QED
    BY <1>4, <1>5

-----------------------------------------------------------------------------
(* A step moves at most one process, along one of these arcs *)

Arcos == {<<"fuera", "new">>, <<"new", "admision">>, <<"admision", "ready">>, <<"ready", "cpu">>,
          <<"cpu", "ready">>, <<"cpu", "io">>, <<"cpu", "blocked">>, <<"cpu", "exit">>,
          <<"io", "ready">>, <<"blocked", "fs">>, <<"fs", "ready">>, <<"fs", "exit">>,
          <<"exit", "salida">>, <<"salida", "liberado">>}

Mueve(l, m) ==
    \E p \in Procesos, x \in Lugares :
        /\ <<l[p], x>> \in Arcos /\ m = [l EXCEPT ![p] = x]
        /\ l[p] = "admision" => Cardinality(Adentro(l)) < GRADO_MAX
        /\ x = "cpu" => \A q \in Procesos : l[q] # "cpu"

\* Where the processes are after the step.
Sigue(l) == \E m : Ubicado(m)' /\ Cupo(m)' /\ (m = l \/ Mueve(l, m))

LEMMA PasoDeLugar ==
    ASSUME TypeOK, TypeOK', [Next]_vars, NEW l, Ubicado(l), Cupo(l)
    PROVE  Sigue(l)
  <1> USE DEF consolaVars, readyVars, runPCBs, runVars, exitVars, fsVars, ioVars, newLista,
              readyLista, exitLista, Continua, Retorna, AlLazo,
              EnManosDeReady, EnCPU, EnManosDeFS, EnManosDeExit
  <1>t. /\ consolasNew \in Seq(Procesos) /\ consolasReady \in Seq(Procesos)
        /\ consolasBlocked \in Seq(Procesos) /\ consolasExit \in Seq(Procesos)
        /\ hayEspacioReady \in Nat /\ GRADO_MAX \in Nat
        /\ l \in [Procesos -> Lugares]
    BY PlanificadorAssumption DEF TypeOK, Ubicado
  <1>c. Cardinality(Adentro(l)) \in Nat
    <2>1. IsFiniteSet(Adentro(l))
      BY PlanificadorAssumption, FS_Subset DEF Adentro
    <2> QED
      BY <2>1, FS_CardinalityType
  <1>n. NINGUNO \notin Procesos
    BY PlanificadorAssumption
  \* The steps that leave every process where it is.
  <1>q. ASSUME Ubicado(l)', Cupo(l)' PROVE Sigue(l)
    BY <1>q DEF Sigue
  <1>1. ASSUME NEW p \in Procesos, NuevaConsola(p) PROVE Sigue(l)
    <2>1. p \in Procesos
      OBVIOUS
    <2> DEFINE m == [l EXCEPT ![p] = "new"]
    <2>2. l[p] = "fuera"
      BY <1>1, <1>n, <2>1 DEF NuevaConsola, Ubicado, TypeOK
    <2>4. /\ SinRepetir(consolasNew')
          /\ \A q \in Procesos :
                EnLista(consolasNew', q) <=> EnLista(consolasNew, q) \/ q = p
      <3>1. ~EnLista(consolasNew, p) /\ SinRepetir(consolasNew)
        BY <2>2 DEF Ubicado
      <3>2. consolasNew' \in {Append(consolasNew, p), <<p>> \o consolasNew}
        BY <1>1, <2>1 DEF NuevaConsola
      <3> QED
        BY <1>t, <3>1, <3>2, ListaConUnoMas
    <2>5. Ubicado(m)'
      BY <1>1, <1>t, <1>n, <2>1, <2>2, <2>4
      DEF NuevaConsola, Ubicado, Lugares, TypeOK
    <2>6. Cupo(m)'
      <3>1. "new" \in Lugares
        BY DEF Lugares
      <3>2. /\ Cardinality(Adentro(m)) \in Nat
            /\ Cardinality(Adentro(m)) = Cardinality(Adentro(l)) + Peso("new") - Peso("fuera")
        BY <1>t, <2>2, <3>1, AdentroAlMover
      <3> QED
        BY <1>1, <1>t, <1>c, <3>2 DEF NuevaConsola, Cupo, Cuenta, Peso, LugaresAdentro
    <2>7. Mueve(l, m)
      BY <2>2 DEF Mueve, Arcos, Lugares
    <2> QED
      BY <2>5, <2>6, <2>7 DEF Sigue
  <1>2. ASSUME NEW p \in Procesos, SenialNew(p) PROVE Sigue(l)
    <2>1. Ubicado(l)'
      BY <1>2 DEF SenialNew, Ubicado, TypeOK
    <2>2. Cupo(l)'
      BY <1>2, <1>t, <1>c DEF SenialNew, Cupo, Cuenta
    <2> QED
      BY <1>q, <2>1, <2>2
  <1>3. ASSUME NEW p \in Procesos, Despertar(p) PROVE Sigue(l)
    <2>1. p \in Procesos
      OBVIOUS
    <2> DEFINE m == [l EXCEPT ![p] = "ready"]
    <2>2. l[p] = "io"
      BY <1>3, <1>n, <2>1 DEF Despertar, Ubicado, TypeOK
    <2>4. /\ SinRepetir(consolasReady')
          /\ \A q \in Procesos :
                EnLista(consolasReady', q) <=> EnLista(consolasReady, q) \/ q = p
      <3>1. ~EnLista(consolasReady, p) /\ SinRepetir(consolasReady)
        BY <2>2 DEF Ubicado
      <3>2. consolasReady' \in {Append(consolasReady, p), <<p>> \o consolasReady}
        BY <1>3, <2>1 DEF Despertar
      <3> QED
        BY <1>t, <3>1, <3>2, ListaConUnoMas
    <2>5. Ubicado(m)'
      BY <1>3, <1>t, <1>n, <2>1, <2>2, <2>4
      DEF Despertar, Ubicado, Lugares, TypeOK
    <2>6. Cupo(m)'
      <3>1. "ready" \in Lugares
        BY DEF Lugares
      <3>2. /\ Cardinality(Adentro(m)) \in Nat
            /\ Cardinality(Adentro(m)) = Cardinality(Adentro(l)) + Peso("ready") - Peso("io")
        BY <1>t, <2>2, <3>1, AdentroAlMover
      <3> QED
        BY <1>3, <1>t, <1>c, <3>2 DEF Despertar, Cupo, Cuenta, Peso, LugaresAdentro
    <2>7. Mueve(l, m)
      BY <2>2 DEF Mueve, Arcos, Lugares
    <2> QED
      BY <2>5, <2>6, <2>7 DEF Sigue
  <1>4. CASE Iniciar
    <2>1. Ubicado(l)'
      BY <1>4 DEF Iniciar, Ubicado, TypeOK
    <2>2. Cupo(l)'
      BY <1>4, <1>t, <1>c DEF Iniciar, Cupo, Cuenta
    <2> QED
      BY <1>q, <2>1, <2>2
  <1>5. CASE EsperarNew
    <2>1. Ubicado(l)'
      BY <1>5 DEF EsperarNew, Ubicado, TypeOK
    <2>2. Cupo(l)'
      BY <1>5, <1>t, <1>c DEF EsperarNew, Cupo, Cuenta
    <2> QED
      BY <1>q, <2>1, <2>2
  <1>6. CASE EsperarEspacio
    <2>1. Ubicado(l)'
      BY <1>6 DEF EsperarEspacio, Ubicado, TypeOK
    <2>2. Cupo(l)'
      BY <1>6, <1>t, <1>c DEF EsperarEspacio, Cupo, Cuenta
    <2> QED
      BY <1>q, <2>1, <2>2
  <1>7. CASE QuitarNew
    <2>1. PICK p \in Procesos : p = Head(consolasNew)
      BY <1>7, <1>t, ListaSinCabeza DEF QuitarNew, Ubicado
    <2> DEFINE m == [l EXCEPT ![p] = "admision"]
    <2>2. l[p] = "new"
      BY <1>7, <1>t, <2>1, ListaSinCabeza DEF QuitarNew, Ubicado
    <2>3. /\ SinRepetir(consolasNew')
          /\ \A q \in Procesos :
                EnLista(consolasNew', q) <=> EnLista(consolasNew, q) /\ q # p
      BY <1>7, <1>t, <2>1, ListaSinCabeza DEF QuitarNew, Ubicado
    <2>5. Ubicado(m)'
      BY <1>7, <1>t, <1>n, <2>1, <2>2, <2>3
      DEF QuitarNew, Ubicado, Lugares, TypeOK
    <2>6. Cupo(m)'
      <3>1. "admision" \in Lugares
        BY DEF Lugares
      <3>2. /\ Cardinality(Adentro(m)) \in Nat
            /\ Cardinality(Adentro(m)) = Cardinality(Adentro(l)) + Peso("admision") - Peso("new")
        BY <1>t, <2>2, <3>1, AdentroAlMover
      <3> QED
        BY <1>7, <1>t, <1>c, <3>2 DEF QuitarNew, Cupo, Cuenta, Peso, LugaresAdentro
    <2>7. Mueve(l, m)
      BY <2>2 DEF Mueve, Arcos, Lugares
    <2> QED
      BY <2>5, <2>6, <2>7 DEF Sigue
  <1>8. CASE AgregarReady
    <2>1. PICK p \in Procesos : p = readyPCB
      BY <1>8, <1>n DEF AgregarReady, TypeOK
    <2> DEFINE m == [l EXCEPT ![p] = "ready"]
    <2>2. l[p] = "admision"
      BY <1>8, <1>n, <2>1 DEF AgregarReady, Ubicado, TypeOK
    <2>4. /\ SinRepetir(consolasReady')
          /\ \A q \in Procesos :
                EnLista(consolasReady', q) <=> EnLista(consolasReady, q) \/ q = p
      <3>1. ~EnLista(consolasReady, p) /\ SinRepetir(consolasReady)
        BY <2>2 DEF Ubicado
      <3>2. consolasReady' \in {Append(consolasReady, p), <<p>> \o consolasReady}
        BY <1>8, <2>1 DEF AgregarReady
      <3> QED
        BY <1>t, <3>1, <3>2, ListaConUnoMas
    <2>5. Ubicado(m)'
      BY <1>8, <1>t, <1>n, <2>1, <2>2, <2>4
      DEF AgregarReady, Ubicado, Lugares, TypeOK
    <2>6. Cupo(m)'
      <3>1. "ready" \in Lugares
        BY DEF Lugares
      <3>2. /\ Cardinality(Adentro(m)) \in Nat
            /\ Cardinality(Adentro(m)) = Cardinality(Adentro(l)) + Peso("ready") - Peso("admision")
        BY <1>t, <2>2, <3>1, AdentroAlMover
      <3> QED
        BY <1>8, <1>t, <1>c, <3>2 DEF AgregarReady, Cupo, Cuenta, Peso, LugaresAdentro
    <2>7. Mueve(l, m)
      <3>1. Cardinality(Adentro(l)) < GRADO_MAX
        BY <1>8, <1>t, <1>c DEF AgregarReady, Cupo, Cuenta, TypeOK
      <3> QED
        BY <2>2, <3>1 DEF Mueve, Arcos, Lugares
    <2> QED
      BY <2>5, <2>6, <2>7 DEF Sigue
  <1>9. CASE AgregarGlobal
    <2>1. Ubicado(l)'
      BY <1>9 DEF AgregarGlobal, Ubicado, TypeOK
    <2>2. Cupo(l)'
      BY <1>9, <1>t, <1>c DEF AgregarGlobal, Cupo, Cuenta
    <2> QED
      BY <1>q, <2>1, <2>2
  <1>10. CASE SenialReady
    <2>1. Ubicado(l)'
      BY <1>10 DEF SenialReady, Ubicado, TypeOK
    <2>2. Cupo(l)'
      BY <1>10, <1>t, <1>c DEF SenialReady, Cupo, Cuenta
    <2> QED
      BY <1>q, <2>1, <2>2
  <1>11. CASE Planificar
    <2>1. Ubicado(l)'
      BY <1>11 DEF Planificar, Ubicado, TypeOK
    <2>2. Cupo(l)'
      BY <1>11, <1>t, <1>c DEF Planificar, Cupo, Cuenta
    <2> QED
      BY <1>q, <2>1, <2>2
  <1>12. CASE EsperarPlan
    <2>1. Ubicado(l)'
      BY <1>12 DEF EsperarPlan, Ubicado, TypeOK
    <2>2. Cupo(l)'
      BY <1>12, <1>t, <1>c DEF EsperarPlan, Cupo, Cuenta
    <2> QED
      BY <1>q, <2>1, <2>2
  <1>13. CASE Ordenar
    <2>1. /\ SinRepetir(consolasReady')
          /\ \A q \in Procesos : EnLista(consolasReady', q) <=> EnLista(consolasReady, q)
      BY <1>13, <1>t, ListaReordenada DEF Ordenar, Ubicado
    <2>2. Ubicado(l)'
      BY <1>13, <2>1 DEF Ordenar, Ubicado, TypeOK
    <2>3. Cupo(l)'
      BY <1>13, <1>t, <1>c DEF Ordenar, Cupo, Cuenta
    <2> QED
      BY <1>q, <2>2, <2>3
  <1>14. CASE Devolver
    <2>1. Ubicado(l)'
      BY <1>14 DEF Devolver, Ubicado, TypeOK
    <2>2. Cupo(l)'
      BY <1>14, <1>t, <1>c DEF Devolver, Cupo, Cuenta
    <2> QED
      BY <1>q, <2>1, <2>2
  <1>15. CASE Mirar
    <2>1. Ubicado(l)'
      BY <1>15 DEF Mirar, Ubicado, TypeOK
    <2>2. Cupo(l)'
      BY <1>15, <1>t, <1>c DEF Mirar, Cupo, Cuenta
    <2> QED
      BY <1>q, <2>1, <2>2
  <1>16. CASE EsperarReady
    <2>1. Ubicado(l)'
      BY <1>16 DEF EsperarReady, Ubicado, TypeOK
    <2>2. Cupo(l)'
      BY <1>16, <1>t, <1>c DEF EsperarReady, Cupo, Cuenta
    <2> QED
      BY <1>q, <2>1, <2>2
  <1>17. CASE QuitarReady
    <2>1. PICK p \in Procesos : p = Head(consolasReady)
      BY <1>17, <1>t, ListaSinCabeza DEF QuitarReady, Ubicado
    <2> DEFINE m == [l EXCEPT ![p] = "cpu"]
    <2>2. l[p] = "ready"
      BY <1>17, <1>t, <2>1, ListaSinCabeza DEF QuitarReady, Ubicado
    <2>3. /\ SinRepetir(consolasReady')
          /\ \A q \in Procesos :
                EnLista(consolasReady', q) <=> EnLista(consolasReady, q) /\ q # p
      BY <1>17, <1>t, <2>1, ListaSinCabeza DEF QuitarReady, Ubicado
    <2>5. Ubicado(m)'
      BY <1>17, <1>t, <1>n, <2>1, <2>2, <2>3
      DEF QuitarReady, Ubicado, Lugares, TypeOK
    <2>6. Cupo(m)'
      <3>1. "cpu" \in Lugares
        BY DEF Lugares
      <3>2. /\ Cardinality(Adentro(m)) \in Nat
            /\ Cardinality(Adentro(m)) = Cardinality(Adentro(l)) + Peso("cpu") - Peso("ready")
        BY <1>t, <2>2, <3>1, AdentroAlMover
      <3> QED
        BY <1>17, <1>t, <1>c, <3>2 DEF QuitarReady, Cupo, Cuenta, Peso, LugaresAdentro
    <2>7. Mueve(l, m)
      <3>1. \A q \in Procesos : l[q] # "cpu"
        BY <1>17, <1>n DEF QuitarReady, Ubicado, EnCPU, TypeOK
      <3> QED
        BY <2>2, <3>1 DEF Mueve, Arcos, Lugares
    <2> QED
      BY <2>5, <2>6, <2>7 DEF Sigue
  <1>18. CASE RetornaYield
    <2>1. PICK p \in Procesos : p = runningPCB
      BY <1>18, <1>n DEF RetornaYield, TypeOK
    <2> DEFINE m == [l EXCEPT ![p] = "ready"]
    <2>2. l[p] = "cpu"
      BY <1>18, <1>n, <2>1 DEF RetornaYield, Ubicado, TypeOK
    <2>4. /\ SinRepetir(consolasReady')
          /\ \A q \in Procesos :
                EnLista(consolasReady', q) <=> EnLista(consolasReady, q) \/ q = p
      <3>1. ~EnLista(consolasReady, p) /\ SinRepetir(consolasReady)
        BY <2>2 DEF Ubicado
      <3>2. consolasReady' \in {Append(consolasReady, p), <<p>> \o consolasReady}
        BY <1>18, <2>1 DEF RetornaYield
      <3> QED
        BY <1>t, <3>1, <3>2, ListaConUnoMas
    <2>5. Ubicado(m)'
      BY <1>18, <1>t, <1>n, <2>1, <2>2, <2>4
      DEF RetornaYield, Ubicado, Lugares, TypeOK
    <2>6. Cupo(m)'
      <3>1. "ready" \in Lugares
        BY DEF Lugares
      <3>2. /\ Cardinality(Adentro(m)) \in Nat
            /\ Cardinality(Adentro(m)) = Cardinality(Adentro(l)) + Peso("ready") - Peso("cpu")
        BY <1>t, <2>2, <3>1, AdentroAlMover
      <3> QED
        BY <1>18, <1>t, <1>c, <3>2 DEF RetornaYield, Cupo, Cuenta, Peso, LugaresAdentro
    <2>7. Mueve(l, m)
      BY <2>2 DEF Mueve, Arcos, Lugares
    <2> QED
      BY <2>5, <2>6, <2>7 DEF Sigue
  <1>19. CASE RetornaFrente
    <2>1. PICK p \in Procesos : p = runningPCB
      BY <1>19, <1>n DEF RetornaFrente, TypeOK
    <2> DEFINE m == [l EXCEPT ![p] = "ready"]
    <2>2. l[p] = "cpu"
      BY <1>19, <1>n, <2>1 DEF RetornaFrente, Ubicado, TypeOK
    <2>4. /\ SinRepetir(consolasReady')
          /\ \A q \in Procesos :
                EnLista(consolasReady', q) <=> EnLista(consolasReady, q) \/ q = p
      <3>1. ~EnLista(consolasReady, p) /\ SinRepetir(consolasReady)
        BY <2>2 DEF Ubicado
      <3>2. consolasReady' \in {Append(consolasReady, p), <<p>> \o consolasReady}
        BY <1>19, <2>1 DEF RetornaFrente
      <3> QED
        BY <1>t, <3>1, <3>2, ListaConUnoMas
    <2>5. Ubicado(m)'
      BY <1>19, <1>t, <1>n, <2>1, <2>2, <2>4
      DEF RetornaFrente, Ubicado, Lugares, TypeOK
    <2>6. Cupo(m)'
      <3>1. "ready" \in Lugares
        BY DEF Lugares
      <3>2. /\ Cardinality(Adentro(m)) \in Nat
            /\ Cardinality(Adentro(m)) = Cardinality(Adentro(l)) + Peso("ready") - Peso("cpu")
        BY <1>t, <2>2, <3>1, AdentroAlMover
      <3> QED
        BY <1>19, <1>t, <1>c, <3>2 DEF RetornaFrente, Cupo, Cuenta, Peso, LugaresAdentro
    <2>7. Mueve(l, m)
      BY <2>2 DEF Mueve, Arcos, Lugares
    <2> QED
      BY <2>5, <2>6, <2>7 DEF Sigue
  <1>20. CASE RetornaIO
    <2>1. PICK p \in Procesos : p = runningPCB
      BY <1>20, <1>n DEF RetornaIO, TypeOK
    <2> DEFINE m == [l EXCEPT ![p] = "io"]
    <2>2. l[p] = "cpu"
      BY <1>20, <1>n, <2>1 DEF RetornaIO, Ubicado, TypeOK
    <2>5. Ubicado(m)'
      BY <1>20, <1>t, <1>n, <2>1, <2>2
      DEF RetornaIO, Ubicado, Lugares, TypeOK
    <2>6. Cupo(m)'
      <3>1. "io" \in Lugares
        BY DEF Lugares
      <3>2. /\ Cardinality(Adentro(m)) \in Nat
            /\ Cardinality(Adentro(m)) = Cardinality(Adentro(l)) + Peso("io") - Peso("cpu")
        BY <1>t, <2>2, <3>1, AdentroAlMover
      <3> QED
        BY <1>20, <1>t, <1>c, <3>2 DEF RetornaIO, Cupo, Cuenta, Peso, LugaresAdentro
    <2>7. Mueve(l, m)
      BY <2>2 DEF Mueve, Arcos, Lugares
    <2> QED
      BY <2>5, <2>6, <2>7 DEF Sigue
  <1>21. CASE RetornaFS
    <2>1. PICK p \in Procesos : p = runningPCB
      BY <1>21, <1>n DEF RetornaFS, TypeOK
    <2> DEFINE m == [l EXCEPT ![p] = "blocked"]
    <2>2. l[p] = "cpu"
      BY <1>21, <1>n, <2>1 DEF RetornaFS, Ubicado, TypeOK
    <2>4. /\ SinRepetir(consolasBlocked')
          /\ \A q \in Procesos :
                EnLista(consolasBlocked', q) <=> EnLista(consolasBlocked, q) \/ q = p
      <3>1. ~EnLista(consolasBlocked, p) /\ SinRepetir(consolasBlocked)
        BY <2>2 DEF Ubicado
      <3>2. consolasBlocked' \in {Append(consolasBlocked, p), <<p>> \o consolasBlocked}
        BY <1>21, <2>1 DEF RetornaFS
      <3> QED
        BY <1>t, <3>1, <3>2, ListaConUnoMas
    <2>5. Ubicado(m)'
      BY <1>21, <1>t, <1>n, <2>1, <2>2, <2>4
      DEF RetornaFS, Ubicado, Lugares, TypeOK
    <2>6. Cupo(m)'
      <3>1. "blocked" \in Lugares
        BY DEF Lugares
      <3>2. /\ Cardinality(Adentro(m)) \in Nat
            /\ Cardinality(Adentro(m)) = Cardinality(Adentro(l)) + Peso("blocked") - Peso("cpu")
        BY <1>t, <2>2, <3>1, AdentroAlMover
      <3> QED
        BY <1>21, <1>t, <1>c, <3>2 DEF RetornaFS, Cupo, Cuenta, Peso, LugaresAdentro
    <2>7. Mueve(l, m)
      BY <2>2 DEF Mueve, Arcos, Lugares
    <2> QED
      BY <2>5, <2>6, <2>7 DEF Sigue
  <1>22. ASSUME NEW b \in BOOLEAN, RetornaTerminal(b) PROVE Sigue(l)
    <2>1. PICK p \in Procesos : p = runningPCB
      BY <1>22, <1>n DEF RetornaTerminal, TypeOK
    <2> DEFINE m == [l EXCEPT ![p] = "exit"]
    <2>2. l[p] = "cpu"
      BY <1>22, <1>n, <2>1 DEF RetornaTerminal, Ubicado, TypeOK
    <2>4. /\ SinRepetir(consolasExit')
          /\ \A q \in Procesos :
                EnLista(consolasExit', q) <=> EnLista(consolasExit, q) \/ q = p
      <3>1. ~EnLista(consolasExit, p) /\ SinRepetir(consolasExit)
        BY <2>2 DEF Ubicado
      <3>2. consolasExit' \in {Append(consolasExit, p), <<p>> \o consolasExit}
        BY <1>22, <2>1 DEF RetornaTerminal
      <3> QED
        BY <1>t, <3>1, <3>2, ListaConUnoMas
    <2>5. Ubicado(m)'
      BY <1>22, <1>t, <1>n, <2>1, <2>2, <2>4
      DEF RetornaTerminal, Ubicado, Lugares, TypeOK
    <2>6. Cupo(m)'
      <3>1. "exit" \in Lugares
        BY DEF Lugares
      <3>2. /\ Cardinality(Adentro(m)) \in Nat
            /\ Cardinality(Adentro(m)) = Cardinality(Adentro(l)) + Peso("exit") - Peso("cpu")
        BY <1>t, <2>2, <3>1, AdentroAlMover
      <3> QED
        BY <1>22, <1>t, <1>c, <3>2 DEF RetornaTerminal, Cupo, Cuenta, Peso, LugaresAdentro
    <2>7. Mueve(l, m)
      BY <2>2 DEF Mueve, Arcos, Lugares
    <2> QED
      BY <2>5, <2>6, <2>7 DEF Sigue
  <1>23. CASE RunSenialReady
    <2>1. Ubicado(l)'
      BY <1>23 DEF RunSenialReady, Ubicado, TypeOK
    <2>2. Cupo(l)'
      BY <1>23, <1>t, <1>c DEF RunSenialReady, Cupo, Cuenta
    <2> QED
      BY <1>q, <2>1, <2>2
  <1>24. CASE RunSenialExit
    <2>1. Ubicado(l)'
      BY <1>24 DEF RunSenialExit, Ubicado, TypeOK
    <2>2. Cupo(l)'
      BY <1>24, <1>t, <1>c DEF RunSenialExit, Cupo, Cuenta
    <2> QED
      BY <1>q, <2>1, <2>2
  <1>25. CASE RunSenialBlocked
    <2>1. Ubicado(l)'
      BY <1>25 DEF RunSenialBlocked, Ubicado, TypeOK
    <2>2. Cupo(l)'
      BY <1>25, <1>t, <1>c DEF RunSenialBlocked, Cupo, Cuenta
    <2> QED
      BY <1>q, <2>1, <2>2
  <1>26. CASE EsperarBlocked
    <2>1. Ubicado(l)'
      BY <1>26 DEF EsperarBlocked, Ubicado, TypeOK
    <2>2. Cupo(l)'
      BY <1>26, <1>t, <1>c DEF EsperarBlocked, Cupo, Cuenta
    <2> QED
      BY <1>q, <2>1, <2>2
  <1>27. CASE QuitarBlocked
    <2>1. PICK p \in Procesos : p = Head(consolasBlocked)
      BY <1>27, <1>t, ListaSinCabeza DEF QuitarBlocked, Ubicado
    <2> DEFINE m == [l EXCEPT ![p] = "fs"]
    <2>2. l[p] = "blocked"
      BY <1>27, <1>t, <2>1, ListaSinCabeza DEF QuitarBlocked, Ubicado
    <2>3. /\ SinRepetir(consolasBlocked')
          /\ \A q \in Procesos :
                EnLista(consolasBlocked', q) <=> EnLista(consolasBlocked, q) /\ q # p
      BY <1>27, <1>t, <2>1, ListaSinCabeza DEF QuitarBlocked, Ubicado
    <2>5. Ubicado(m)'
      BY <1>27, <1>t, <1>n, <2>1, <2>2, <2>3
      DEF QuitarBlocked, Ubicado, Lugares, TypeOK
    <2>6. Cupo(m)'
      <3>1. "fs" \in Lugares
        BY DEF Lugares
      <3>2. /\ Cardinality(Adentro(m)) \in Nat
            /\ Cardinality(Adentro(m)) = Cardinality(Adentro(l)) + Peso("fs") - Peso("blocked")
        BY <1>t, <2>2, <3>1, AdentroAlMover
      <3> QED
        BY <1>27, <1>t, <1>c, <3>2 DEF QuitarBlocked, Cupo, Cuenta, Peso, LugaresAdentro
    <2>7. Mueve(l, m)
      BY <2>2 DEF Mueve, Arcos, Lugares
    <2> QED
      BY <2>5, <2>6, <2>7 DEF Sigue
  <1>28. CASE Operar
    <2>1. PICK p \in Procesos : p = fsPCB
      BY <1>28, <1>n DEF Operar, TypeOK
    <2> DEFINE m == [l EXCEPT ![p] = "ready"]
    <2>2. l[p] = "fs"
      BY <1>28, <1>n, <2>1 DEF Operar, Ubicado, TypeOK
    <2>4. /\ SinRepetir(consolasReady')
          /\ \A q \in Procesos :
                EnLista(consolasReady', q) <=> EnLista(consolasReady, q) \/ q = p
      <3>1. ~EnLista(consolasReady, p) /\ SinRepetir(consolasReady)
        BY <2>2 DEF Ubicado
      <3>2. consolasReady' \in {Append(consolasReady, p), <<p>> \o consolasReady}
        BY <1>28, <2>1 DEF Operar
      <3> QED
        BY <1>t, <3>1, <3>2, ListaConUnoMas
    <2>5. Ubicado(m)'
      BY <1>28, <1>t, <1>n, <2>1, <2>2, <2>4
      DEF Operar, Ubicado, Lugares, TypeOK
    <2>6. Cupo(m)'
      <3>1. "ready" \in Lugares
        BY DEF Lugares
      <3>2. /\ Cardinality(Adentro(m)) \in Nat
            /\ Cardinality(Adentro(m)) = Cardinality(Adentro(l)) + Peso("ready") - Peso("fs")
        BY <1>t, <2>2, <3>1, AdentroAlMover
      <3> QED
        BY <1>28, <1>t, <1>c, <3>2 DEF Operar, Cupo, Cuenta, Peso, LugaresAdentro
    <2>7. Mueve(l, m)
      BY <2>2 DEF Mueve, Arcos, Lugares
    <2> QED
      BY <2>5, <2>6, <2>7 DEF Sigue
  <1>29. CASE OperarError
    <2>1. PICK p \in Procesos : p = fsPCB
      BY <1>29, <1>n DEF OperarError, TypeOK
    <2> DEFINE m == [l EXCEPT ![p] = "exit"]
    <2>2. l[p] = "fs"
      BY <1>29, <1>n, <2>1 DEF OperarError, Ubicado, TypeOK
    <2>4. /\ SinRepetir(consolasExit')
          /\ \A q \in Procesos :
                EnLista(consolasExit', q) <=> EnLista(consolasExit, q) \/ q = p
      <3>1. ~EnLista(consolasExit, p) /\ SinRepetir(consolasExit)
        BY <2>2 DEF Ubicado
      <3>2. consolasExit' \in {Append(consolasExit, p), <<p>> \o consolasExit}
        BY <1>29, <2>1 DEF OperarError
      <3> QED
        BY <1>t, <3>1, <3>2, ListaConUnoMas
    <2>5. Ubicado(m)'
      BY <1>29, <1>t, <1>n, <2>1, <2>2, <2>4
      DEF OperarError, Ubicado, Lugares, TypeOK
    <2>6. Cupo(m)'
      <3>1. "exit" \in Lugares
        BY DEF Lugares
      <3>2. /\ Cardinality(Adentro(m)) \in Nat
            /\ Cardinality(Adentro(m)) = Cardinality(Adentro(l)) + Peso("exit") - Peso("fs")
        BY <1>t, <2>2, <3>1, AdentroAlMover
      <3> QED
        BY <1>29, <1>t, <1>c, <3>2 DEF OperarError, Cupo, Cuenta, Peso, LugaresAdentro
    <2>7. Mueve(l, m)
      BY <2>2 DEF Mueve, Arcos, Lugares
    <2> QED
      BY <2>5, <2>6, <2>7 DEF Sigue
  <1>30. CASE FsSenialReady
    <2>1. Ubicado(l)'
      BY <1>30 DEF FsSenialReady, Ubicado, TypeOK
    <2>2. Cupo(l)'
      BY <1>30, <1>t, <1>c DEF FsSenialReady, Cupo, Cuenta
    <2> QED
      BY <1>q, <2>1, <2>2
  <1>31. CASE FsSenialExit
    <2>1. Ubicado(l)'
      BY <1>31 DEF FsSenialExit, Ubicado, TypeOK
    <2>2. Cupo(l)'
      BY <1>31, <1>t, <1>c DEF FsSenialExit, Cupo, Cuenta
    <2> QED
      BY <1>q, <2>1, <2>2
  <1>32. CASE EsperarExit
    <2>1. Ubicado(l)'
      BY <1>32 DEF EsperarExit, Ubicado, TypeOK
    <2>2. Cupo(l)'
      BY <1>32, <1>t, <1>c DEF EsperarExit, Cupo, Cuenta
    <2> QED
      BY <1>q, <2>1, <2>2
  <1>33. CASE QuitarExit
    <2>1. PICK p \in Procesos : p = Head(consolasExit)
      BY <1>33, <1>t, ListaSinCabeza DEF QuitarExit, Ubicado
    <2> DEFINE m == [l EXCEPT ![p] = "salida"]
    <2>2. l[p] = "exit"
      BY <1>33, <1>t, <2>1, ListaSinCabeza DEF QuitarExit, Ubicado
    <2>3. /\ SinRepetir(consolasExit')
          /\ \A q \in Procesos :
                EnLista(consolasExit', q) <=> EnLista(consolasExit, q) /\ q # p
      BY <1>33, <1>t, <2>1, ListaSinCabeza DEF QuitarExit, Ubicado
    <2>5. Ubicado(m)'
      BY <1>33, <1>t, <1>n, <2>1, <2>2, <2>3
      DEF QuitarExit, Ubicado, Lugares, TypeOK
    <2>6. Cupo(m)'
      <3>1. "salida" \in Lugares
        BY DEF Lugares
      <3>2. /\ Cardinality(Adentro(m)) \in Nat
            /\ Cardinality(Adentro(m)) = Cardinality(Adentro(l)) + Peso("salida") - Peso("exit")
        BY <1>t, <2>2, <3>1, AdentroAlMover
      <3> QED
        BY <1>33, <1>t, <1>c, <3>2 DEF QuitarExit, Cupo, Cuenta, Peso, LugaresAdentro
    <2>7. Mueve(l, m)
      BY <2>2 DEF Mueve, Arcos, Lugares
    <2> QED
      BY <2>5, <2>6, <2>7 DEF Sigue
  <1>34. CASE LiberarPCB
    <2>1. PICK p \in Procesos : p = exitPCB
      BY <1>34, <1>n DEF LiberarPCB, TypeOK
    <2> DEFINE m == [l EXCEPT ![p] = "liberado"]
    <2>2. l[p] = "salida"
      BY <1>34, <1>n, <2>1 DEF LiberarPCB, Ubicado, TypeOK
    <2>5. Ubicado(m)'
      BY <1>34, <1>t, <1>n, <2>1, <2>2
      DEF LiberarPCB, Ubicado, Lugares, TypeOK
    <2>6. Cupo(m)'
      <3>1. "liberado" \in Lugares
        BY DEF Lugares
      <3>2. /\ Cardinality(Adentro(m)) \in Nat
            /\ Cardinality(Adentro(m)) = Cardinality(Adentro(l)) + Peso("liberado") - Peso("salida")
        BY <1>t, <2>2, <3>1, AdentroAlMover
      <3> QED
        BY <1>34, <1>t, <1>c, <3>2 DEF LiberarPCB, Cupo, Cuenta, Peso, LugaresAdentro
    <2>7. Mueve(l, m)
      BY <2>2 DEF Mueve, Arcos, Lugares
    <2> QED
      BY <2>5, <2>6, <2>7 DEF Sigue
  <1>35. CASE SenialEspacio
    <2>1. Ubicado(l)'
      BY <1>35 DEF SenialEspacio, Ubicado, TypeOK
    <2>2. Cupo(l)'
      BY <1>35, <1>t, <1>c DEF SenialEspacio, Cupo, Cuenta
    <2> QED
      BY <1>q, <2>1, <2>2
  <1>36. CASE SenialIO
    <2>1. Ubicado(l)'
      BY <1>36 DEF SenialIO, Ubicado, TypeOK
    <2>2. Cupo(l)'
      BY <1>36, <1>t, <1>c DEF SenialIO, Cupo, Cuenta
    <2> QED
      BY <1>q, <2>1, <2>2
  <1>37. CASE UNCHANGED vars
    <2>1. Ubicado(l)'
      BY <1>37 DEF vars, Ubicado, TypeOK
    <2>2. Cupo(l)'
      BY <1>37, <1>t, <1>c DEF vars, Cupo, Cuenta
    <2> QED
      BY <1>q, <2>1, <2>2
  <1>r. replanificar \in BOOLEAN
    BY DEF TypeOK
  <1> QED
    BY <1>r, <1>1, <1>2, <1>3, <1>4, <1>5, <1>6, <1>7, <1>8, <1>9, <1>10,
       <1>11, <1>12, <1>13, <1>14, <1>15, <1>16, <1>17, <1>18, <1>19, <1>20,
       <1>21, <1>22, <1>23, <1>24, <1>25, <1>26, <1>27, <1>28, <1>29, <1>30,
       <1>31, <1>32, <1>33, <1>34, <1>35, <1>36, <1>37
    DEF Next, GestionadorReady, GestionadorRunning, ReadOp, OperarFS, GestionadorExit

\* What the life cycle says of a process in each place.
EstadoDeLugar(x) ==
    CASE x = "fuera" -> "FUERA"
      [] x \in {"new", "admision"} -> "NEW"
      [] x = "ready" -> "READY"
      [] x = "cpu" -> "RUNNING"
      [] x \in {"io", "blocked", "fs"} -> "BLOCKED"
      [] x \in {"exit", "salida"} -> "EXIT"
      [] OTHER -> "FIN"

LEMMA EstadoSegunLugar ==
    ASSUME NEW l, Ubicado(l), NEW p \in Procesos
    PROVE  EstadoDe(p) = EstadoDeLugar(l[p])
  BY DEF Ubicado, Lugares, EstadoDe, EstadoDeLugar

LEMMA CicloAlInicio == Init => LugaresInv /\ Ciclo!Init
  <1> SUFFICES ASSUME Init PROVE LugaresInv /\ Ciclo!Init
    OBVIOUS
  <1> DEFINE l == [p \in Procesos |-> "fuera"]
  <1>1. \A p : ~EnLista(<<>>, p)
    BY DEF EnLista
  <1>2. SinRepetir(<<>>)
    BY DEF SinRepetir
  <1>3. Ubicado(l)
    BY <1>1, <1>2, PlanificadorAssumption
    DEF Init, Ubicado, Lugares, EnManosDeReady, EnCPU, EnManosDeFS, EnManosDeExit
  <1>4. Cupo(l)
    <2>1. Adentro(l) = {}
      BY DEF Adentro, LugaresAdentro
    <2>2. Cardinality(Adentro(l)) = 0
      BY <2>1, FS_EmptySet
    <2> QED
      BY <2>2, PlanificadorAssumption DEF Init, Cupo, Cuenta
  <1>5. \A p \in Procesos : EstadoDe(p) = "FUERA"
    BY <1>3, EstadoSegunLugar DEF EstadoDeLugar
  <1>6. Ciclo!Init
    BY <1>5 DEF Ciclo!Init
  <1> QED
    BY <1>3, <1>4, <1>6, TiposAlInicio DEF LugaresInv

LEMMA CicloEnUnPaso ==
    LugaresInv /\ [Next]_vars => LugaresInv' /\ [Ciclo!Next]_[p \in Procesos |-> EstadoDe(p)]
  <1> DEFINE estado == [p \in Procesos |-> EstadoDe(p)]
  <1> SUFFICES ASSUME LugaresInv, [Next]_vars PROVE LugaresInv' /\ [Ciclo!Next]_estado
    OBVIOUS
  <1>1. TypeOK /\ TypeOK'
    BY TiposEnUnPaso DEF LugaresInv
  <1>2. PICK l : Ubicado(l) /\ Cupo(l)
    BY DEF LugaresInv
  <1>3. PICK m : Ubicado(m)' /\ Cupo(m)' /\ (m = l \/ Mueve(l, m))
    BY <1>1, <1>2, PasoDeLugar DEF Sigue
  <1>4. LugaresInv'
    BY <1>1, <1>3 DEF LugaresInv
  <1>5. \A p \in Procesos : EstadoDe(p) = EstadoDeLugar(l[p])
    BY <1>2, EstadoSegunLugar
  <1>6. \A p \in Procesos : EstadoDe(p)' = EstadoDeLugar(m[p])
    BY <1>3 DEF Ubicado, Lugares, EstadoDe, EstadoDeLugar
  <1>7. CASE m = l
    <2>1. estado' = estado
      BY <1>5, <1>6, <1>7
    <2> QED
      BY <1>4, <2>1
  <1>8. CASE Mueve(l, m)
    <2>1. PICK p \in Procesos, x \in Lugares :
              /\ <<l[p], x>> \in Arcos /\ m = [l EXCEPT ![p] = x]
              /\ l[p] = "admision" => Cardinality(Adentro(l)) < GRADO_MAX
              /\ x = "cpu" => \A q \in Procesos : l[q] # "cpu"
      BY <1>8 DEF Mueve
    <2>2. l \in [Procesos -> Lugares]
      BY <1>2 DEF Ubicado
    <2>3. estado' = [estado EXCEPT ![p] = EstadoDeLugar(x)] /\ estado[p] = EstadoDeLugar(l[p])
      BY <1>5, <1>6, <2>1, <2>2
    <2>4. l[p] = "admision" => Cardinality(Ciclo!Admitidos) < GRADO_MAX
      <3>1. Ciclo!Admitidos = Adentro(l)
        BY <1>5, <2>2 DEF Ciclo!Admitidos, Adentro, LugaresAdentro, EstadoDeLugar, Lugares
      <3> QED
        BY <2>1, <3>1
    <2>5. x = "cpu" => \A q \in Procesos : estado[q] # "RUNNING"
      BY <1>5, <2>1, <2>2 DEF EstadoDeLugar, Lugares
    <2>6. \A e : estado[p] \in e => Ciclo!Pasa(p, e, EstadoDeLugar(x))
      BY <2>3 DEF Ciclo!Pasa
    <2>7. CASE <<l[p], x>> = <<"admision", "ready">>
      <3>1. EstadoDeLugar(x) = "READY" /\ estado[p] = "NEW"
        BY <2>3, <2>7 DEF EstadoDeLugar
      <3>2. Ciclo!Cardinality(Ciclo!Admitidos) < GRADO_MAX
        BY <2>4, <2>7 DEF Ciclo!Cardinality, Cardinality
      <3>3. Ciclo!Admitir(p)
        BY <2>6, <3>1, <3>2 DEF Ciclo!Admitir
      <3> QED
        BY <1>4, <3>3 DEF Ciclo!Next
    <2>8. CASE <<l[p], x>> = <<"ready", "cpu">>
      <3>1. EstadoDeLugar(x) = "RUNNING" /\ estado[p] = "READY"
        BY <2>3, <2>8 DEF EstadoDeLugar
      <3>2. Ciclo!Despachar(p)
        BY <2>5, <2>6, <2>8, <3>1 DEF Ciclo!Despachar
      <3> QED
        BY <1>4, <3>2 DEF Ciclo!Next
    <2>9. CASE <<l[p], x>> \in {<<"new", "admision">>, <<"blocked", "fs">>, <<"exit", "salida">>}
      <3>1. EstadoDeLugar(x) = estado[p]
        BY <2>3, <2>9 DEF EstadoDeLugar
      <3>2. estado' = estado
        BY <2>3, <3>1
      <3> QED
        BY <1>4, <3>2
    <2>10. CASE <<l[p], x>> = <<"fuera", "new">>
      <3>1. EstadoDeLugar(x) = "NEW" /\ estado[p] = "FUERA"
        BY <2>3, <2>10 DEF EstadoDeLugar
      <3> QED
        BY <1>4, <2>6, <3>1 DEF Ciclo!Crear, Ciclo!Next
    <2>11. CASE <<l[p], x>> = <<"cpu", "ready">>
      <3>1. EstadoDeLugar(x) = "READY" /\ estado[p] = "RUNNING"
        BY <2>3, <2>11 DEF EstadoDeLugar
      <3> QED
        BY <1>4, <2>6, <3>1 DEF Ciclo!Ceder, Ciclo!Next
    <2>12. CASE <<l[p], x>> \in {<<"cpu", "io">>, <<"cpu", "blocked">>}
      <3>1. EstadoDeLugar(x) = "BLOCKED" /\ estado[p] = "RUNNING"
        BY <2>3, <2>12 DEF EstadoDeLugar
      <3> QED
        BY <1>4, <2>6, <3>1 DEF Ciclo!Bloquear, Ciclo!Next
    <2>13. CASE <<l[p], x>> \in {<<"io", "ready">>, <<"fs", "ready">>}
      <3>1. EstadoDeLugar(x) = "READY" /\ estado[p] = "BLOCKED"
        BY <2>3, <2>13 DEF EstadoDeLugar
      <3> QED
        BY <1>4, <2>6, <3>1 DEF Ciclo!Desbloquear, Ciclo!Next
    <2>14. CASE <<l[p], x>> \in {<<"cpu", "exit">>, <<"fs", "exit">>}
      <3>1. EstadoDeLugar(x) = "EXIT" /\ estado[p] \in {"RUNNING", "BLOCKED"}
        BY <2>3, <2>14 DEF EstadoDeLugar
      <3> QED
        BY <1>4, <2>6, <3>1 DEF Ciclo!Terminar, Ciclo!Next
    <2>15. CASE <<l[p], x>> = <<"salida", "liberado">>
      <3>1. EstadoDeLugar(x) = "FIN" /\ estado[p] = "EXIT"
        BY <2>3, <2>15 DEF EstadoDeLugar
      <3> QED
        BY <1>4, <2>6, <3>1 DEF Ciclo!Liberar, Ciclo!Next
    <2> QED
      BY <2>1, <2>7, <2>8, <2>9, <2>10, <2>11, <2>12, <2>13, <2>14, <2>15 DEF Arcos
  <1> QED
    BY <1>3, <1>4, <1>7, <1>8

\* The life cycle: whatever the threads interleave, each process goes through the states of the
\* cycle in its order, at most one is on the CPU, and never more than GRADO_MAX are admitted.
THEOREM CicloImplementado == Spec => ImplementaCiclo
  <1>1. Init => LugaresInv /\ Ciclo!Init
    BY CicloAlInicio
  <1>2. LugaresInv /\ [Next]_vars
            => LugaresInv' /\ [Ciclo!Next]_[p \in Procesos |-> EstadoDe(p)]
    BY CicloEnUnPaso
  <1> QED
    BY <1>1, <1>2, PTL DEF Spec, ImplementaCiclo, Ciclo!Spec
=============================================================================
