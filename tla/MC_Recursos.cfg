SPECIFICATION FairSpec
CONSTANTS
    p1 = p1
    p2 = p2
    p3 = p3
    Procesos <- TresProcesos
    Recursos <- DosRecursos
    Escenarios <- Todos
INVARIANTS
    TypeOK
    NingunaInstanciaDeMas
    EsperaSoloSinInstancias
    NadieSePierde
PROPERTIES
    DisciplinadosAcceden
\* The kernel stops when every process ended, when the rest wait for resources, or fallen.
CHECK_DEADLOCK FALSE
