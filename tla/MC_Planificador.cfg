SPECIFICATION FairSpec
CONSTANTS
    p1 = p1
    p2 = p2
    p3 = p3
    Procesos <- TresProcesos
    GRADO_MAX = 2
    Algoritmos <- Ambos
    MAX_SYSCALLS = 3
INVARIANTS
    TypeOK
    SinListaVacia
    Fichas
    MiradoSigueEnReady
PROPERTIES
    ImplementaCiclo
    TodosTerminan
\* The kernel stops when every console was served: its threads wait on their semaphores.
CHECK_DEADLOCK FALSE
