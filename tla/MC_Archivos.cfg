SPECIFICATION FairSpec
CONSTANTS
    p1 = p1
    p2 = p2
    p3 = p3
    Procesos <- TresProcesos
    Escenarios <- Todos
INVARIANTS
    TypeOK
    UnUsuarioPorArchivo
    PunteroDelUsuario
    NadieQuedaAfuera
PROPERTIES
    AbreAlgunaVez
\* The kernel stops when every process ended, when the rest wait for a file, or fallen.
CHECK_DEADLOCK FALSE
