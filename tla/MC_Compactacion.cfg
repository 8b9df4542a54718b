SPECIFICATION FairSpec
CONSTANTS
    p1 = p1
    p2 = p2
    p3 = p3
    Procesos <- TresProcesos
    MAX_SOLICITUDES = 3
INVARIANTS
    TypeOK
    BloqueosContados
    CompactaEnCalma
PROPERTIES
    PermisoEnCalma
    OperacionAtendida
\* A permission can be lost, and then both threads wait for ever.
CHECK_DEADLOCK FALSE
