SPECIFICATION Spec
CONSTANTS
    p1 = p1
    p2 = p2
    p3 = p3
    Procesos <- TresProcesos
    MAX_COMPACTACIONES = 2
    MAX_CONSOLAS = 4
    MAX_PEDIDOS = 4
SYMMETRY Simetria
INVARIANTS
    TypeOK
    UnaRespuestaPorPedido
    TablasAlDia
\* The consoles may be used up, and the kernel or the memory may fall.
CHECK_DEADLOCK FALSE
