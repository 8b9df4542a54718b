SPECIFICATION Spec
CONSTANTS
    p1 = p1
    p2 = p2
    Procesos <- DosProcesos
    Ancho <- DosRegistros
    Escenarios <- LosEscenarios
    Caracteres = {"0", "a", " "}
    TAM_MEMORIA = 5
    TAM_SEGMENTO_0 = 1
    TAM_MAX_SEGMENTO = 2
SYMMETRY Simetria
INVARIANTS
    TypeOK
    TraduccionesVigentes
PROPERTIES
    ImplementaMaquina
\* A program may end, and the CPU may fall.
CHECK_DEADLOCK FALSE
