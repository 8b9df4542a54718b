SPECIFICATION Spec
CONSTANTS
    a1 = a1
    a2 = a2
    Archivos <- DosArchivos
    BLOCK_COUNT = 6
    TAM_BLOQUE = 2
    BITS_POR_BYTE = 5
    MODULO = 16
    Tamanios <- TresTamanios
    Accesos <- DosAccesos
    MAX_REINICIOS = 1
CONSTRAINT Acotado
SYMMETRY Simetria
INVARIANTS
    TypeOK
    BloquesPropios
    NingunBloquePerdido
    BloquesSegunTamanio
    FcbEnDisco
    LibresEnBlanco
    DatosPersisten
\* The process falls when it uses an address outside the blocks.
CHECK_DEADLOCK FALSE
