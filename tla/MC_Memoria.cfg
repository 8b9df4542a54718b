SPECIFICATION Spec
CONSTANTS
    p1 = p1
    p2 = p2
    PIDs <- DosPIDs
    IDs <- UnID
    Tamanos <- TresTamanos
    TAM_MEMORIA = 6
    TAM_SEGMENTO_0 = 1
    Algoritmos <- TodosLosAlgoritmos
    MAX_SEGMENTOS = 2
INVARIANTS
    TypeOK
    ParticionDeMemoria
    DesplazaAdyacente
    ReintentoSuficiente
PROPERTIES
    CompactaSinSolapar
    ImplementaIdeal
\* The memory falls when a segment that does not exist is deleted.
CHECK_DEADLOCK FALSE
