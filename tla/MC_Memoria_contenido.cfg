SPECIFICATION Spec
CONSTANTS
    p1 = p1
    p2 = p2
    PIDs <- DosPIDs
    IDs <- UnID
    Tamanos <- TresTamanos
    TAM_MEMORIA = 7
    TAM_SEGMENTO_0 = 1
    Algoritmos <- TodosLosAlgoritmos
    MAX_SEGMENTOS = 2
PROPERTIES
    CompactaConservaContenido
\* The memory falls when a segment that does not exist is deleted.
CHECK_DEADLOCK FALSE
