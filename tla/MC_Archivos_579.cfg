SPECIFICATION Spec
CONSTANTS
    p1 = p1
    p2 = p2
    p3 = p3
    Procesos <- TresProcesos
    Escenarios <- SoloUnArchivo
INVARIANTS
    NadieMasLoNecesita
CHECK_DEADLOCK FALSE
