------------------------------- MODULE MC_CPU -------------------------------
(***************************************************************************)
(* CPU for TLC: a register of one character and one of two, segments of   *)
(* at most two characters in a memory of five.  Two processes can fill it,*)
(* leave holes and make a compaction move the segment of the other, by one*)
(* character when it has two, or while its F_READ or F_WRITE waits.       *)
(***************************************************************************)
EXTENDS CPU

CONSTANTS p1, p2

DosProcesos == {p1, p2}

DosRegistros == [AX |-> 1, EAX |-> 2]

InsSet(r, valor) == [op |-> "SET", registro |-> r, valor |-> valor]
InsMov(op, r, dir) == [op |-> op, registro |-> r, direccion |-> dir]
InsArchivo(op, dir, n) == [op |-> op, direccion |-> dir, bytes |-> n]
InsCrear(id, n) == [op |-> "CREATE_SEGMENT", segmento |-> id, bytes |-> n]

InsBorrar(id) == [op |-> "DELETE_SEGMENT", segmento |-> id]
YIELD == [op |-> "YIELD"]
EXIT == [op |-> "EXIT"]

\* Address 0 is segment 0, addresses 2 and 3 are segment 1.
LosRegistros ==
    [lineas |-> 3, instrucciones |->
       {InsSet("AX", <<"a">>), InsSet("EAX", <<"a">>), InsSet("AX", <<"a", "a">>),
        InsSet("ZX", <<"a">>), InsMov("MOV_IN", "AX", 0), InsMov("MOV_IN", "ZX", 0),
        InsMov("MOV_OUT", "AX", 0), InsMov("MOV_OUT", "ZX", 0), InsMov("MOV_OUT", "EAX", 0),
        YIELD, EXIT, [op |-> "DESCONOCIDA"]}]

LosSegmentos ==
    [lineas |-> 3, instrucciones |->
       {InsSet("EAX", <<"a">>), InsMov("MOV_OUT", "AX", 3), InsMov("MOV_OUT", "EAX", 2),
        InsMov("MOV_IN", "AX", 3), InsCrear(1, 1), InsCrear(1, 2), InsBorrar(1), EXIT}]

LosArchivos ==
    [lineas |-> 3, instrucciones |->
       {InsCrear(1, 1), InsCrear(1, 2), InsBorrar(1), InsArchivo("F_READ", 2, 1),
        InsArchivo("F_WRITE", 2, 2), InsMov("MOV_IN", "AX", 2), EXIT}]

LosEscenarios == {LosRegistros, LosSegmentos, LosArchivos}

\* The processes are alike.
Simetria == Permutations(DosProcesos)
=============================================================================
