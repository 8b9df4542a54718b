----------------------------- MODULE MC_Archivos -----------------------------
(***************************************************************************)
(* Archivos for TLC.  Ordenados: programs that nest two files and close   *)
(* them.  UnArchivo: any calls, so that one process has the file, another *)
(* waits for it and the third opens or ends between two steps of its      *)
(* release.  DosArchivos: a process may end with two files open.          *)
(***************************************************************************)
EXTENDS Archivos, TLC

CONSTANTS p1, p2, p3

TresProcesos == {p1, p2, p3}

Escenario(cierran, nombres, a, b, c) ==
    [cierran |-> cierran, nombres |-> nombres, llamadas |-> (p1 :> a) @@ (p2 :> b) @@ (p3 :> c)]

Ordenados == Escenario(TRUE, {1, 2}, 4, 2, 2)
UnArchivo == Escenario(FALSE, {1}, 2, 2, 1)
DosArchivos == Escenario(FALSE, {1, 2}, 2, 1, 0)

Todos == {Ordenados, UnArchivo, DosArchivos}
SoloUnArchivo == {UnArchivo}
=============================================================================
