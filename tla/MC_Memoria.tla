----------------------------- MODULE MC_Memoria -----------------------------
(***************************************************************************)
(* Memoria for TLC: six bytes, one of them segment 0, and two processes    *)
(* with at most two segments of one to three bytes each, so that memory   *)
(* fills up, holes open between segments and compaction is asked for.     *)
(***************************************************************************)
EXTENDS Memoria

CONSTANTS p1, p2

DosPIDs == {p1, p2}
UnID == {1}
TresTamanos == {1, 2, 3}
TodosLosAlgoritmos == {"BEST", "FIRST", "WORST"}
=============================================================================
