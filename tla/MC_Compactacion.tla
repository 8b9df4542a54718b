--------------------------- MODULE MC_Compactacion ---------------------------
(***************************************************************************)
(* Compactacion for TLC: three processes (one that compacts, one with an  *)
(* F_READ or F_WRITE queued, one with another file call, which takes      *)
(* operarFS to the top of its loop) and three requests (one leaves a      *)
(* permission, the second takes it, the third is the one forgotten).      *)
(***************************************************************************)
EXTENDS Compactacion

CONSTANTS p1, p2, p3

TresProcesos == {p1, p2, p3}
=============================================================================
