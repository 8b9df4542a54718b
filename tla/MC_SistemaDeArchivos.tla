------------------------ MODULE MC_SistemaDeArchivos ------------------------
(***************************************************************************)
(* SistemaDeArchivos for TLC: two files, six blocks of two units, of which *)
(* the bitmap has five bits.  A file of 3 takes three blocks with its      *)
(* pointer block, one of 5 takes four and fills the pointer block; with    *)
(* the other file there, a truncation runs out of blocks before or after   *)
(* its pointer block.                                                      *)
(***************************************************************************)
EXTENDS SistemaDeArchivos, TLC

CONSTANTS a1, a2

DosArchivos == {a1, a2}
TresTamanios == {0, 3, 5}
\* Within the first block, and across the second and the third.
DosAccesos == {[puntero |-> 0, bytes |-> 1], [puntero |-> 2, bytes |-> 2]}
\* Nothing is claimed of what follows a step that was not sane, and the units that
\* hold data are bounded.
Acotado == sano /\ Cardinality({u \in Unidades : datos_bloques[u] >= DATO}) <= 3
Simetria == Permutations(DosArchivos)
=============================================================================
