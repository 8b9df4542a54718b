--------------------------- MODULE MC_Planificador ---------------------------
(***************************************************************************)
(* Planificador for TLC: three consoles, one place less than consoles (so *)
(* that the long-term scheduler waits), both algorithms, and programs of  *)
(* at most three returns to the kernel (so that one process runs again    *)
(* while the thread of its first I/O has still to post).                  *)
(***************************************************************************)
EXTENDS Planificador

CONSTANTS p1, p2, p3

TresProcesos == {p1, p2, p3}
DosProcesos == {p1, p2}
Ambos == {"FIFO", "HRRN"}
SoloFIFO == {"FIFO"}
=============================================================================
