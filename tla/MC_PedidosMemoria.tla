-------------------------- MODULE MC_PedidosMemoria --------------------------
(***************************************************************************)
(* PedidosMemoria for TLC: three PIDs, so that a process is admitted and  *)
(* another ends while the third asks for segments; one console more than  *)
(* PIDs, so that a PID is used again.                                     *)
(***************************************************************************)
EXTENDS PedidosMemoria

CONSTANTS p1, p2, p3

TresProcesos == {p1, p2, p3}

Simetria == Permutations(TresProcesos)
=============================================================================
