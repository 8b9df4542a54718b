---------------------------- MODULE MC_Recursos ----------------------------
(***************************************************************************)
(* Recursos for TLC.  Disciplina: three programs that return what they    *)
(* take, over one instance of resource 1 and two of resource 2, with      *)
(* nested requests.  Carrera: programs that end holding the only instance *)
(* of a resource while others ask for it, so that gestionadorExit releases*)
(* it while the scheduler thread decides; one signals without a WAIT.     *)
(***************************************************************************)
EXTENDS Recursos

CONSTANTS p1, p2, p3

TresProcesos == {p1, p2, p3}

W(r) == [op |-> "WAIT", recurso |-> r]
S(r) == [op |-> "SIGNAL", recurso |-> r]
Y == [op |-> "YIELD"]
X == [op |-> "EXIT"]

Programas(a, b, c) == (p1 :> a) @@ (p2 :> b) @@ (p3 :> c)

Disciplina ==
    [programas |-> Programas(<<W(1), Y, W(2), Y, S(2), S(1), X>>,
                             <<W(2), Y, S(2), W(1), Y, S(1), X>>,
                             <<W(1), W(2), Y, S(1), Y, S(2), X>>),
     instancias |-> (1 :> 1) @@ (2 :> 2)]

Carrera ==
    [programas |-> Programas(<<W(1), Y, X>>, <<W(1), Y, W(2), S(1), X>>, <<Y, W(2), W(1), X>>),
     instancias |-> (1 :> 1) @@ (2 :> 1)]

SinWait ==
    [programas |-> Programas(<<W(1), Y, W(INEXISTENTE)>>, <<W(1), Y, S(1), X>>, <<Y, S(2), X>>),
     instancias |-> (1 :> 1) @@ (2 :> 0)]

DosRecursos == {1, 2}
Todos == {Disciplina, Carrera, SinWait}

\* The smallest program that ends holding what the next one asks for.
SoloExit ==
    {[programas |-> Programas(<<W(1), Y, X>>, <<Y, W(1), S(1), X>>, <<X>>),
      instancias |-> (1 :> 1) @@ (2 :> 1)]}
=============================================================================
