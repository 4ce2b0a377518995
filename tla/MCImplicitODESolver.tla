------------------------- MODULE MCImplicitODESolver -------------------------
(***************************************************************************)
(* Values of the constants of ImplicitODESolver for model checking.  The   *)
(* tolerance is 1/2 and the norms are multiples of 1/4: 1 meets the        *)
(* absolute tolerance, 3 the relative one when it started from 7, 9 has    *)
(* diverged, and between 3 and 7 lie both an increase by more than two and *)
(* one by less (from 4).  The residual that replaces one that cannot be    *)
(* evaluated does not look converged.                                      *)
(***************************************************************************)
EXTENDS ImplicitODESolver, TLC

CONSTANTS w1, w2, w3, n1

MCInvalid == {<<w3, n1>>}

MCNorms == {1, 3, 4, 7, 9}

MCNormsWithNaN == {1, 3, 7, NaN}

MCFloor == -2

MCInverseCFL == [e \in -MaxIterations .. MaxIterations |-> 2 ^ (MaxIterations - e)]

\* the two solutions at which the cells can be evaluated
Symmetric == Permutations({w1, w2})
=============================================================================
