----------------------- MODULE MCReducedOrderODESolver -----------------------
(***************************************************************************)
(* Three solutions, one of which the cells cannot be evaluated at: enough  *)
(* for an old solution, trials that are rejected and one that is accepted. *)
(***************************************************************************)
EXTENDS ReducedOrderODESolver

CONSTANTS s1, s2, s3, n1

MCInvalid == {<<s3, n1>>}
MCNorms == {1, 2, 5, NaN}
=============================================================================
