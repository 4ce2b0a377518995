---------------------------- MODULE MCMeshAdaptation ----------------------------
(***************************************************************************)
(* A small instance of MeshAdaptation: an interval of two cells.           *)
(***************************************************************************)
EXTENDS MeshAdaptation

MCCells == {<<0, 0>>, <<0, 1>>}

\* Goal-oriented adaptation of two cycles of every type; residual-based
\* adaptation, of two cycles where the smoothness sensor may raise the largest
\* degree twice; and runs that only ramp.
MCParameters ==
  [type: {"h", "p", "hp"}, goal: {TRUE}, ramping: {FALSE}, poly_degree: {1},
   cycles: {2}]
  \cup
  [type: {"p", "hp"}, goal: {FALSE}, ramping: {TRUE}, poly_degree: {0, 1, 2},
   cycles: {0, 1}]
  \cup
  [type: {"hp"}, goal: {FALSE}, ramping: {FALSE}, poly_degree: {2}, cycles: {2}]
=============================================================================
