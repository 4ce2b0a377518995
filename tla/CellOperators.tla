---------------------------- MODULE CellOperators ----------------------------
(***************************************************************************)
(* The one-dimensional operators that the strong form's cell loop carries  *)
(* from cell to cell (dg/strong_dg.cpp, dg/dg_base.cpp).  They depend on a *)
(* polynomial degree only, so that the loop rebuilds them when the degree  *)
(* of a cell is not the one they were last built for.  One record stands   *)
(* for the objects of the loop: the degrees its two tags remember, and the *)
(* degrees the objects were really built for.  The tag of the mapping      *)
(* basis is written with the other two and never read by the loop.         *)
(***************************************************************************)
EXTENDS Integers

\* reinit_operators_for_cell_residual_loop(p, q) on the loop's own objects.  Both
\* projections are built for the interior degree, and the one mapping basis for
\* the exterior one, at whose points it evaluates the mapping of a cell.
Reinit(o, p, q) ==
  [o EXCEPT !.interior = p, !.exterior = q,
            !.exterior_projection = p, !.mapping = q]

Operators(p) ==
  [int_degree |-> p, ext_degree |-> p,     \* soln_basis_*.current_degree
   interior |-> p,               \* solution, flux, stiffness and projection
   exterior |-> p,               \* solution and flux
   exterior_projection |-> p,    \* soln_basis_projection_oper_ext
   mapping |-> p]                \* mapping_basis, shared by both sides

OperatorsType(Degrees) ==
  [int_degree: Degrees, ext_degree: Degrees, interior: Degrees,
   exterior: Degrees, exterior_projection: Degrees, mapping: Degrees]

\* Fault: the exterior objects are rebuilt too, and their tag is left alone.
VolumeRebuildsBothSides(o, p) ==
  IF p = o.int_degree THEN o ELSE [Reinit(o, p, p) EXCEPT !.int_degree = p]

\* Fault: the objects are built for a degree below the cell's.
VolumeOneDegreeDown(o, p) ==
  IF p = o.int_degree THEN o
  ELSE [Reinit(o, p - 1, p - 1) EXCEPT !.int_degree = p, !.exterior = o.exterior]

\* The volume term of a cell of degree p hands its interior objects to both
\* sides of the call, which leaves the exterior basis as it was.  The exterior
\* projection and the mapping basis are the loop's own and are rebuilt.
VolumeOperators(o, p) ==
  IF p = o.int_degree THEN o
  ELSE [Reinit(o, p, p) EXCEPT !.int_degree = p, !.exterior = o.exterior]

\* The face term between a cell of degree p and a neighbour of degree q.
FaceOperators(o, p, q) ==
  IF q = o.ext_degree THEN o
  ELSE [Reinit(o, p, q) EXCEPT !.ext_degree = q]
=============================================================================
