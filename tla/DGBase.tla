------------------------------- MODULE DGBase -------------------------------
(***************************************************************************)
(* The discontinuous Galerkin object (dg/dg_base.cpp) as its clients see   *)
(* it: the solution, the mesh nodes and the dual vector they write, the    *)
(* residual and the derivative matrices they read, and the record of the   *)
(* state each matrix was last assembled at, which lets assemble_residual   *)
(* return at once when it is asked for what it believes it has.            *)
(*                                                                         *)
(* The object is one record, so that a client's handler, which makes       *)
(* several calls on it, is one composition of the operators below.  Each   *)
(* operator takes the object before the call and returns it after.         *)
(*                                                                         *)
(* Vectors and matrices are abstract: a vector is a member of a set, and a *)
(* matrix is named by the state it was assembled at and by the integer     *)
(* coefficients with which the Jacobian and the mass matrix enter it.  A   *)
(* CFL number is represented by its inverse, the coefficient of the mass   *)
(* matrix it adds; 0 stands for the value 0.0, which adds none.            *)
(***************************************************************************)
EXTENDS Integers

CONSTANTS
  Solutions,    \* the values of the modal coefficients
  Nodes,        \* the values of the mesh's volume nodes
  Duals,        \* the values of the dual vector
  Invalid,      \* the <<solution, nodes>> at which the cell loop throws
  None          \* no value: a vector of zeros or "lowest", a cleared matrix

ASSUME DGAssumption ==
  /\ Invalid \subseteq Solutions \X Nodes
  /\ None \notin Solutions \cup Nodes \cup Duals

Derivatives == {"none", "dRdW", "dRdX", "d2R"}

(***************************************************************************)
(* What the vectors and matrices hold.                                     *)
(***************************************************************************)
\* The residual vector: "allocated" is the vector of ones of allocate_system.
Residual(kind, s, n) == [kind |-> kind, solution |-> s, nodes |-> n]

\* jacobian * dR/dW(solution, nodes) + mass * M(mass_nodes)
Matrix(s, n, jacobian, mass, m) ==
  [solution |-> s, nodes |-> n, jacobian |-> jacobian,
   mass |-> mass, mass_nodes |-> IF mass = 0 THEN None ELSE m]

ZeroMatrix == Matrix(None, None, 0, 0, None)

EvaluatedResidual(s, n) ==
  IF <<s, n>> \in Invalid THEN Residual("ones", None, None)
                          ELSE Residual("residual", s, n)

\* The Jacobian and, when a CFL is asked for, the mass matrix over that CFL.
\* Where the cells cannot be evaluated the mass matrix takes the Jacobian's
\* place.
EvaluatedMatrix(s, n, inv_cfl, m) ==
  IF <<s, n>> \in Invalid THEN Matrix(s, n, 0, 1 + inv_cfl, m)
                          ELSE Matrix(s, n, 1, inv_cfl, m)

\* The derivatives with respect to the mesh and the second derivatives.  Where
\* the cells cannot be evaluated nothing takes their place, and the matrices keep
\* the terms of the cells that came before the one that threw.
Evaluated_dRdX(s, n) ==
  [solution |-> s, nodes |-> n, complete |-> <<s, n>> \notin Invalid]

Evaluated_d2R(s, n, v) ==
  [solution |-> s, nodes |-> n, dual |-> v, complete |-> <<s, n>> \notin Invalid]

(***************************************************************************)
(* The types of an object whose solution has been set.                     *)
(***************************************************************************)
MatrixType ==
  [solution: Solutions \cup {None}, nodes: Nodes \cup {None},
   jacobian: Int, mass: Int, mass_nodes: Nodes \cup {None}]

ResidualType ==
  [kind: {"allocated", "ones", "residual"},
   solution: Solutions \cup {None}, nodes: Nodes \cup {None}]

DGType ==
  [solution: Solutions, volume_nodes: Nodes, dual: Duals \cup {None},
   right_hand_side: ResidualType,
   system_matrix: MatrixType, system_matrix_transpose: MatrixType,
   global_mass_matrix: Nodes \cup {None},
   dRdXv: [solution: Solutions, nodes: Nodes, complete: BOOLEAN] \cup {None},
   d2R: [solution: Solutions, nodes: Nodes, dual: Duals \cup {None},
         complete: BOOLEAN] \cup {None},
   key_dRdW: (Solutions \cup {None}) \X (Nodes \cup {None}) \X Int,
   key_dRdX: (Solutions \cup {None}) \X (Nodes \cup {None}),
   key_d2R: (Solutions \cup {None}) \X (Nodes \cup {None})
              \X (Duals \cup {None})]

(***************************************************************************)
(* A freshly allocated object.  The solution is filled with lowest(), so   *)
(* that an initial condition that was never set can be told; the keys are  *)
(* vectors of zeros, which no mesh's nodes are equal to.                   *)
(***************************************************************************)
AllocatedDG(n) ==
  [solution |-> None, volume_nodes |-> n, dual |-> None,
   right_hand_side |-> Residual("allocated", None, None),
   system_matrix |-> ZeroMatrix, system_matrix_transpose |-> ZeroMatrix,
   global_mass_matrix |-> None,
   dRdXv |-> None, d2R |-> None,
   key_dRdW |-> <<None, None, 0>>,
   key_dRdX |-> <<None, None>>,
   key_d2R |-> <<None, None, None>>]

\* Fault: the records of what was assembled outlive what was assembled.
AllocatedWithRecords(d, mass) ==
  [AllocatedDG(d.volume_nodes) EXCEPT
     !.global_mass_matrix = mass, !.key_dRdW = d.key_dRdW,
     !.key_dRdX = d.key_dRdX, !.key_d2R = d.key_d2R]

\* allocate_system with its default arguments, after the mesh or the degrees
\* have changed.  The mass matrix is left alone, and "mass" is what is left of
\* it: its nodes, or None if it is not of the new size.
AllocateSystem(d, mass) ==
  [AllocatedDG(d.volume_nodes) EXCEPT !.global_mass_matrix = mass]

EvaluateMassMatrices(d) == [d EXCEPT !.global_mass_matrix = d.volume_nodes]

\* Fault: the solution is not written.
SolutionNotSet(d, s) == d

SetSolution(d, s) == [d EXCEPT !.solution = s]
SetNodes(d, n)    == [d EXCEPT !.volume_nodes = n]
SetDual(d, v)     == [d EXCEPT !.dual = v]

(***************************************************************************)
(* assemble_residual: at most one derivative is asked for.                 *)
(***************************************************************************)
\* Fault: the Jacobian is thought to be assembled whatever the CFL.
AssembledWhateverCFL(d, derivative, inv_cfl) ==
  \/ derivative = "dRdW" /\ <<d.key_dRdW[1], d.key_dRdW[2]>>
                             = <<d.solution, d.volume_nodes>>
  \/ derivative = "dRdX" /\ d.key_dRdX = <<d.solution, d.volume_nodes>>
  \/ derivative = "d2R" /\ d.key_d2R = <<d.solution, d.volume_nodes, d.dual>>

\* Fault: the second derivatives are thought to be assembled whatever the dual.
AssembledWhateverDual(d, derivative, inv_cfl) ==
  \/ derivative = "dRdW" /\ d.key_dRdW = <<d.solution, d.volume_nodes, inv_cfl>>
  \/ derivative = "dRdX" /\ d.key_dRdX = <<d.solution, d.volume_nodes>>
  \/ derivative = "d2R" /\ <<d.key_d2R[1], d.key_d2R[2]>>
                            = <<d.solution, d.volume_nodes>>

AlreadyAssembled(d, derivative, inv_cfl) ==
  \/ /\ derivative = "dRdW"
     /\ d.key_dRdW = <<d.solution, d.volume_nodes, inv_cfl>>
  \/ /\ derivative = "dRdX"
     /\ d.key_dRdX = <<d.solution, d.volume_nodes>>
  \/ /\ derivative = "d2R"
     /\ d.key_d2R = <<d.solution, d.volume_nodes, d.dual>>

\* The mass matrix the assembled Jacobian is combined with: evaluated here
\* only if there is none of this size or if the cells could not be evaluated.
MassNodesUsed(d) ==
  IF d.global_mass_matrix = None \/ <<d.solution, d.volume_nodes>> \in Invalid
  THEN d.volume_nodes ELSE d.global_mass_matrix

WithResidual(d) ==
  [d EXCEPT !.right_hand_side = EvaluatedResidual(d.solution, d.volume_nodes)]

\* Fault: the transpose is not computed again.
TransposeNotUpdated(d, inv_cfl) ==
  LET m == MassNodesUsed(d)
  IN  [d EXCEPT !.key_dRdW = <<d.solution, d.volume_nodes, inv_cfl>>,
                !.global_mass_matrix = m,
                !.system_matrix =
                   EvaluatedMatrix(d.solution, d.volume_nodes, inv_cfl, m)]

With_dRdW(d, inv_cfl) ==
  LET m == MassNodesUsed(d)
      A == EvaluatedMatrix(d.solution, d.volume_nodes, inv_cfl, m)
  IN  [d EXCEPT !.key_dRdW = <<d.solution, d.volume_nodes, inv_cfl>>,
                !.global_mass_matrix = m,
                !.system_matrix = A,
                !.system_matrix_transpose = A]

\* The records are written before the cells are met, and are not taken back
\* when one of them throws.
With_dRdX(d) ==
  [d EXCEPT !.key_dRdX = <<d.solution, d.volume_nodes>>,
            !.dRdXv = Evaluated_dRdX(d.solution, d.volume_nodes)]

With_d2R(d) ==
  [d EXCEPT !.key_d2R = <<d.solution, d.volume_nodes, d.dual>>,
            !.d2R = Evaluated_d2R(d.solution, d.volume_nodes, d.dual)]

AssembleResidual(d, derivative, inv_cfl) ==
  IF AlreadyAssembled(d, derivative, inv_cfl) THEN d
  ELSE CASE derivative = "none" -> WithResidual(d)
         [] derivative = "dRdW" -> WithResidual(With_dRdW(d, inv_cfl))
         [] derivative = "dRdX" -> WithResidual(With_dRdX(d))
         [] derivative = "d2R"  -> WithResidual(With_d2R(d))

(***************************************************************************)
(* What clients do to the assembled matrix in place: system_matrix *= -1   *)
(* and add_mass_matrices, add_time_scaled_mass_matrices.                   *)
(***************************************************************************)
Negated(A) == [A EXCEPT !.jacobian = -@, !.mass = -@]

MassAdded(A, weight, m) == [A EXCEPT !.mass = @ + weight, !.mass_nodes = m]

NegateSystemMatrix(d) == [d EXCEPT !.system_matrix = Negated(@)]

AddMass(d, weight) ==
  [d EXCEPT !.system_matrix = MassAdded(@, weight, d.global_mass_matrix)]
=============================================================================
