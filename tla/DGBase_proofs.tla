---------------------------- MODULE DGBase_proofs ----------------------------
(***************************************************************************)
(* Lemmas about the operations of the DG object: what each leaves alone,   *)
(* that its members keep their types, and that the keys of                 *)
(* assemble_residual tell what the matrices hold.                          *)
(***************************************************************************)
EXTENDS SteadyState, TLAPS

(***************************************************************************)
(* What the keys tell.  A matrix that the key of the Jacobian describes is *)
(* the Jacobian at that solution and those nodes, regularised with that    *)
(* CFL and the mass matrix of some mesh.                                   *)
(***************************************************************************)
Describes(key, A) ==
  A = EvaluatedMatrix(key[1], key[2], key[3], A.mass_nodes)

TransposeKnown(d) ==
  d.key_dRdW[1] # None => Describes(d.key_dRdW, d.system_matrix_transpose)

JacobianKnown(d) ==
  d.key_dRdW[1] # None => Describes(d.key_dRdW, d.system_matrix)

\* What is left of it after pseudo-time steps, which do not regularise the Jacobian
\* and then overwrite it in place.
JacobianOrSystem(key, A) ==
  /\ A.solution = key[1] /\ A.nodes = key[2]
  /\ key[3] = 0 \/ Describes(key, A)

SystemKnown(d) ==
  d.key_dRdW[1] # None => JacobianOrSystem(d.key_dRdW, d.system_matrix)

MeshDerivativesKnown(d) ==
  /\ d.key_dRdX[1] # None =>
       d.dRdXv = Evaluated_dRdX(d.key_dRdX[1], d.key_dRdX[2])
  /\ d.key_d2R[1] # None =>
       d.d2R = Evaluated_d2R(d.key_d2R[1], d.key_d2R[2], d.key_d2R[3])

(***************************************************************************)
(* Types.                                                                  *)
(***************************************************************************)
\* An assembled matrix, whatever the cells do, has the type of a matrix.
LEMMA EvaluatedMatrixType ==
  ASSUME NEW s \in Solutions, NEW n \in Nodes, NEW c \in Int,
         NEW m \in Nodes \cup {None}
  PROVE  EvaluatedMatrix(s, n, c, m) \in MatrixType
  BY DEF EvaluatedMatrix, Matrix, MatrixType

\* What is done to a matrix in place keeps its type.
LEMMA InPlaceType ==
  ASSUME NEW A \in MatrixType, NEW w \in Int, NEW m \in Nodes \cup {None}
  PROVE  /\ Negated(A) \in MatrixType
         /\ MassAdded(A, w, m) \in MatrixType
<1>1. A.jacobian \in Int /\ A.mass \in Int
  BY DEF MatrixType
<1> DEFINE j == -A.jacobian
           k == -A.mass
           l == A.mass + w
<1>2. j \in Int /\ k \in Int /\ l \in Int
  BY <1>1
<1>3. /\ Negated(A) = [A EXCEPT !.jacobian = j, !.mass = k]
      /\ MassAdded(A, w, m) = [A EXCEPT !.mass = l, !.mass_nodes = m]
  BY DEF Negated, MassAdded
<1> HIDE DEF j, k, l
<1> QED
  BY <1>2, <1>3 DEF MatrixType

\* The mass matrix that is combined with a Jacobian is that of some mesh.
LEMMA MassNodesType ==
  ASSUME NEW d \in DGType
  PROVE  MassNodesUsed(d) \in Nodes
  BY DEF MassNodesUsed, DGType

\* Setting the solution, the nodes or the dual keeps the object's type.
LEMMA SettersType ==
  ASSUME NEW d \in DGType, NEW s \in Solutions, NEW n \in Nodes, NEW v \in Duals
  PROVE  /\ SetSolution(d, s) \in DGType
         /\ SetNodes(d, n) \in DGType
         /\ SetDual(d, v) \in DGType
  BY DEF SetSolution, SetNodes, SetDual, DGType

\* Evaluating the residual keeps the object's type.
LEMMA WithResidualType ==
  ASSUME NEW d \in DGType
  PROVE  WithResidual(d) \in DGType
<1>1. EvaluatedResidual(d.solution, d.volume_nodes) \in ResidualType
  BY DEF EvaluatedResidual, Residual, ResidualType, DGType
<1> QED
  BY <1>1 DEF WithResidual, DGType

\* assemble_residual keeps the object's type.
LEMMA AssembleType ==
  ASSUME NEW d \in DGType, NEW x \in Derivatives, NEW c \in Int
  PROVE  AssembleResidual(d, x, c) \in DGType
<1>1. With_dRdW(d, c) \in DGType
  <2>1. /\ d.solution \in Solutions
        /\ d.volume_nodes \in Nodes
    BY DEF DGType
  <2>2. EvaluatedMatrix(d.solution, d.volume_nodes, c, MassNodesUsed(d))
          \in MatrixType
    BY <2>1, MassNodesType, EvaluatedMatrixType
  <2>3. <<d.solution, d.volume_nodes, c>>
          \in (Solutions \cup {None}) \X (Nodes \cup {None}) \X Int
    BY <2>1
  <2> QED
    BY <2>2, <2>3, MassNodesType DEF With_dRdW, DGType
<1>2. With_dRdX(d) \in DGType
  BY DEF With_dRdX, Evaluated_dRdX, DGType
<1>3. With_d2R(d) \in DGType
  BY DEF With_d2R, Evaluated_d2R, DGType
<1> QED
  BY <1>1, <1>2, <1>3, WithResidualType DEF AssembleResidual, Derivatives

(***************************************************************************)
(* What an assembly leaves alone, and what it leaves.                      *)
(***************************************************************************)
\* assemble_residual changes neither the solution nor the mesh nor the dual.
LEMMA AssembleFrame ==
  ASSUME NEW d \in DGType, NEW x \in Derivatives, NEW c \in Int
  PROVE  LET r == AssembleResidual(d, x, c)
         IN  /\ r.solution = d.solution
             /\ r.volume_nodes = d.volume_nodes
             /\ r.dual = d.dual
  BY DEF AssembleResidual, Derivatives, WithResidual, With_dRdW, With_dRdX,
         With_d2R, DGType

\* An assembled matrix is the one that its own members describe.
LEMMA EvaluatedDescribes ==
  ASSUME NEW s \in Solutions, NEW n \in Nodes, NEW c \in Int,
         NEW m \in Nodes \cup {None}
  PROVE  LET A == EvaluatedMatrix(s, n, c, m)
         IN  A = EvaluatedMatrix(s, n, c, A.mass_nodes)
  BY DEF EvaluatedMatrix, Matrix

\* An assembly of the Jacobian makes the transpose, and the matrix, that of the
\* object's solution and nodes and of the CFL asked for, if the key of an earlier
\* one told the truth.
LEMMA AssembledJacobian ==
  ASSUME NEW d \in DGType, NEW c \in Int
  PROVE  LET r == AssembleResidual(d, "dRdW", c)
             key == <<d.solution, d.volume_nodes, c>>
         IN  /\ r.key_dRdW = key
             /\ TransposeKnown(d) => Describes(key, r.system_matrix_transpose)
             /\ JacobianKnown(d) => Describes(key, r.system_matrix)
             /\ SystemKnown(d) => JacobianOrSystem(key, r.system_matrix)
<1> DEFINE r == AssembleResidual(d, "dRdW", c)
           key == <<d.solution, d.volume_nodes, c>>
<1>1. d.solution # None
  BY DGAssumption DEF DGType
<1>2. CASE AlreadyAssembled(d, "dRdW", c)
  <2>1. r = d /\ d.key_dRdW = key
    BY <1>2 DEF AssembleResidual, AlreadyAssembled
  <2> QED
    BY <1>1, <2>1 DEF TransposeKnown, JacobianKnown, SystemKnown
<1>3. CASE ~AlreadyAssembled(d, "dRdW", c)
  <2> DEFINE A == EvaluatedMatrix(d.solution, d.volume_nodes, c, MassNodesUsed(d))
  <2>1. r = WithResidual(With_dRdW(d, c))
    BY <1>3 DEF AssembleResidual
  <2>2. /\ r.key_dRdW = key
        /\ r.system_matrix = A
        /\ r.system_matrix_transpose = A
    BY <2>1 DEF WithResidual, With_dRdW, DGType
  <2>3. Describes(key, A)
    <3>1. d.solution \in Solutions /\ d.volume_nodes \in Nodes
      BY DEF DGType
    <3>2. MassNodesUsed(d) \in Nodes \cup {None}
      BY MassNodesType
    <3>3. A = EvaluatedMatrix(d.solution, d.volume_nodes, c, A.mass_nodes)
      BY <3>1, <3>2, EvaluatedDescribes
    <3> HIDE DEF A
    <3> QED
      BY <3>3 DEF Describes
  <2>4. JacobianOrSystem(key, A)
    BY <2>3 DEF JacobianOrSystem, EvaluatedMatrix, Matrix
  <2> QED
    BY <2>2, <2>3, <2>4
<1> QED
  BY <1>2, <1>3

\* Whatever is assembled, keys that told the truth still do.
LEMMA AssembleKnown ==
  ASSUME NEW d \in DGType, NEW x \in Derivatives, NEW c \in Int
  PROVE  LET r == AssembleResidual(d, x, c)
         IN  /\ TransposeKnown(d) => TransposeKnown(r)
             /\ JacobianKnown(d) => JacobianKnown(r)
             /\ SystemKnown(d) => SystemKnown(r)
             /\ MeshDerivativesKnown(d) => MeshDerivativesKnown(r)
<1> DEFINE r == AssembleResidual(d, x, c)
<1>1. CASE AlreadyAssembled(d, x, c)
  BY <1>1 DEF AssembleResidual
<1>2. CASE x = "dRdW" /\ ~AlreadyAssembled(d, x, c)
  <2>1. /\ TransposeKnown(d) => TransposeKnown(r)
        /\ JacobianKnown(d) => JacobianKnown(r)
        /\ SystemKnown(d) => SystemKnown(r)
    BY <1>2, AssembledJacobian DEF TransposeKnown, JacobianKnown, SystemKnown
  <2>2. /\ r.key_dRdX = d.key_dRdX /\ r.dRdXv = d.dRdXv
        /\ r.key_d2R = d.key_d2R /\ r.d2R = d.d2R
    BY <1>2 DEF AssembleResidual, WithResidual, With_dRdW, DGType
  <2> QED
    BY <2>1, <2>2 DEF MeshDerivativesKnown
<1>3. CASE x # "dRdW" /\ ~AlreadyAssembled(d, x, c)
  <2>1. /\ r.key_dRdW = d.key_dRdW
        /\ r.system_matrix = d.system_matrix
        /\ r.system_matrix_transpose = d.system_matrix_transpose
    BY <1>3 DEF AssembleResidual, Derivatives, WithResidual, With_dRdX, With_d2R,
                DGType
  <2>2. MeshDerivativesKnown(d) => MeshDerivativesKnown(r)
    BY <1>3 DEF AssembleResidual, Derivatives, WithResidual, With_dRdX, With_d2R,
                DGType, MeshDerivativesKnown
  <2> QED
    BY <2>1, <2>2 DEF TransposeKnown, JacobianKnown, SystemKnown
<1> QED
  BY <1>1, <1>2, <1>3

\* An assembly of the other derivatives makes them those of the object's solution,
\* nodes and dual.
LEMMA AssembledMeshDerivatives ==
  ASSUME NEW d \in DGType, NEW c \in Int, MeshDerivativesKnown(d)
  PROVE  /\ AssembleResidual(d, "dRdX", c).dRdXv
              = Evaluated_dRdX(d.solution, d.volume_nodes)
         /\ AssembleResidual(d, "d2R", c).d2R
              = Evaluated_d2R(d.solution, d.volume_nodes, d.dual)
<1>1. d.solution # None
  BY DGAssumption DEF DGType
<1>2. AssembleResidual(d, "dRdX", c).dRdXv
        = Evaluated_dRdX(d.solution, d.volume_nodes)
  <2>1. CASE AlreadyAssembled(d, "dRdX", c)
    <3>1. d.key_dRdX = <<d.solution, d.volume_nodes>>
      BY <2>1 DEF AlreadyAssembled
    <3> QED
      BY <1>1, <2>1, <3>1 DEF AssembleResidual, MeshDerivativesKnown
  <2>2. CASE ~AlreadyAssembled(d, "dRdX", c)
    BY <2>2 DEF AssembleResidual, WithResidual, With_dRdX, DGType
  <2> QED
    BY <2>1, <2>2
<1>3. AssembleResidual(d, "d2R", c).d2R
        = Evaluated_d2R(d.solution, d.volume_nodes, d.dual)
  <2>1. CASE AlreadyAssembled(d, "d2R", c)
    <3>1. d.key_d2R = <<d.solution, d.volume_nodes, d.dual>>
      BY <2>1 DEF AlreadyAssembled
    <3> QED
      BY <1>1, <2>1, <3>1 DEF AssembleResidual, MeshDerivativesKnown
  <2>2. CASE ~AlreadyAssembled(d, "d2R", c)
    BY <2>2 DEF AssembleResidual, WithResidual, With_d2R, DGType
  <2> QED
    BY <2>1, <2>2
<1> QED
  BY <1>2, <1>3

(***************************************************************************)
(* steady_state, as its callers see it.                                    *)
(***************************************************************************)
\* Evaluating the residual changes nothing that a key describes.
LEMMA ResidualKnown ==
  ASSUME NEW d \in DGType
  PROVE  LET r == WithResidual(d)
         IN  /\ r.solution = d.solution
             /\ r.volume_nodes = d.volume_nodes
             /\ r.right_hand_side = EvaluatedResidual(d.solution, d.volume_nodes)
             /\ TransposeKnown(d) => TransposeKnown(r)
             /\ SystemKnown(d) => SystemKnown(r)
             /\ MeshDerivativesKnown(d) => MeshDerivativesKnown(r)
  BY DEF WithResidual, DGType, TransposeKnown, SystemKnown, MeshDerivativesKnown

\* The matrix of a pseudo-time step takes the place of the Jacobian, at the same
\* solution and nodes, and of nothing else: not of its transpose, nor of the key.
LEMMA LinearSystemKnown ==
  ASSUME NEW d \in DGType, NEW w \in Int
  PROVE  LET r == LinearSystem(d, w)
         IN  /\ r \in DGType
             /\ r.volume_nodes = d.volume_nodes
             /\ TransposeKnown(d) => TransposeKnown(r)
             /\ SystemKnown(d) => SystemKnown(r)
             /\ MeshDerivativesKnown(d) => MeshDerivativesKnown(r)
<1> DEFINE a == AssembleResidual(d, "dRdW", 0)
           r == LinearSystem(d, w)
<1>1. "dRdW" \in Derivatives /\ 0 \in Int
  BY DEF Derivatives
<1>2. /\ a \in DGType
      /\ a.volume_nodes = d.volume_nodes
      /\ TransposeKnown(d) => TransposeKnown(a)
      /\ SystemKnown(d) => SystemKnown(a)
      /\ MeshDerivativesKnown(d) => MeshDerivativesKnown(a)
  BY <1>1, AssembleType, AssembleFrame, AssembleKnown
<1> HIDE DEF a
<1>3. r \in DGType
  <2> DEFINE b == NegateSystemMatrix(a)
  <2>1. /\ a.system_matrix \in MatrixType
        /\ a.global_mass_matrix \in Nodes \cup {None}
    BY <1>2 DEF DGType
  <2>2. Negated(a.system_matrix) \in MatrixType
    BY <2>1, InPlaceType
  <2>3. b \in DGType
    BY <1>2, <2>2 DEF NegateSystemMatrix, DGType
  <2>4. /\ b.system_matrix \in MatrixType
        /\ b.global_mass_matrix \in Nodes \cup {None}
    BY <2>3 DEF DGType
  <2> HIDE DEF b
  <2>5. MassAdded(b.system_matrix, w, b.global_mass_matrix) \in MatrixType
    BY <2>4, InPlaceType
  <2>6. AddMass(b, w) \in DGType
    BY <2>3, <2>5 DEF AddMass, DGType
  <2> QED
    BY <2>6 DEF LinearSystem, a, b
<1>4. /\ r.volume_nodes = a.volume_nodes
      /\ r.key_dRdW = a.key_dRdW
      /\ r.system_matrix_transpose = a.system_matrix_transpose
      /\ r.key_dRdX = a.key_dRdX /\ r.dRdXv = a.dRdXv
      /\ r.key_d2R = a.key_d2R /\ r.d2R = a.d2R
  BY <1>2 DEF LinearSystem, NegateSystemMatrix, AddMass, DGType, a
<1>5. SystemKnown(d) => JacobianOrSystem(r.key_dRdW, r.system_matrix)
  <2>1. /\ a.key_dRdW = <<d.solution, d.volume_nodes, 0>>
        /\ SystemKnown(d) => JacobianOrSystem(a.key_dRdW, a.system_matrix)
    BY <1>1, AssembledJacobian DEF a
  <2>2. /\ r.system_matrix.solution = a.system_matrix.solution
        /\ r.system_matrix.nodes = a.system_matrix.nodes
    BY <1>2 DEF LinearSystem, NegateSystemMatrix, AddMass, Negated, MassAdded,
                DGType, MatrixType, a
  <2> QED
    BY <1>4, <2>1, <2>2 DEF JacobianOrSystem
<1> QED
  BY <1>2, <1>3, <1>4, <1>5 DEF TransposeKnown, SystemKnown, MeshDerivativesKnown

\* A solve leaves the mesh alone, the residual of the solution it returns, and
\* keys that still tell the truth of everything but the Jacobian.
LEMMA SteadyStatesKnown ==
  ASSUME NEW d \in DGType, NEW r \in SteadyStates(d)
  PROVE  /\ r \in DGType
         /\ r.volume_nodes = d.volume_nodes
         /\ r.right_hand_side = EvaluatedResidual(r.solution, r.volume_nodes)
         /\ TransposeKnown(d) => TransposeKnown(r)
         /\ SystemKnown(d) => SystemKnown(r)
         /\ MeshDerivativesKnown(d) => MeshDerivativesKnown(r)
<1> DEFINE m == EvaluateMassMatrices(d)
<1>1. /\ m \in DGType
      /\ m.volume_nodes = d.volume_nodes
      /\ TransposeKnown(d) => TransposeKnown(m)
      /\ SystemKnown(d) => SystemKnown(m)
      /\ MeshDerivativesKnown(d) => MeshDerivativesKnown(m)
  BY DEF EvaluateMassMatrices, DGType, TransposeKnown, SystemKnown,
         MeshDerivativesKnown
<1> HIDE DEF m
<1>2. CASE r = WithResidual(m)
  BY <1>1, <1>2, WithResidualType, ResidualKnown
<1>3. ASSUME NEW s \in Solutions, NEW t \in Solutions,
             r = ReturnedAfterSteps(d, s, t)
      PROVE  /\ r \in DGType
             /\ r.volume_nodes = d.volume_nodes
             /\ r.right_hand_side = EvaluatedResidual(r.solution, r.volume_nodes)
             /\ TransposeKnown(d) => TransposeKnown(r)
             /\ SystemKnown(d) => SystemKnown(r)
             /\ MeshDerivativesKnown(d) => MeshDerivativesKnown(r)
  <2> DEFINE a == SetSolution(m, s)
             b == LinearSystem(a, 1)
             e == SetSolution(b, t)
  <2>1. /\ a \in DGType
        /\ a.volume_nodes = m.volume_nodes
        /\ TransposeKnown(m) => TransposeKnown(a)
        /\ SystemKnown(m) => SystemKnown(a)
        /\ MeshDerivativesKnown(m) => MeshDerivativesKnown(a)
    BY <1>1 DEF SetSolution, DGType, TransposeKnown, SystemKnown,
         MeshDerivativesKnown
  <2> HIDE DEF a
  <2>2. /\ b \in DGType
        /\ b.volume_nodes = a.volume_nodes
        /\ TransposeKnown(a) => TransposeKnown(b)
        /\ SystemKnown(a) => SystemKnown(b)
        /\ MeshDerivativesKnown(a) => MeshDerivativesKnown(b)
    BY <2>1, LinearSystemKnown
  <2> HIDE DEF b
  <2>3. /\ e \in DGType
        /\ e.volume_nodes = b.volume_nodes
        /\ TransposeKnown(b) => TransposeKnown(e)
        /\ SystemKnown(b) => SystemKnown(e)
        /\ MeshDerivativesKnown(b) => MeshDerivativesKnown(e)
    BY <2>2 DEF SetSolution, DGType, TransposeKnown, SystemKnown,
         MeshDerivativesKnown
  <2>4. r = WithResidual(e)
    BY <1>3 DEF ReturnedAfterSteps, m, a, b
  <2> HIDE DEF e
  <2> QED
    BY <1>1, <2>1, <2>2, <2>3, <2>4, WithResidualType, ResidualKnown
<1> QED
  BY <1>2, <1>3 DEF SteadyStates, ReturnedAtOnce, m
=============================================================================
