------------------------ MODULE FlowConstraints_proofs ------------------------
(***************************************************************************)
(* The optimizer's calls are answered with the derivatives at its          *)
(* arguments, in any order of calls, for any solutions, meshes, duals and  *)
(* CFLs.  The invariant is that the keys of assemble_residual tell the     *)
(* truth (Known, below): an answer that was "already assembled" is then    *)
(* right.  With solves in between it holds of everything but the Jacobian, *)
(* of which only the solution and the mesh are still known.                *)
(***************************************************************************)
EXTENDS FlowConstraints, DGBase_proofs

Known(d) == TransposeKnown(d) /\ SystemKnown(d) /\ MeshDerivativesKnown(d)

\* What every handler keeps, solve included.
Inv == TypeOK /\ MeshFollowsDesign /\ Known(dg)

\* What a handler that is no solve keeps too.
FullInv == Inv /\ JacobianKnown(dg)

(***************************************************************************)
(* The pieces of the handlers.                                             *)
(***************************************************************************)
\* After update_1 and update_2 the object holds the caller's solution and the mesh
\* of the caller's design, whether or not the mesh had to be moved.
LEMMA UpdatedObject ==
  ASSUME Inv, NEW s \in Solutions, NEW c \in Controls
  PROVE  LET d == Updated(s, c)
         IN  /\ d \in DGType
             /\ d.solution = s
             /\ d.volume_nodes = MeshOf[c]
             /\ Known(d)
             /\ JacobianKnown(dg) => JacobianKnown(d)
<1> USE DEF Inv, TypeOK
<1>1. MeshOf[c] \in Nodes
  BY FlowConstraintsAssumption
<1> DEFINE a == SetSolution(dg, s)
<1>2. /\ a \in DGType
      /\ a.solution = s
      /\ a.volume_nodes = dg.volume_nodes
      /\ Known(a)
      /\ JacobianKnown(dg) => JacobianKnown(a)
  BY DEF SetSolution, DGType, Known, TransposeKnown, SystemKnown,
         MeshDerivativesKnown, JacobianKnown
<1> HIDE DEF a
<1>3. CASE c = design
  BY <1>2, <1>3 DEF Updated, update_1, update_2, MeshFollowsDesign, a
<1>4. CASE c # design
  <2>1. Updated(s, c) = SetNodes(a, MeshOf[c])
    BY <1>4 DEF Updated, update_1, update_2, a
  <2>2. LET d == SetNodes(a, MeshOf[c])
        IN  /\ d \in DGType
            /\ d.solution = s
            /\ d.volume_nodes = MeshOf[c]
            /\ Known(d)
            /\ JacobianKnown(a) => JacobianKnown(d)
    BY <1>1, <1>2 DEF SetNodes, DGType, Known, TransposeKnown, SystemKnown,
                      MeshDerivativesKnown, JacobianKnown
  <2> QED
    BY <1>2, <2>1, <2>2
<1> QED
  BY <1>3, <1>4

\* Setting the dual keeps all that.
LEMMA DualObject ==
  ASSUME NEW d \in DGType, NEW v \in Duals
  PROVE  LET e == SetDual(d, v)
         IN  /\ e \in DGType
             /\ e.solution = d.solution
             /\ e.volume_nodes = d.volume_nodes
             /\ e.dual = v
             /\ Known(d) => Known(e)
             /\ JacobianKnown(d) => JacobianKnown(e)
  BY DEF SetDual, DGType, Known, TransposeKnown, SystemKnown,
         MeshDerivativesKnown, JacobianKnown

\* An assembly that follows the updates keeps all but the matrices.
LEMMA AssembledObject ==
  ASSUME NEW d \in DGType, NEW x \in Derivatives, NEW i \in CFLs
  PROVE  LET r == AssembleResidual(d, x, i)
         IN  /\ r \in DGType
             /\ r.volume_nodes = d.volume_nodes
             /\ Known(d) => Known(r)
             /\ JacobianKnown(d) => JacobianKnown(r)
  BY AssembleType, AssembleFrame, AssembleKnown, FlowConstraintsAssumption DEF Known

(***************************************************************************)
(* The invariant.                                                          *)
(***************************************************************************)
\* The constructor establishes the invariant.
LEMMA InitInv == Init => FullInv
<1> SUFFICES ASSUME NEW s \in Solutions, NEW c \in Controls,
                    dg = SetSolution(AllocatedDG(MeshOf[c]), s),
                    design = c, flow_CFL = 0, reply = NoReply
             PROVE  FullInv
  BY DEF Init
<1>1. MeshOf[c] \in Nodes /\ 0 \in CFLs
  BY FlowConstraintsAssumption
<1>2. dg \in DGType
  BY <1>1 DEF SetSolution, AllocatedDG, DGType, Residual, ResidualType, ZeroMatrix,
              Matrix, MatrixType
<1>3. /\ dg.volume_nodes = MeshOf[c]
      /\ dg.key_dRdW[1] = None /\ dg.key_dRdX[1] = None /\ dg.key_d2R[1] = None
  BY DEF SetSolution, AllocatedDG
<1> QED
  BY <1>1, <1>2, <1>3
     DEF FullInv, Inv, TypeOK, NoReply, MeshFollowsDesign, Known,
         TransposeKnown, SystemKnown, MeshDerivativesKnown, JacobianKnown

Replies == {"none", "value", "solve", "Jacobian_1", "Transpose_1", "Jacobian_2",
            "Hessian"}

\* A step that assembles, on an object whose mesh is that of the caller's design,
\* keeps the invariant.
LEMMA AssemblingStep ==
  ASSUME Inv, NEW c \in Controls, NEW x \in Derivatives, NEW i \in CFLs,
         NEW d \in DGType, d.volume_nodes = MeshOf[c], Known(d),
         JacobianKnown(dg) => JacobianKnown(d),
         dg' = AssembleResidual(d, x, i), design' = c, flow_CFL' = flow_CFL,
         reply'.call \in Replies
  PROVE  Inv' /\ (JacobianKnown(dg) => JacobianKnown(dg)')
<1>1. /\ dg' \in DGType
      /\ dg'.volume_nodes = MeshOf[c]
      /\ Known(dg')
      /\ JacobianKnown(dg) => JacobianKnown(dg')
  BY AssembledObject
<1> QED
  BY <1>1 DEF Inv, TypeOK, MeshFollowsDesign, Replies

\* A handler that is no solve keeps the invariant: it updates the object and then
\* assembles at most one derivative.
LEMMA NextInv ==
  ASSUME Inv, Next
  PROVE  Inv' /\ (JacobianKnown(dg) => JacobianKnown(dg)')
<1>0. /\ flow_CFL \in CFLs /\ 0 \in CFLs
      /\ {"none", "dRdW", "dRdX", "d2R"} \subseteq Derivatives
  BY FlowConstraintsAssumption DEF Inv, TypeOK, Derivatives
<1>1. ASSUME NEW s \in Solutions, NEW c \in Controls, value(s, c)
      PROVE  Inv' /\ (JacobianKnown(dg) => JacobianKnown(dg)')
  <2>1. /\ dg' = AssembleResidual(Updated(s, c), "none", 0)
        /\ design' = c
        /\ flow_CFL' = flow_CFL
    BY <1>1 DEF value
  <2>2. reply'.call = "value"
    BY <1>1 DEF value, Reply
  <2> QED
    BY <1>0, <2>1, <2>2, UpdatedObject, AssemblingStep DEF Replies
<1>2. ASSUME NEW s \in Solutions, NEW c \in Controls, applyJacobian_1(s, c)
      PROVE  Inv' /\ (JacobianKnown(dg) => JacobianKnown(dg)')
  <2>1. /\ dg' = AssembleResidual(Updated(s, c), "dRdW", flow_CFL)
        /\ design' = c
        /\ flow_CFL' = flow_CFL
    BY <1>2 DEF applyJacobian_1, With_dRdW_assembled
  <2>2. reply'.call = "Jacobian_1"
    BY <1>2 DEF applyJacobian_1, Reply
  <2> QED
    BY <1>0, <2>1, <2>2, UpdatedObject, AssemblingStep DEF Replies
<1>3. ASSUME NEW s \in Solutions, NEW c \in Controls,
             applyInverseAdjointJacobian_1(s, c)
      PROVE  Inv' /\ (JacobianKnown(dg) => JacobianKnown(dg)')
  <2>1. /\ dg' = AssembleResidual(Updated(s, c), "dRdW", flow_CFL)
        /\ design' = c
        /\ flow_CFL' = flow_CFL
    BY <1>3 DEF applyInverseAdjointJacobian_1, With_dRdW_assembled
  <2>2. reply'.call = "Transpose_1"
    BY <1>3 DEF applyInverseAdjointJacobian_1, Reply
  <2> QED
    BY <1>0, <2>1, <2>2, UpdatedObject, AssemblingStep DEF Replies
<1>4. ASSUME NEW s \in Solutions, NEW c \in Controls, applyJacobian_2(s, c)
      PROVE  Inv' /\ (JacobianKnown(dg) => JacobianKnown(dg)')
  <2>1. /\ dg' = AssembleResidual(Updated(s, c), "dRdX", flow_CFL)
        /\ design' = c
        /\ flow_CFL' = flow_CFL
    BY <1>4 DEF applyJacobian_2, With_dRdX_assembled
  <2>2. reply'.call = "Jacobian_2"
    BY <1>4 DEF applyJacobian_2, Reply
  <2> QED
    BY <1>0, <2>1, <2>2, UpdatedObject, AssemblingStep DEF Replies
<1>5. ASSUME NEW s \in Solutions, NEW c \in Controls, NEW v \in Duals,
             applyAdjointHessian(s, c, v)
      PROVE  Inv' /\ (JacobianKnown(dg) => JacobianKnown(dg)')
  <2>1. /\ dg' = AssembleResidual(SetDual(Updated(s, c), v), "d2R", flow_CFL)
        /\ design' = c
        /\ flow_CFL' = flow_CFL
    BY <1>5 DEF applyAdjointHessian, With_d2R_assembled
  <2>2. reply'.call = "Hessian"
    BY <1>5 DEF applyAdjointHessian, Reply
  <2> QED
    BY <1>0, <2>1, <2>2, UpdatedObject, DualObject, AssemblingStep DEF Replies
<1>6. ASSUME NEW s \in Solutions, NEW c \in Controls, objective_update(s, c)
      PROVE  Inv' /\ (JacobianKnown(dg) => JacobianKnown(dg)')
  BY <1>6, UpdatedObject DEF objective_update, NoReply, MeshFollowsDesign, Inv,
                             TypeOK
<1>7. ASSUME NEW i \in CFLs, set_flow_CFL(i)
      PROVE  Inv' /\ (JacobianKnown(dg) => JacobianKnown(dg)')
  BY <1>7 DEF set_flow_CFL, NoReply, MeshFollowsDesign, Inv, TypeOK
<1> QED
  BY <1>1, <1>2, <1>3, <1>4, <1>5, <1>6, <1>7 DEF Next, Evaluate

\* solve keeps what is known of the transpose and of the other derivatives: it
\* overwrites the Jacobian in place, but not its transpose.
LEMMA SolveInv ==
  ASSUME Inv, NEW c \in Controls, solve(c)
  PROVE  Inv' /\ dg'.right_hand_side
                   = EvaluatedResidual(dg'.solution, dg'.volume_nodes)
<1> USE DEF Inv, TypeOK
<1> DEFINE d == update_2(dg, c)
<1>1. /\ d \in DGType
      /\ d.volume_nodes = MeshOf[c]
      /\ Known(d)
  <2>1. MeshOf[c] \in Nodes
    BY FlowConstraintsAssumption
  <2> QED
    BY <2>1 DEF update_2, SetNodes, DGType, Known, TransposeKnown, SystemKnown,
                MeshDerivativesKnown, MeshFollowsDesign
<1>2. dg' \in SteadyStates(d)
  BY DEF solve
<1>3. reply'.call = "solve"
  BY DEF solve, Reply
<1> HIDE DEF d
<1> QED
  BY <1>1, <1>2, <1>3, SteadyStatesKnown DEF solve, MeshFollowsDesign, Known

\* The invariant of the reduced-space method.
LEMMA ReducedInvariant == ReducedSpec => []Inv
<1>1. Inv /\ [ReducedNext]_vars => Inv'
  <2> SUFFICES ASSUME Inv, [ReducedNext]_vars
               PROVE  Inv'
    OBVIOUS
  <2>1. CASE Next
    BY <2>1, NextInv
  <2>2. CASE \E c \in Controls : solve(c)
    BY <2>2, SolveInv
  <2>3. CASE UNCHANGED vars
    BY <2>3 DEF vars, Inv, TypeOK, MeshFollowsDesign
  <2> QED
    BY <2>1, <2>2, <2>3 DEF ReducedNext
<1> QED
  BY <1>1, InitInv, PTL DEF ReducedSpec, FullInv

\* The invariant of the full-space method.
LEMMA FullSpaceInvariant == Spec => []FullInv
<1>1. FullInv /\ [Next]_vars => FullInv'
  <2> SUFFICES ASSUME FullInv, [Next]_vars
               PROVE  FullInv'
    OBVIOUS
  <2>1. CASE Next
    BY <2>1, NextInv DEF FullInv
  <2>2. CASE UNCHANGED vars
    BY <2>2 DEF vars, FullInv, Inv, TypeOK, MeshFollowsDesign
  <2> QED
    BY <2>1, <2>2
<1> QED
  BY <1>1, InitInv, PTL DEF Spec

(***************************************************************************)
(* The answers.                                                            *)
(***************************************************************************)
\* A new answer tells which handler gave it.
LEMMA Answers ==
  ASSUME ReducedNext
  PROVE  /\ reply'.call = "Jacobian_1" =>
              \E s \in Solutions, c \in Controls : applyJacobian_1(s, c)
         /\ reply'.call = "Transpose_1" =>
              \E s \in Solutions, c \in Controls :
                applyInverseAdjointJacobian_1(s, c)
         /\ reply'.call = "Jacobian_2" =>
              \E s \in Solutions, c \in Controls : applyJacobian_2(s, c)
         /\ reply'.call = "Hessian" =>
              \E s \in Solutions, c \in Controls, v \in Duals :
                applyAdjointHessian(s, c, v)
         /\ reply'.call = "value" =>
              \E s \in Solutions, c \in Controls : value(s, c)
         /\ reply'.call = "solve" => \E c \in Controls : solve(c)
<1>1. ASSUME NEW s \in Solutions, NEW c \in Controls, value(s, c)
      PROVE  reply'.call = "value"
  BY <1>1 DEF value, Reply
<1>2. ASSUME NEW s \in Solutions, NEW c \in Controls, applyJacobian_1(s, c)
      PROVE  reply'.call = "Jacobian_1"
  BY <1>2 DEF applyJacobian_1, Reply
<1>3. ASSUME NEW s \in Solutions, NEW c \in Controls,
             applyInverseAdjointJacobian_1(s, c)
      PROVE  reply'.call = "Transpose_1"
  BY <1>3 DEF applyInverseAdjointJacobian_1, Reply
<1>4. ASSUME NEW s \in Solutions, NEW c \in Controls, applyJacobian_2(s, c)
      PROVE  reply'.call = "Jacobian_2"
  BY <1>4 DEF applyJacobian_2, Reply
<1>5. ASSUME NEW s \in Solutions, NEW c \in Controls, NEW v \in Duals,
             applyAdjointHessian(s, c, v)
      PROVE  reply'.call = "Hessian"
  BY <1>5 DEF applyAdjointHessian, Reply
<1>6. ASSUME NEW s \in Solutions, NEW c \in Controls, objective_update(s, c)
      PROVE  reply'.call = "none"
  BY <1>6 DEF objective_update, NoReply
<1>7. ASSUME NEW i \in CFLs, set_flow_CFL(i)
      PROVE  reply'.call = "none"
  BY <1>7 DEF set_flow_CFL, NoReply
<1>8. ASSUME NEW c \in Controls, solve(c)
      PROVE  reply'.call = "solve"
  BY <1>8 DEF solve, Reply
<1> QED
  BY <1>1, <1>2, <1>3, <1>4, <1>5, <1>6, <1>7, <1>8
     DEF ReducedNext, Next, Evaluate

\* A handler that uses the Jacobian finds what the key describes.
LEMMA JacobianAnswer ==
  ASSUME Inv, NEW s \in Solutions, NEW c \in Controls
  PROVE  LET r == With_dRdW_assembled(s, c)
             key == <<s, MeshOf[c], flow_CFL>>
         IN  /\ Describes(key, r.system_matrix_transpose)
             /\ JacobianOrSystem(key, r.system_matrix)
             /\ JacobianKnown(dg) => Describes(key, r.system_matrix)
<1>1. flow_CFL \in Int
  BY FlowConstraintsAssumption DEF Inv, TypeOK
<1> QED
  BY <1>1, UpdatedObject, AssembledJacobian DEF With_dRdW_assembled, Known

\* The transpose that is solved with, after any calls, solves included.
LEMMA TransposeStep ==
  ASSUME Inv, [ReducedNext]_vars, ServedTranspose
  PROVE  ServedTranspose'
<1>1. CASE UNCHANGED vars
  BY <1>1 DEF vars, ServedTranspose, IsJacobianAsked
<1>2. CASE ReducedNext
  <2> SUFFICES ASSUME reply'.call = "Transpose_1"
               PROVE  IsJacobianAsked(reply.value)'
    BY DEF ServedTranspose
  <2>1. PICK s \in Solutions, c \in Controls : applyInverseAdjointJacobian_1(s, c)
    BY <1>2, Answers
  <2>2. /\ reply'.sim = s /\ reply'.ctl = c
        /\ reply'.value = With_dRdW_assembled(s, c).system_matrix_transpose
        /\ flow_CFL' = flow_CFL
    BY <2>1 DEF applyInverseAdjointJacobian_1, Reply
  <2> QED
    BY <2>2, JacobianAnswer DEF IsJacobianAsked, Describes
<1> QED
  BY <1>1, <1>2

\* The Jacobian, after any calls that are no solves.
LEMMA JacobianStep ==
  ASSUME FullInv, [Next]_vars, ServedJacobian
  PROVE  ServedJacobian'
<1>1. CASE UNCHANGED vars
  BY <1>1 DEF vars, ServedJacobian, IsJacobianAsked
<1>2. CASE Next
  <2> SUFFICES ASSUME reply'.call = "Jacobian_1"
               PROVE  IsJacobianAsked(reply.value)'
    BY DEF ServedJacobian
  <2>1. PICK s \in Solutions, c \in Controls : applyJacobian_1(s, c)
    BY <1>2, Answers DEF ReducedNext
  <2>2. /\ reply'.sim = s /\ reply'.ctl = c
        /\ reply'.value = With_dRdW_assembled(s, c).system_matrix
        /\ flow_CFL' = flow_CFL
    BY <2>1 DEF applyJacobian_1, Reply
  <2> QED
    BY <2>2, JacobianAnswer DEF IsJacobianAsked, Describes, FullInv
<1> QED
  BY <1>1, <1>2

\* The same Jacobian, with solves in between.
LEMMA JacobianUpToSolverStep ==
  ASSUME Inv, [ReducedNext]_vars, ServedJacobianUpToSolver
  PROVE  ServedJacobianUpToSolver'
<1>1. CASE UNCHANGED vars
  BY <1>1 DEF vars, ServedJacobianUpToSolver, IsJacobianAsked
<1>2. CASE ReducedNext
  <2> SUFFICES ASSUME reply'.call = "Jacobian_1"
               PROVE  \/ IsJacobianAsked(reply.value)'
                      \/ /\ flow_CFL' = 0
                         /\ reply'.value.solution = reply'.sim
                         /\ reply'.value.nodes = MeshOf[reply'.ctl]
    BY DEF ServedJacobianUpToSolver
  <2>1. PICK s \in Solutions, c \in Controls : applyJacobian_1(s, c)
    BY <1>2, Answers
  <2>2. /\ reply'.sim = s /\ reply'.ctl = c
        /\ reply'.value = With_dRdW_assembled(s, c).system_matrix
        /\ flow_CFL' = flow_CFL
    BY <2>1 DEF applyJacobian_1, Reply
  <2>3. JacobianOrSystem(<<s, MeshOf[c], flow_CFL>>, reply'.value)
    BY <2>2, JacobianAnswer
  <2> QED
    BY <2>2, <2>3 DEF IsJacobianAsked, JacobianOrSystem, Describes
<1> QED
  BY <1>1, <1>2

\* The other derivatives, after any calls.
LEMMA MeshDerivativesStep ==
  ASSUME Inv, [ReducedNext]_vars, ServedMeshDerivatives
  PROVE  ServedMeshDerivatives'
<1>0. flow_CFL \in Int
  BY FlowConstraintsAssumption DEF Inv, TypeOK
<1>1. CASE UNCHANGED vars
  BY <1>1 DEF vars, ServedMeshDerivatives
<1>2. ASSUME ReducedNext, reply'.call = "Jacobian_2"
      PROVE  reply'.value = Evaluated_dRdX(reply'.sim, MeshOf[reply'.ctl])
  <2>1. PICK s \in Solutions, c \in Controls : applyJacobian_2(s, c)
    BY <1>2, Answers
  <2>2. /\ reply'.sim = s /\ reply'.ctl = c
        /\ reply'.value = AssembleResidual(Updated(s, c), "dRdX", flow_CFL).dRdXv
    BY <2>1 DEF applyJacobian_2, With_dRdX_assembled, Reply
  <2> QED
    BY <1>0, <2>2, UpdatedObject, AssembledMeshDerivatives DEF Known
<1>3. ASSUME ReducedNext, reply'.call = "Hessian"
      PROVE  reply'.value = Evaluated_d2R(reply'.sim, MeshOf[reply'.ctl], reply'.dual)
  <2>1. PICK s \in Solutions, c \in Controls, v \in Duals :
               applyAdjointHessian(s, c, v)
    BY <1>3, Answers
  <2> DEFINE d == SetDual(Updated(s, c), v)
  <2>2. /\ reply'.sim = s /\ reply'.ctl = c /\ reply'.dual = v
        /\ reply'.value = AssembleResidual(d, "d2R", flow_CFL).d2R
    BY <2>1 DEF applyAdjointHessian, With_d2R_assembled, Reply
  <2>3. /\ d \in DGType /\ Known(d)
        /\ d.solution = s /\ d.volume_nodes = MeshOf[c] /\ d.dual = v
    BY UpdatedObject, DualObject
  <2> HIDE DEF d
  <2> QED
    BY <1>0, <2>2, <2>3, AssembledMeshDerivatives DEF Known
<1> QED
  BY <1>1, <1>2, <1>3 DEF ServedMeshDerivatives

\* The residual that value and solve return.
LEMMA ResidualStep ==
  ASSUME Inv, [ReducedNext]_vars, ServedResidual
  PROVE  ServedResidual'
<1>1. CASE UNCHANGED vars
  BY <1>1 DEF vars, ServedResidual
<1>2. ASSUME ReducedNext, reply'.call = "value"
      PROVE  reply'.value = EvaluatedResidual(reply'.sim, MeshOf[reply'.ctl])
  <2>1. PICK s \in Solutions, c \in Controls : value(s, c)
    BY <1>2, Answers
  <2> DEFINE d == Updated(s, c)
  <2>2. /\ reply'.sim = s /\ reply'.ctl = c
        /\ reply'.value = AssembleResidual(d, "none", 0).right_hand_side
    BY <2>1 DEF value, Reply
  <2>3. d \in DGType /\ d.solution = s /\ d.volume_nodes = MeshOf[c]
    BY UpdatedObject
  <2> HIDE DEF d
  <2>4. AssembleResidual(d, "none", 0) = WithResidual(d)
    BY DEF AssembleResidual, AlreadyAssembled
  <2> QED
    BY <2>2, <2>3, <2>4, ResidualKnown
<1>3. ASSUME ReducedNext, reply'.call = "solve"
      PROVE  reply'.value = EvaluatedResidual(reply'.sim, MeshOf[reply'.ctl])
  <2>1. PICK c \in Controls : solve(c)
    BY <1>3, Answers
  <2>2. /\ reply'.sim = dg'.solution /\ reply'.ctl = c
        /\ reply'.value = dg'.right_hand_side
        /\ design' = c
    BY <2>1 DEF solve, Reply
  <2>3. /\ dg'.right_hand_side = EvaluatedResidual(dg'.solution, dg'.volume_nodes)
        /\ dg'.volume_nodes = MeshOf[design']
    BY <2>1, SolveInv DEF Inv, MeshFollowsDesign
  <2> QED
    BY <2>2, <2>3
<1> QED
  BY <1>1, <1>2, <1>3 DEF ServedResidual

\* No answer has been given yet.
LEMMA NoAnswer ==
  Init => ServedJacobian /\ ServedJacobianUpToSolver /\ ServedTranspose
            /\ ServedMeshDerivatives /\ ServedResidual
  BY DEF Init, NoReply, ServedJacobian, ServedJacobianUpToSolver, ServedTranspose,
         ServedMeshDerivatives, ServedResidual

(***************************************************************************)
(* The theorems.                                                           *)
(***************************************************************************)
\* The handlers of flow_constraints.cpp keep the types of the members of the DG
\* object, solves included.
THEOREM TypeCorrect == ReducedSpec => []TypeOK
  BY ReducedInvariant, PTL DEF Inv

\* The mesh is always that of the design variables which update_2 compares the
\* next ones with.
THEOREM MeshCorrect == ReducedSpec => []MeshFollowsDesign
  BY ReducedInvariant, PTL DEF Inv

\* applyJacobian_1 answers with the Jacobian at its arguments as long as the flow
\* is not solved for (it does not after a solve).
THEOREM JacobianCorrect == Spec => []ServedJacobian
  BY FullSpaceInvariant, JacobianStep, NoAnswer, PTL DEF Spec

\* With solves in between, it answers with the matrix at its arguments, which is their
\* Jacobian unless an unregularised one is taken for assembled where a solve left
\* its own combination with the mass matrix.
THEOREM JacobianUpToSolverCorrect == ReducedSpec => []ServedJacobianUpToSolver
  BY ReducedInvariant, JacobianUpToSolverStep, NoAnswer, PTL DEF ReducedSpec

\* applyInverseAdjointJacobian_1 solves with the transpose of the Jacobian at its
\* arguments, after solves too.
THEOREM TransposeCorrect == ReducedSpec => []ServedTranspose
  BY ReducedInvariant, TransposeStep, NoAnswer, PTL DEF ReducedSpec

\* The handlers that use the mesh sensitivities or the second derivatives use what
\* the cells give at their arguments, after solves too: the whole derivatives
\* wherever the cells can be evaluated, the terms before the throw elsewhere.
THEOREM MeshDerivativesCorrect == ReducedSpec => []ServedMeshDerivatives
  BY ReducedInvariant, MeshDerivativesStep, NoAnswer, PTL DEF ReducedSpec

\* value and solve return the residual of the solution and mesh they leave.
THEOREM ResidualCorrect == ReducedSpec => []ServedResidual
  BY ReducedInvariant, ResidualStep, NoAnswer, PTL DEF ReducedSpec

\* A run of the full-space method is a run of the reduced-space one that never
\* solves, so what is proved of the latter holds of the former.
THEOREM FullSpaceIsReduced == Spec => ReducedSpec
<1>1. [Next]_vars => [ReducedNext]_vars
  BY DEF ReducedNext
<1> QED
  BY <1>1, PTL DEF Spec, ReducedSpec
=============================================================================
