--------------------------- MODULE FlowConstraints ---------------------------
(***************************************************************************)
(* The flow equations as an optimizer's equality constraint                *)
(* (optimization/flow_constraints.cpp), sharing the DG object with the     *)
(* objective (optimization/rol_objective.cpp).                             *)
(*                                                                         *)
(* The optimizer calls the handlers in any order with any arguments.  Each *)
(* handler writes its arguments into the shared object, asks it for a      *)
(* derivative, which the object may believe it has already, and answers    *)
(* with what the object then holds.  "reply" is that answer, next to the   *)
(* arguments it was asked for.                                             *)
(***************************************************************************)
EXTENDS SteadyState

CONSTANTS
  Controls,     \* the values of the design variables
  MeshOf,       \* the mesh each value of the design variables deforms to
  CFLs          \* the inverses of the values flow_CFL_ is given, with 0 for 0.0

ASSUME FlowConstraintsAssumption ==
  /\ MeshOf \in [Controls -> Nodes]
  /\ CFLs \subseteq Int
  /\ 0 \in CFLs

VARIABLES
  dg,                 \* the shared DG object
  design,             \* the design variables of the design parameterization
  flow_CFL,           \* flow_CFL_, as the coefficient of the mass matrix
  reply               \* the answer of the last call

vars == <<dg, design, flow_CFL, reply>>

NoReply == [call |-> "none"]

Reply(call, s, c, v, value) ==
  [call |-> call, sim |-> s, ctl |-> c, dual |-> v, value |-> value]

(***************************************************************************)
(* The pieces the handlers are made of.                                    *)
(***************************************************************************)
update_1(d, s) == SetSolution(d, s)

\* Fault: the comparison that saves the deformation of the mesh is inverted.
MeshUpdateInverted(d, c) == IF c # design THEN d ELSE SetNodes(d, MeshOf[c])

\* update_mesh_from_design_variables leaves the mesh alone when the design
\* variables are those it has.
update_2(d, c) == IF c = design THEN d ELSE SetNodes(d, MeshOf[c])

Updated(s, c) == update_2(update_1(dg, s), c)

With_dRdW_assembled(s, c) == AssembleResidual(Updated(s, c), "dRdW", flow_CFL)
With_dRdX_assembled(s, c) == AssembleResidual(Updated(s, c), "dRdX", flow_CFL)

\* The dual is set before update_1 and update_2 in applyAdjointHessian_11 and
\* after them in the other three; none of these reads what another writes.
With_d2R_assembled(s, c, v) ==
  AssembleResidual(SetDual(Updated(s, c), v), "d2R", flow_CFL)

(***************************************************************************)
(* The constructor, on an object that no implicit solver has used.         *)
(***************************************************************************)
Init ==
  \E s \in Solutions, c \in Controls :
    /\ dg = SetSolution(AllocatedDG(MeshOf[c]), s)
    /\ design = c
    /\ flow_CFL = 0
    /\ reply = NoReply

(***************************************************************************)
(* Handlers that evaluate.                                                 *)
(***************************************************************************)
value(s, c) ==
  /\ dg' = AssembleResidual(Updated(s, c), "none", 0)
  /\ design' = c
  /\ reply' = Reply("value", s, c, None, dg'.right_hand_side)
  /\ UNCHANGED flow_CFL

\* applyJacobian_1, applyAdjointJacobian_1 and applyInverseJacobian_1 multiply
\* by, or solve with, the system matrix.
applyJacobian_1(s, c) ==
  /\ dg' = With_dRdW_assembled(s, c)
  /\ design' = c
  /\ reply' = Reply("Jacobian_1", s, c, None, dg'.system_matrix)
  /\ UNCHANGED flow_CFL

applyInverseAdjointJacobian_1(s, c) ==
  /\ dg' = With_dRdW_assembled(s, c)
  /\ design' = c
  /\ reply' = Reply("Transpose_1", s, c, None, dg'.system_matrix_transpose)
  /\ UNCHANGED flow_CFL

\* applyJacobian_2 and applyAdjointJacobian_2
applyJacobian_2(s, c) ==
  /\ dg' = With_dRdX_assembled(s, c)
  /\ design' = c
  /\ reply' = Reply("Jacobian_2", s, c, None, dg'.dRdXv)
  /\ UNCHANGED flow_CFL

\* applyAdjointHessian_11, _12, _21 and _22
applyAdjointHessian(s, c, v) ==
  /\ dg' = With_d2R_assembled(s, c, v)
  /\ design' = c
  /\ reply' = Reply("Hessian", s, c, v, dg'.d2R)
  /\ UNCHANGED flow_CFL

(***************************************************************************)
(* solve: update_2, the implicit solver's steady_state from the solution   *)
(* the object holds, and a residual, which is the one of SteadyStates.     *)
(***************************************************************************)
\* Fault: the constraint that is returned is the residual the solver began with.
SolveReturnsFirstResidual(c) ==
  /\ design' = c
  /\ dg' \in SteadyStates(update_2(dg, c))
  /\ reply' = Reply("solve", dg'.solution, c, None,
                    EvaluatedResidual(dg.solution, dg'.volume_nodes))
  /\ UNCHANGED flow_CFL

solve(c) ==
  /\ design' = c
  /\ dg' \in SteadyStates(update_2(dg, c))
  /\ reply' = Reply("solve", dg'.solution, c, None, dg'.right_hand_side)
  /\ UNCHANGED flow_CFL

(***************************************************************************)
(* The other users of the same object.                                     *)
(***************************************************************************)
\* update of rol_objective.cpp, which every evaluation of the objective calls
objective_update(s, c) ==
  /\ dg' = Updated(s, c)
  /\ design' = c
  /\ reply' = NoReply
  /\ UNCHANGED flow_CFL

\* full_space_step.cpp writes flow_CFL_ between the calls it makes.
set_flow_CFL(i) ==
  /\ flow_CFL' = i
  /\ reply' = NoReply
  /\ UNCHANGED <<dg, design>>

Evaluate ==
  \E s \in Solutions, c \in Controls :
    \/ value(s, c)
    \/ applyJacobian_1(s, c)
    \/ applyInverseAdjointJacobian_1(s, c)
    \/ applyJacobian_2(s, c)
    \/ objective_update(s, c)
    \/ \E v \in Duals : applyAdjointHessian(s, c, v)

Next ==
  \/ Evaluate
  \/ \E i \in CFLs : set_flow_CFL(i)

\* The full-space method: the flow is never solved for.
Spec == Init /\ [][Next]_vars

\* The reduced-space method solves for the flow at each design.
ReducedNext == Next \/ \E c \in Controls : solve(c)

ReducedSpec == Init /\ [][ReducedNext]_vars

-----------------------------------------------------------------------------
(***************************************************************************)
(* Properties.                                                             *)
(***************************************************************************)
\* The type invariant: the handlers' values are those of the C++ members.
TypeOK ==
  /\ dg \in DGType
  /\ design \in Controls
  /\ flow_CFL \in CFLs
  /\ reply.call \in {"none", "value", "solve", "Jacobian_1", "Transpose_1",
                     "Jacobian_2", "Hessian"}

\* The matrix is the Jacobian at the arguments the caller gave, regularised
\* with the CFL in force, whatever mesh the mass matrix is of.
IsJacobianAsked(A) ==
  A = EvaluatedMatrix(reply.sim, MeshOf[reply.ctl], flow_CFL, A.mass_nodes)

\* applyJacobian_1 and its siblings answer with the Jacobian at their
\* arguments, whichever calls of the optimizer came before and whether or not
\* assemble_residual found it "already assembled".
ServedJacobian ==
  reply.call = "Jacobian_1" => IsJacobianAsked(reply.value)

\* With solves in between, the matrix of applyJacobian_1 is still that of its
\* caller's arguments, but for one exception: an unregularised Jacobian is taken
\* for assembled where a solve made its last step, and is then, of the caller's
\* solution and mesh, whatever combination with the mass matrix the solver made.
ServedJacobianUpToSolver ==
  reply.call = "Jacobian_1" =>
    \/ IsJacobianAsked(reply.value)
    \/ /\ flow_CFL = 0
       /\ reply.value.solution = reply.sim
       /\ reply.value.nodes = MeshOf[reply.ctl]

\* applyInverseAdjointJacobian_1 solves with the transpose that was stored when
\* the Jacobian was assembled: it is the one of the caller's arguments.
ServedTranspose ==
  reply.call = "Transpose_1" => IsJacobianAsked(reply.value)

\* The mesh sensitivities and the second derivatives, each with its own record
\* of where it was last assembled, are what the cells give at the caller's
\* arguments: those derivatives, the second ones contracted with the caller's
\* dual, wherever the cells can be evaluated.  Where they cannot, the caller is
\* served what the cells before the one that threw have added at its own
\* arguments, and never anything of another solution, mesh or dual.
ServedMeshDerivatives ==
  /\ reply.call = "Jacobian_2" =>
       reply.value = Evaluated_dRdX(reply.sim, MeshOf[reply.ctl])
  /\ reply.call = "Hessian" =>
       reply.value = Evaluated_d2R(reply.sim, MeshOf[reply.ctl], reply.dual)

\* What dg_base.hpp says of dRdXv and of the second derivatives: they are the
\* derivatives of the residual, of all its cells.
MeshDerivativesAreComplete ==
  reply.call \in {"Jacobian_2", "Hessian"} => reply.value.complete

\* value and solve return the residual of the solution and of the mesh their
\* caller ends up with; rol_objective.cpp trusts the norm that solve returns.
ServedResidual ==
  reply.call \in {"value", "solve"} =>
    reply.value = EvaluatedResidual(reply.sim, MeshOf[reply.ctl])

\* The mesh of the DG object is the one of the design variables that the
\* parameterization compares the next ones with, whoever moved it last: without
\* that, update_mesh_from_design_variables would keep a mesh that is not theirs.
MeshFollowsDesign == dg.volume_nodes = MeshOf[design]
=============================================================================
