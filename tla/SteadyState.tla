----------------------------- MODULE SteadyState -----------------------------
(***************************************************************************)
(* What a call of steady_state with the implicit solver                    *)
(* (ode_solver/ode_solver_base.cpp) may do to the DG object, for callers   *)
(* that do not look inside: FlowConstraints makes this step, and           *)
(* ImplicitODESolver is checked to make no other.                          *)
(*                                                                         *)
(* The call re-evaluates the mass matrix and may return before its first   *)
(* step.  Otherwise its last step assembled the Jacobian at some solution  *)
(* s, with no mass matrix, replaced it in place by the matrix of the       *)
(* pseudo-time step, and left a solution that may be another.              *)
(***************************************************************************)
EXTENDS DGBase

\* step_in_time's use of the object up to the linear solve; "weight" is the
\* inverse of the time step.
LinearSystem(d, weight) ==
  AddMass(NegateSystemMatrix(AssembleResidual(d, "dRdW", 0)), weight)

ReturnedAtOnce(d) == WithResidual(EvaluateMassMatrices(d))

\* The object after steps of which the last was made at s, with the residual
\* of the solution it returned.
ReturnedAfterSteps(d, s, returned) ==
  WithResidual(
    SetSolution(
      LinearSystem(SetSolution(EvaluateMassMatrices(d), s), 1), returned))

SteadyStates(d) ==
  {ReturnedAtOnce(d)} \cup
  {ReturnedAfterSteps(d, s, returned) : s, returned \in Solutions}

\* Equal but for the weights with which the Jacobian and the mass matrix enter
\* the matrix that was changed in place.
EqualUpToWeights(d, e) ==
  /\ d.system_matrix.solution = e.system_matrix.solution
  /\ d.system_matrix.nodes = e.system_matrix.nodes
  /\ [d EXCEPT !.system_matrix = e.system_matrix] = e
=============================================================================
