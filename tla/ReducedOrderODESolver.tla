------------------------ MODULE ReducedOrderODESolver ------------------------
(***************************************************************************)
(* The steady solve of a reduced-order model, with the Galerkin or the     *)
(* Petrov-Galerkin test basis (ode_solver/reduced_order_ode_solver.cpp).   *)
(*                                                                         *)
(* A step solves for an update in the POD basis and searches along it in   *)
(* up to four cases.  ray[k] is the old solution plus 2^-k times the       *)
(* update.  The second and third cases begin with the last trial plus or   *)
(* minus its update, which was shortened maxline times and is not made     *)
(* longer: at twice the shortest step, ray[maxline - 1], and, where the    *)
(* code says that it reverses the direction, at the old solution up to the *)
(* rounding of adding a step and taking it away, ray[Back].  The residual  *)
(* there is the initial one, which the third case accepts: it tries        *)
(* nothing else, and there is no fourth.                                   *)
(*                                                                         *)
(* The norm of a residual is that of its projection on the test basis of   *)
(* the step, a number or NaN.                                              *)
(***************************************************************************)
EXTENDS DGBase

CONSTANTS
  maxline,         \* 10 in the code
  MaxIterations,   \* nonlinear_max_iterations
  Norms,           \* the norms of the projected residuals
  Tolerance,       \* reduced_residual_tolerance
  Unit,            \* the norm 1
  NaN

ASSUME ReducedOrderAssumption ==
  /\ maxline \in Nat \ {0} /\ MaxIterations \in Nat
  /\ NaN \notin Int /\ Norms \subseteq Nat \cup {NaN}
  /\ Tolerance \in Nat /\ Unit \in Nat /\ Tolerance < Unit

VARIABLES
  dg,
  pc,                \* "call", "head", "search" or "done"
  residual_norm, current_iteration,
  ray, projected,    \* the line of this step; the norm at each solution
  old_solution,
  case,              \* of the search, from 1 to 3
  iline

step_vars == <<ray, projected, old_solution, case, iline>>
vars == <<dg, pc, residual_norm, current_iteration, step_vars>>

Back   == maxline + 1
Trials == 0 .. Back

Exceeds(a, b) == a # NaN /\ b # NaN /\ a > b
Twice(a) == IF a = NaN THEN NaN ELSE 2 * a

new_residual == projected[dg.solution]
initial_residual == projected[old_solution]

NoRay == [k \in Trials |-> None]
NoNorms == [s \in Solutions |-> Unit]

Init ==
  /\ \E n \in Nodes, s \in Solutions : dg = SetSolution(AllocatedDG(n), s)
  /\ pc = "call"
  /\ residual_norm = Unit
  /\ current_iteration = 0
  /\ ray = NoRay /\ projected = NoNorms
  /\ old_solution = None /\ case = 0 /\ iline = 0

\* allocate_ode_system projects the initial condition on the basis; steady_state
\* assembles the Jacobian there, for the initial norm that it prints.
Call ==
  /\ pc = "call"
  /\ \E s \in Solutions : dg' = AssembleResidual(SetSolution(dg, s), "dRdW", 0)
  /\ pc' = "head"
  /\ UNCHANGED <<residual_norm, current_iteration, step_vars>>

\* Fault: the residual is not assembled at the trial.
TryWithOldResidual(d, k) == SetSolution(d, ray'[k])

Try(d, k) == WithResidual(SetSolution(d, ray'[k]))

Continues ==
  Exceeds(residual_norm, Tolerance) /\ current_iteration < MaxIterations

\* The linear system, its solution, and the full step along it.
Step ==
  /\ pc = "head"
  /\ Continues
  /\ projected' \in [Solutions -> Norms]
  /\ ray' \in [Trials -> Solutions]
  /\ projected'[ray'[Back]] = projected'[dg.solution]
  /\ old_solution' = dg.solution
  /\ case' = 1 /\ iline' = 0
  /\ dg' = Try(NegateSystemMatrix(AssembleResidual(dg, "dRdW", 0)), 0)
  /\ pc' = "search"
  /\ UNCHANGED <<residual_norm, current_iteration>>

(***************************************************************************)
(* The searches: the first for a residual that is no larger, the others    *)
(* for one that is at most twice as large.                                 *)
(***************************************************************************)
\* Fault: the second case takes any residual.
RejectsInFirstCase == case = 1 /\ Exceeds(new_residual, initial_residual)

Rejects ==
  Exceeds(new_residual, IF case = 1 THEN initial_residual ELSE Twice(initial_residual))

Shorten ==
  /\ pc = "search" /\ case < 3 /\ iline < maxline /\ Rejects
  /\ iline' = iline + 1
  /\ UNCHANGED <<pc, residual_norm, current_iteration, ray, projected,
                 old_solution, case>>
  /\ dg' = Try(dg, iline')

\* Fault: the third case does not take the update away.
NextCaseNotReversed ==
  /\ pc = "search" /\ iline = maxline
  /\ case' = case + 1 /\ iline' = 0
  /\ UNCHANGED <<pc, residual_norm, current_iteration, ray, projected,
                 old_solution>>
  /\ dg' = Try(dg, maxline - 1)

\* The next case is told by the counter, so that a last trial that is good is
\* no success.
NextCase ==
  /\ pc = "search" /\ iline = maxline
  /\ case' = case + 1 /\ iline' = 0
  /\ UNCHANGED <<pc, residual_norm, current_iteration, ray, projected,
                 old_solution>>
  /\ dg' = Try(dg, IF case = 1 THEN maxline - 1 ELSE Back)

\* What is local to the step ends with it.
Accept ==
  /\ pc = "search" /\ iline < maxline /\ ~Rejects
  /\ residual_norm' = new_residual
  /\ current_iteration' = current_iteration + 1
  /\ pc' = "head"
  /\ ray' = NoRay /\ projected' = NoNorms
  /\ old_solution' = None /\ case' = 0 /\ iline' = 0
  /\ UNCHANGED dg

\* steady_state returns 0, whatever the norm.
Return ==
  /\ pc = "head"
  /\ ~Continues
  /\ pc' = "done"
  /\ UNCHANGED <<dg, residual_norm, current_iteration, step_vars>>

Next == Call \/ Step \/ Shorten \/ NextCase \/ Accept \/ Return

Spec == Init /\ [][Next]_vars

\* The program is sequential: while it can take a step it does.
FairSpec == Spec /\ WF_vars(Next)

-----------------------------------------------------------------------------
(***************************************************************************)
(* Properties.                                                             *)
(***************************************************************************)
\* The type invariant.
TypeOK ==
  /\ dg \in DGType
  /\ pc \in {"call", "head", "search", "done"}
  /\ residual_norm \in Norms \cup {Unit}
  /\ current_iteration \in 0 .. MaxIterations
  /\ ray \in [Trials -> Solutions \cup {None}]
  /\ projected \in [Solutions -> Norms \cup {Unit}]
  /\ old_solution \in Solutions \cup {None}
  /\ case \in 0 .. 3 /\ iline \in 0 .. maxline

\* A step never leaves a solution whose projected residual is more than twice
\* that of the solution it started from, whichever case took it.
SearchBoundsResidual ==
  [][pc = "search" /\ pc' = "head" =>
       /\ residual_norm' = projected[dg'.solution]
       /\ ~Exceeds(residual_norm', Twice(projected[old_solution]))]_vars

\* The right-hand side that the next step projects is the residual of the solution
\* it starts from, although the step may find the Jacobian already assembled and
\* then evaluates nothing.
ResidualIsOfSolution ==
  pc # "call" =>
    dg.right_hand_side = EvaluatedResidual(dg.solution, dg.volume_nodes)

\* The third case, "in the other direction", begins at the solution the step started
\* from and takes it at once: the code for a fourth case, and for the failure of all
\* of them, is never reached.
ThirdCaseAccepts == pc = "search" /\ case = 3 => iline < maxline /\ ~Rejects

\* steady_state ends: a search comes to an end in the third case at the latest.
Terminates == <>(pc = "done")
=============================================================================
