-------------------------- MODULE ImplicitODESolver --------------------------
(***************************************************************************)
(* The implicit solver (ode_solver/implicit_ode_solver.cpp) driven to a    *)
(* steady state by pseudo-time steps (steady_state in                      *)
(* ode_solver/ode_solver_base.cpp).                                        *)
(*                                                                         *)
(* A solution has a residual norm, an integer multiple of some small unit  *)
(* or NaN.  The direction that a linear solve returns is the function      *)
(* "ray": ray[k] is the old solution plus 2^-k times the update, for the k *)
(* the line search can try, and ray[Over] the solution plus                *)
(* 1 + 2^-MaxLine times the update, at which the second search starts,     *)
(* since it adds the full update to the last trial of the first.           *)
(*                                                                         *)
(* The time step factors have their default, no ramping, so a pseudo-time  *)
(* step's CFL is CFL_factor times a constant.  CFL_factor is a power of    *)
(* two, kept as its exponent.                                              *)
(***************************************************************************)
EXTENDS SteadyState

CONSTANTS
  MaxLine,         \* maxline, 10 in the code
  MaxIterations,   \* nonlinear_max_iterations
  CFLFloor,        \* the largest exponent with 2^e <= 1e-2, -7 in the code
  InverseCFL,      \* 1 / CFL for each exponent of CFL_factor, in some unit
  Norms,           \* the norms of the residuals
  NaN,
  Unit,            \* the norm 1.0
  InverseTolerance,\* 1 / nonlinear_steady_residual_tolerance
  DivergedNorm,    \* the norm 1e5
  OnesNorm         \* the norm of the residual where the cells throw

ASSUME ImplicitODESolverAssumption ==
  /\ MaxLine \in Nat \ {0}
  /\ MaxIterations \in Nat
  /\ CFLFloor \in Int /\ CFLFloor < 0
  /\ InverseCFL \in [-MaxIterations .. MaxIterations -> Nat]
  /\ NaN \notin Int
  /\ Norms \subseteq Nat \cup {NaN}
  /\ {Unit, InverseTolerance, DivergedNorm, OnesNorm} \subseteq Nat \ {0}
  /\ Unit <= DivergedNorm

Over   == MaxLine + 1
Trials == 0 .. Over

VARIABLES
  given,                 \* the object as it was given; no step reads it
  norm,                  \* the residual norm of a solution on this mesh
  dg,
  pc,                    \* where the solver is
  initial_solution, initial_residual_norm,
  residual_norm,
  convergence_error,
  current_iteration,
  CFL_factor,            \* its exponent
  weight,                \* the inverse of the step being made
  old_solution, initial_residual, ray, iline   \* of the line search

steady_vars == <<initial_solution, initial_residual_norm, residual_norm,
                 convergence_error>>
search_vars == <<old_solution, initial_residual, ray, iline>>

\* what no step changes
problem == <<given, norm>>
vars == <<problem, dg, pc, steady_vars, current_iteration, CFL_factor, weight,
          search_vars>>

(***************************************************************************)
(* Norms.  A comparison with NaN is false.                                 *)
(***************************************************************************)
Exceeds(a, b) == a # NaN /\ b # NaN /\ a > b

Twice(a) == IF a = NaN THEN NaN ELSE 2 * a

\* get_residual_l2norm
ResidualNorm(d) == IF d.right_hand_side.kind = "residual"
                   THEN norm[d.right_hand_side.solution] ELSE OnesNorm

\* residual_norm > nonlinear_steady_residual_tolerance
AboveTolerance(a) == a # NaN /\ a * InverseTolerance > Unit

\* residual_norm_decrease > nonlinear_steady_residual_tolerance
AboveRelativeTolerance(a) ==
  a # NaN /\ initial_residual_norm # NaN
          /\ a * InverseTolerance > initial_residual_norm

\* the solutions whose cells can be evaluated on a mesh
Evaluable(n) == {s \in Solutions : <<s, n>> \notin Invalid}

(***************************************************************************)
(* The object is new, or a caller changed its solution after an earlier    *)
(* solve.                                                                  *)
(***************************************************************************)
Init ==
  /\ \E n \in Nodes, s \in Solutions :
       LET new == SetSolution(AllocatedDG(n), s)
       IN  \/ dg = new
           \/ \E t \in Solutions : dg = ReturnedAfterSteps(new, t, s)
  /\ norm \in [Evaluable(dg.volume_nodes) -> Norms]
  /\ given = dg
  /\ pc = "call"
  /\ initial_solution = dg.solution
  /\ initial_residual_norm = 0
  /\ residual_norm = 0
  /\ convergence_error = TRUE
  /\ current_iteration = 0
  /\ CFL_factor = 0
  /\ weight = 0
  /\ old_solution = None
  /\ initial_residual = 0
  /\ ray = [k \in Trials |-> None]
  /\ iline = 0

\* Fault: the mass matrix is not evaluated again.
CallWithOldMassMatrix ==
  /\ pc = "call"
  /\ dg' = WithResidual(dg)
  /\ initial_residual_norm' = ResidualNorm(dg')
  /\ residual_norm' = initial_residual_norm'
  /\ convergence_error' = AboveTolerance(residual_norm')
  /\ pc' = "head"
  /\ UNCHANGED <<problem, initial_solution, current_iteration, CFL_factor,
                 weight, search_vars>>

\* allocate_ode_system, and the residual and the norms before the first iteration.
Call ==
  /\ pc = "call"
  /\ dg' = ReturnedAtOnce(dg)
  /\ initial_residual_norm' = ResidualNorm(dg')
  /\ residual_norm' = initial_residual_norm'
  /\ convergence_error' = AboveTolerance(residual_norm')
  /\ pc' = "head"
  /\ UNCHANGED <<problem, initial_solution, current_iteration, CFL_factor, weight,
                 search_vars>>

(***************************************************************************)
(* step_in_time.                                                           *)
(***************************************************************************)
\* Fault: one iteration too many.
ContinuesOnceMore ==
  /\ current_iteration <= MaxIterations
  /\ convergence_error
  /\ Exceeds(DivergedNorm, residual_norm)
  /\ CFL_factor > CFLFloor

\* The loop condition of steady_state; the relative tolerance, at most 1, is
\* part of convergence_error after the first iteration.
Continues ==
  /\ current_iteration < MaxIterations
  /\ convergence_error
  /\ Exceeds(DivergedNorm, residual_norm)
  /\ CFL_factor > CFLFloor

Assemble ==
  /\ pc = "head"
  /\ Continues
  /\ weight' = InverseCFL[CFL_factor]
  /\ dg' = LinearSystem(dg, weight')
  /\ pc' = "solve"
  /\ UNCHANGED <<problem, steady_vars, current_iteration, CFL_factor, search_vars>>

\* solve_linear, and the first trial of the line search
Solve ==
  /\ pc = "solve"
  /\ ray' \in [Trials -> Solutions]
  /\ old_solution' = dg.solution
  /\ initial_residual' = ResidualNorm(dg)
  /\ iline' = 0
  /\ dg' = WithResidual(SetSolution(dg, ray'[0]))
  /\ pc' = "first search"
  /\ UNCHANGED <<problem, steady_vars, current_iteration, CFL_factor, weight>>

(***************************************************************************)
(* linesearch: a first search for a residual that is no larger, a second   *)
(* for one that is at most twice as large.                                 *)
(***************************************************************************)
\* Fault: the second search takes its first trial whatever its residual is.
RejectsOnlyFirst ==
  pc = "first search" /\ Exceeds(ResidualNorm(dg), initial_residual)

Rejects ==
  \/ pc = "first search"  /\ Exceeds(ResidualNorm(dg), initial_residual)
  \/ pc = "second search" /\ Exceeds(ResidualNorm(dg), Twice(initial_residual))

\* Fault: the trials are not counted.
ShortenForever ==
  /\ pc \in {"first search", "second search"}
  /\ iline < MaxLine
  /\ Rejects
  /\ dg' = WithResidual(SetSolution(dg, ray[iline]))
  /\ UNCHANGED <<problem, pc, steady_vars, current_iteration, CFL_factor,
                 weight, search_vars>>

Shorten ==
  /\ pc \in {"first search", "second search"}
  /\ iline < MaxLine
  /\ Rejects
  /\ iline' = iline + 1
  /\ dg' = WithResidual(SetSolution(dg, ray[iline']))
  /\ UNCHANGED <<problem, pc, steady_vars, current_iteration, CFL_factor, weight,
                 old_solution, initial_residual, ray>>

\* The index tells whether the first search succeeded, so its last trial counts
\* as a failure whatever its residual is.
SearchAgain ==
  /\ pc = "first search"
  /\ iline = MaxLine
  /\ iline' = 0
  /\ dg' = WithResidual(SetSolution(dg, ray[Over]))
  /\ pc' = "second search"
  /\ UNCHANGED <<problem, steady_vars, current_iteration, CFL_factor, weight,
                 old_solution, initial_residual, ray>>

\* What is local to the step and to the line search ends with them.
EndOfStep ==
  /\ current_iteration' = current_iteration + 1
  /\ ray' = [k \in Trials |-> None]
  /\ old_solution' = None
  /\ initial_residual' = 0
  /\ iline' = 0
  /\ weight' = 0
  /\ pc' = "stepped"
  /\ UNCHANGED <<problem, steady_vars>>

Accept ==
  /\ pc \in {"first search", "second search"}
  /\ iline < MaxLine
  /\ ~Rejects
  /\ CFL_factor' = IF pc = "first search" /\ iline = 0
                   THEN CFL_factor + 1 ELSE CFL_factor
  /\ UNCHANGED dg
  /\ EndOfStep

GiveUp ==
  /\ pc = "second search"
  /\ iline = MaxLine
  /\ CFL_factor' = CFL_factor - 1
  /\ dg' = SetSolution(dg, old_solution)
  /\ EndOfStep

(***************************************************************************)
(* The rest of an iteration of steady_state.                               *)
(***************************************************************************)
\* Fault: the residual vector is taken as the line search left it.
EndOfIterationWithOldResidual ==
  /\ pc = "stepped"
  /\ residual_norm' = ResidualNorm(dg)
  /\ convergence_error' = /\ AboveTolerance(residual_norm')
                          /\ AboveRelativeTolerance(residual_norm')
  /\ pc' = "head"
  /\ UNCHANGED <<dg, problem, initial_solution, initial_residual_norm,
                 current_iteration, CFL_factor, weight, search_vars>>

EndOfIteration ==
  /\ pc = "stepped"
  /\ dg' = WithResidual(dg)
  /\ residual_norm' = ResidualNorm(dg')
  /\ convergence_error' = /\ AboveTolerance(residual_norm')
                          /\ AboveRelativeTolerance(residual_norm')
  /\ pc' = "head"
  /\ UNCHANGED <<problem, initial_solution, initial_residual_norm,
                 current_iteration, CFL_factor, weight, search_vars>>

\* Fault: a solution that diverged is kept.
ReturnDiverged ==
  /\ pc = "head"
  /\ ~Continues
  /\ pc' = "done"
  /\ UNCHANGED <<dg, problem, steady_vars, current_iteration, CFL_factor,
                 weight, search_vars>>

\* A solution is not kept if it diverged, or if the line searches failed; in
\* the latter case the residual vector is shifted by 1.0.
Return ==
  /\ pc = "head"
  /\ ~Continues
  /\ dg' = IF CFL_factor <= CFLFloor
           THEN [SetSolution(dg, initial_solution)
                   EXCEPT !.right_hand_side.kind = "shifted"]
           ELSE IF residual_norm = NaN \/ Exceeds(residual_norm, DivergedNorm)
           THEN SetSolution(dg, initial_solution)
           ELSE dg
  /\ pc' = "done"
  /\ UNCHANGED <<problem, steady_vars, current_iteration, CFL_factor, weight,
                 search_vars>>

Next ==
  \/ Call \/ Assemble \/ Solve \/ Shorten \/ SearchAgain \/ Accept \/ GiveUp
  \/ EndOfIteration \/ Return

Spec == Init /\ [][Next]_vars

\* The program is sequential: while it can take a step it does.
FairSpec == Spec /\ WF_vars(Next)

-----------------------------------------------------------------------------
(***************************************************************************)
(* Properties.                                                             *)
(***************************************************************************)
mesh == dg.volume_nodes

\* The type invariant.
TypeOK ==
  /\ norm \in [Evaluable(mesh) -> Norms]
  /\ pc \in {"call", "head", "solve", "first search", "second search",
             "stepped", "done"}
  /\ dg.solution \in Solutions
  /\ initial_solution \in Solutions
  /\ old_solution \in Solutions \cup {None}
  /\ {initial_residual_norm, residual_norm, initial_residual}
       \subseteq Norms \cup {0, OnesNorm}
  /\ convergence_error \in BOOLEAN
  /\ current_iteration \in 0 .. MaxIterations
  /\ CFL_factor \in -MaxIterations .. MaxIterations
  /\ weight \in Nat
  /\ ray \in [Trials -> Solutions \cup {None}]
  /\ iline \in 0 .. MaxLine

NormAt(s) == IF s \in Evaluable(mesh) THEN norm[s] ELSE OnesNorm

\* The right-hand side of the linear system is the residual of the solution the
\* step starts from, although step_in_time may find the Jacobian already
\* assembled and then does not evaluate it.
SystemHasResidual ==
  pc = "solve" => dg.right_hand_side = EvaluatedResidual(dg.solution, mesh)

\* A line search never leaves a solution whose residual is more than twice that
\* of the solution it started from.
SearchBoundsResidual ==
  [][pc' = "stepped" /\ dg'.solution # old_solution =>
       ~Exceeds(NormAt(dg'.solution), Twice(NormAt(old_solution)))]_vars

\* steady_state returns 0 only with a solution that meets one of its tolerances:
\* testing/grid_study.cpp counts the other returns as failures to converge.
ConvergedReturn ==
  pc = "done" /\ ~convergence_error =>
    \/ NormAt(dg.solution) # NaN /\ ~AboveTolerance(NormAt(dg.solution))
    \/ NormAt(dg.solution) # NaN /\ ~AboveRelativeTolerance(NormAt(dg.solution))

\* The solution that is returned has not diverged and is not NaN, unless it is
\* the one that was given.
ReturnsUsableSolution ==
  pc = "done" =>
    \/ dg.solution = initial_solution
    \/ NormAt(dg.solution) # NaN /\ NormAt(dg.solution) <= DivergedNorm

\* To a caller that sees steady_state as one step it makes one of the steps of
\* SteadyState: nothing else of the object is changed, and what its last assembly
\* left in it is known.
ReturnsSteadyState ==
  pc = "done" =>
    \E d \in SteadyStates(given) : EqualUpToWeights(WithResidual(dg), d)

\* steady_state ends.
Terminates == <>(pc = "done")
=============================================================================
