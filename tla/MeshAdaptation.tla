---------------------------- MODULE MeshAdaptation ----------------------------
(***************************************************************************)
(* A steady run of the flow solver: polynomial ramping, the steady solve,  *)
(* and the cycles of mesh adaptation (flow_solver.cpp,                     *)
(* ode_solver_base.cpp, mesh_adaptation.cpp, mesh_error_estimate.cpp).     *)
(*                                                                         *)
(* An adaptation cycle checks that the last solve converged, estimates the *)
(* error of every cell, refines the cells of the largest errors and solves *)
(* again.  The goal-oriented estimate moves the one DG object that all     *)
(* share to a discretization of one degree more, solves the adjoint of a   *)
(* functional there, and moves it back; so the matrices, the functional    *)
(* and their records live through several reallocations.                   *)
(*                                                                         *)
(* A discretization is the function from the active cells to their         *)
(* degrees.  The cells are those of a bisected interval: <<level, index>>. *)
(* A solution is the pair of its values and the discretization its vector  *)
(* is of; the values are those of an initial condition, of an iterate of a *)
(* solver or of a steady state, and of the discretization they were found  *)
(* on.                                                                     *)
(***************************************************************************)
EXTENDS Integers, FiniteSets, FiniteSetsExt

CONSTANTS
  Cells,        \* the cells of the mesh as generated
  MaxDegree,    \* max_poly_degree_for_adaptation
  AdaptationParameters,  \* the parameters considered
  MaxLevel,     \* bound: no cell is split more often
  MaxFlagged,   \* bound: how many cells one cycle flags
  None

ASSUME AdaptationAssumption ==
  /\ Cells \subseteq {0} \X Nat
  /\ MaxDegree \in Nat /\ MaxLevel \in Nat
  /\ AdaptationParameters \subseteq
       [type: {"h", "p", "hp"}, goal: BOOLEAN, ramping: BOOLEAN,
        poly_degree: 0 .. MaxDegree, cycles: Nat]

VARIABLES
  parameters,       \* the adaptation parameters of this run
  pc,               \* where run() is
  discretization,   \* dof_handler: the active cells and their degrees
  dg,               \* the DG object
  functional,       \* the functional of the goal-oriented estimate
  estimator,        \* the fields of DualWeightedResidualError
  cellwise_errors,  \* what the errors of the cells were computed from
  residual_norm,    \* the class of the norm the next check compares
  cycle,            \* current_mesh_adaptation_cycle
  ramp,             \* the degree the ramping is at
  estimated         \* history: the solution the last estimate was asked for

vars == <<parameters, pc, discretization, dg, functional, estimator,
          cellwise_errors, residual_norm, cycle, ramp, estimated>>

INSTANCE SteadyState WITH Solutions <- {}, Nodes <- {}, Duals <- {}, Invalid <- {}
INSTANCE Functional WITH Unset <- None

(***************************************************************************)
(* Discretizations and solutions.                                          *)
(***************************************************************************)
Active == DOMAIN discretization
Children(c) == {<<c[1] + 1, 2 * c[2]>>, <<c[1] + 1, 2 * c[2] + 1>>}
Parent(c) == <<c[1] - 1, c[2] \div 2>>
Uniform(degree) == [c \in Active |-> degree]
Elevated(d) == [c \in DOMAIN d |-> d[c] + 1]
Dofs(d) == MapThenSumSet(LAMBDA c : d[c] + 1, DOMAIN d)

Solution(kind, d) == [values |-> <<kind, d>>, on |-> d]
SteadyOn(d) == Solution("steady", d)
Prolonged(s, d) == [s EXCEPT !.on = d]
Converged(s) == s.values = <<"steady", s.on>>

\* allocate_system for the discretization "new".
Reallocated(new) ==
  AllocateSystem(SetNodes(dg, DOMAIN new),
                 IF Dofs(new) = Dofs(discretization)
                 THEN dg.global_mass_matrix ELSE None)

Interpolated(new, old) == SetSolution(Reallocated(new), Prolonged(old, new))

(***************************************************************************)
(* What steady_state may do to d: return at once, return the steady state, *)
(* stop at its last iteration, or give back the solution it was given with *)
(* the residual vector of another: of one that diverged, or shifted by 1.0 *)
(* where the line searches failed.  "large" is above the tolerance, even   *)
(* for a solver that is content with the decrease.                         *)
(***************************************************************************)
SteadyResults(d) ==
  LET given   == d.solution
      iterate == Solution("iterate", given.on)
      Stepped(returned) ==
        {ReturnedAfterSteps(d, s, returned) : s \in {given, iterate}}
  IN  IF Converged(given) THEN {[dg |-> ReturnedAtOnce(d), norm |-> "small"]}
      ELSE      {[dg |-> ReturnedAtOnce(SetSolution(d, SteadyOn(given.on))),
                  norm |-> "small"]}
           \cup {[dg |-> e, norm |-> "small"] : e \in Stepped(SteadyOn(given.on))}
           \cup {[dg |-> e, norm |-> "large"] : e \in Stepped(iterate)}
           \cup {[dg |-> SetSolution(e, given), norm |-> n] :
                   e \in Stepped(iterate), n \in {"large", "NaN"}}
           \cup {[dg |-> [SetSolution(e, given) EXCEPT !.right_hand_side.kind = "shifted"],
                  norm |-> "large"] : e \in Stepped(iterate)}

Init ==
  /\ parameters \in AdaptationParameters
  /\ discretization = [c \in Cells |-> parameters.poly_degree]
  /\ dg = SetSolution(AllocatedDG(Cells), Solution("initial", discretization))
  /\ functional = NewFunctional
  /\ estimator = [state |-> "coarse", solution_coarse |-> dg.solution,
                  coarse_fe_index |-> discretization, adjoint_fine |-> None]
  /\ cellwise_errors = None
  /\ residual_norm = None
  /\ cycle = 0
  /\ ramp = 0
  /\ pc = IF parameters.ramping THEN "ramp" ELSE "solve"
  /\ estimated = None

\* initialize_steady_polynomial_ramping, one degree.
RampDegree ==
  /\ pc = "ramp"
  /\ LET new == Uniform(ramp)
     IN  /\ discretization' = new
         /\ \E d \in {Interpolated(new, dg.solution)} :
              \E r \in SteadyResults(d) : dg' = r.dg
  /\ ramp' = ramp + 1
  /\ pc' = IF ramp = parameters.poly_degree THEN "solve" ELSE "ramp"
  /\ UNCHANGED <<parameters, functional, estimator, cellwise_errors,
                 residual_norm, cycle, estimated>>

\* Fault: the norm compared is that of before the cycles.
SolveKeepingNorm ==
  /\ pc = "solve" /\ dg.solution # None
  /\ \E r \in SteadyResults(dg) :
       /\ dg' = r.dg
       /\ residual_norm' = IF cycle = 0 THEN r.norm ELSE residual_norm
  /\ pc' = IF parameters.cycles > 0 THEN "check" ELSE "done"
  /\ UNCHANGED <<parameters, discretization, functional, estimator,
                 cellwise_errors, cycle, ramp, estimated>>

\* The program would abort on a solution that was never set.
Solve ==
  /\ pc = "solve" /\ dg.solution # None
  /\ \E r \in SteadyResults(dg) : dg' = r.dg /\ residual_norm' = r.norm
  /\ pc' = IF parameters.cycles > 0 THEN "check" ELSE "done"
  /\ UNCHANGED <<parameters, discretization, functional, estimator,
                 cellwise_errors, cycle, ramp, estimated>>

(***************************************************************************)
(* perform_steady_state_mesh_adaptation                                    *)
(***************************************************************************)
\* Only a norm that compares greater than the tolerance stops the program.
Check ==
  /\ pc = "check" /\ cycle < parameters.cycles
  /\ pc' = IF residual_norm = "large" THEN "aborted" ELSE "estimate"
  /\ UNCHANGED <<parameters, discretization, dg, functional, estimator,
                 cellwise_errors, residual_norm, cycle, ramp, estimated>>

Finish ==
  /\ pc = "check" /\ cycle >= parameters.cycles
  /\ pc' = "done"
  /\ UNCHANGED <<parameters, discretization, dg, functional, estimator,
                 cellwise_errors, residual_norm, cycle, ramp, estimated>>

(***************************************************************************)
(* The errors of the cells.                                                *)
(***************************************************************************)
\* ResidualErrorEstimate::compute_cellwise_errors
EstimateByResidual ==
  /\ pc = "estimate" /\ ~parameters.goal
  /\ dg' = AssembleResidual(dg, "none", 0)
  /\ cellwise_errors' = [residual |-> dg'.right_hand_side, adjoint |-> None]
  /\ estimated' = dg.solution
  /\ pc' = "refine"
  /\ UNCHANGED <<parameters, discretization, functional, estimator,
                 residual_norm, cycle, ramp>>

\* Fault: the estimator keeps what it saved when it was made.
ReinitClearsOnly ==
  /\ pc = "estimate" /\ parameters.goal
  /\ estimator' = [estimator EXCEPT !.state = "coarse", !.adjoint_fine = None]
  /\ estimated' = dg.solution
  /\ pc' = "refine degree"
  /\ UNCHANGED <<parameters, discretization, dg, functional, cellwise_errors,
                 residual_norm, cycle, ramp>>

\* DualWeightedResidualError::reinit, called by compute_cellwise_errors.
Reinit ==
  /\ pc = "estimate" /\ parameters.goal
  /\ estimator' = [state |-> "coarse", solution_coarse |-> dg.solution,
                   coarse_fe_index |-> discretization, adjoint_fine |-> None]
  /\ estimated' = dg.solution
  /\ pc' = "refine degree"
  /\ UNCHANGED <<parameters, discretization, dg, functional, cellwise_errors,
                 residual_norm, cycle, ramp>>

\* Fault: the degree is not compared with the largest one.
CoarseToFineAnyDegree ==
  /\ pc = "refine degree"
  /\ discretization' = Elevated(discretization)
  /\ dg' = Interpolated(discretization', estimator.solution_coarse)
  /\ estimator' = [estimator EXCEPT !.state = "fine"]
  /\ pc' = "adjoint"
  /\ UNCHANGED <<parameters, functional, cellwise_errors, residual_norm, cycle,
                 ramp, estimated>>

coarse_to_fine ==
  /\ pc = "refine degree"
  /\ \A c \in Active : discretization[c] < MaxDegree
  /\ discretization' = Elevated(discretization)
  /\ dg' = Interpolated(discretization', estimator.solution_coarse)
  /\ estimator' = [estimator EXCEPT !.state = "fine"]
  /\ pc' = "adjoint"
  /\ UNCHANGED <<parameters, functional, cellwise_errors, residual_norm, cycle,
                 ramp, estimated>>

DegreeTooHigh ==
  /\ pc = "refine degree"
  /\ \E c \in Active : discretization[c] >= MaxDegree
  /\ pc' = "aborted"
  /\ UNCHANGED <<parameters, discretization, dg, functional, estimator,
                 cellwise_errors, residual_norm, cycle, ramp, estimated>>

\* compute_adjoint: the functional's derivative, then the Jacobian, whose
\* transpose is the matrix of the system.
fine_grid_adjoint ==
  /\ pc = "adjoint"
  /\ functional' = Evaluate(functional, "dIdW", dg)
  /\ dg' = AssembleResidual(dg, "dRdW", 0)
  /\ estimator' = [estimator EXCEPT !.adjoint_fine =
                     [matrix |-> dg'.system_matrix_transpose,
                      dIdW |-> functional'.holds["dIdW"]]]
  /\ pc' = "weigh"
  /\ UNCHANGED <<parameters, discretization, cellwise_errors, residual_norm,
                 cycle, ramp, estimated>>

dual_weighted_residual ==
  /\ pc = "weigh"
  /\ cellwise_errors' = [residual |-> dg.right_hand_side,
                         adjoint |-> estimator.adjoint_fine]
  /\ pc' = "restore"
  /\ UNCHANGED <<parameters, discretization, dg, functional, estimator,
                 residual_norm, cycle, ramp, estimated>>

\* Fault: the solution is put back, and the degrees are left elevated.
FineToCoarseKeepsDegrees ==
  /\ pc = "restore"
  /\ dg' = SetSolution(Reallocated(discretization), estimator.solution_coarse)
  /\ estimator' = [estimator EXCEPT !.state = "coarse"]
  /\ pc' = "refine"
  /\ UNCHANGED <<parameters, discretization, functional, cellwise_errors,
                 residual_norm, cycle, ramp, estimated>>

fine_to_coarse ==
  /\ pc = "restore"
  /\ discretization' = estimator.coarse_fe_index
  /\ dg' = SetSolution(Reallocated(discretization'), estimator.solution_coarse)
  /\ estimator' = [estimator EXCEPT !.state = "coarse"]
  /\ pc' = "refine"
  /\ UNCHANGED <<parameters, functional, cellwise_errors, residual_norm, cycle,
                 ramp, estimated>>

(***************************************************************************)
(* fixed_fraction_isotropic_refinement_and_coarsening: the cells of the    *)
(* largest errors are flagged for refinement, those of the smallest for    *)
(* coarsening.  Of the flagged cells, "raised" get one degree more and the *)
(* others are split; "merged" are the parents whose children are all       *)
(* flagged for coarsening, and take the larger of their degrees.           *)
(***************************************************************************)
\* Which of the flagged cells get a higher degree.  The library stops p
\* adaptation at the last element of its collection; the smoothness sensor of
\* hp adaptation asks for the next element without a look at the collection.
Raised(flagged) ==
  CASE parameters.type = "h"  -> {{}}
    [] parameters.type = "p"  -> {{c \in flagged : discretization[c] < MaxDegree}}
    [] parameters.type = "hp" -> SUBSET flagged

Mergeable ==
  {c \in {Parent(c) : c \in {x \in Active : x[1] > 0}} : Children(c) \subseteq Active}

Refined(raised, split, merged) ==
  LET kept == Active \ (split \cup UNION {Children(c) : c \in merged})
      added == UNION {Children(c) : c \in split}
  IN  [c \in kept \cup added \cup merged |->
         IF c \in merged
         THEN CHOOSE p \in {discretization[x] : x \in Children(c)} :
                \A x \in Children(c) : discretization[x] <= p
         ELSE IF c \in added THEN discretization[Parent(c)]
         ELSE IF c \in raised THEN discretization[c] + 1
         ELSE discretization[c]]

\* Fault: a cycle that flags no cell is not counted.
NotCounted(new) == IF new = discretization THEN cycle ELSE cycle + 1

Counted(new) == cycle + 1

\* The collections of elements and quadratures have the degrees to MaxDegree.
\* What the library makes of an index beyond them is not defined: the program may
\* stop there, or go on.
BeyondCollections(d) == \E c \in DOMAIN d : d[c] > MaxDegree

Refine ==
  /\ pc = "refine"
  /\ \E flagged \in SUBSET Active : \E merged \in SUBSET Mergeable :
       /\ Cardinality(flagged) <= MaxFlagged
       /\ \A c \in merged : Children(c) \cap flagged = {}
       /\ ~(parameters.type = "hp" /\ \E c \in flagged : discretization[c] = 0)
       /\ \E raised \in Raised(flagged) :
            /\ \A c \in flagged \ raised : c[1] < MaxLevel
            /\ discretization' = Refined(raised, flagged \ raised, merged)
            /\ dg' = WithResidual(Interpolated(discretization', dg.solution))
  /\ cycle' = Counted(discretization')
  /\ \/ pc' = "solve"
     \/ pc' = "undefined" /\ BeyondCollections(discretization')
  /\ UNCHANGED <<parameters, functional, estimator, cellwise_errors,
                 residual_norm, ramp, estimated>>

\* The smoothness sensor has no lower degree to compare with.
SensorAborts ==
  /\ pc = "refine" /\ parameters.type = "hp" /\ MaxFlagged > 0
  /\ \E c \in Active : discretization[c] = 0
  /\ pc' = "aborted"
  /\ UNCHANGED <<parameters, discretization, dg, functional, estimator,
                 cellwise_errors, residual_norm, cycle, ramp, estimated>>

Next ==
  \/ RampDegree \/ Solve \/ Check \/ Finish
  \/ EstimateByResidual \/ Reinit \/ coarse_to_fine \/ DegreeTooHigh
  \/ fine_grid_adjoint \/ dual_weighted_residual \/ fine_to_coarse
  \/ Refine \/ SensorAborts

Spec == Init /\ [][Next]_vars

\* The program is sequential: while it can take a step it does.
FairSpec == Spec /\ WF_vars(Next)

-----------------------------------------------------------------------------
(* Properties.                                                             *)

\* Only the smoothness sensor goes beyond the collections, a degree a cycle, and
\* only where no goal-oriented estimate comes before it, which refuses to elevate
\* the largest degree.
LargestDegree ==
  MaxDegree + IF parameters.type = "hp" /\ ~parameters.goal THEN cycle ELSE 0

IsDiscretization(d) ==
  \A c \in DOMAIN d : c[1] \in 0 .. MaxLevel /\ d[c] \in 0 .. LargestDegree

\* The values of the variables.  The degrees of the discretizations, that of an
\* estimate included, are those of the collections of elements and quadratures,
\* all but in residual-based hp adaptation.
TypeOK ==
  /\ parameters \in AdaptationParameters
  /\ pc \in {"ramp", "solve", "check", "estimate", "refine degree", "adjoint",
             "weigh", "restore", "refine", "done", "aborted", "undefined"}
  /\ IsDiscretization(discretization)
  /\ IsDiscretization(dg.solution.on) /\ IsDiscretization(estimator.solution_coarse.on)
  /\ estimator.state \in {"coarse", "fine"}
  /\ residual_norm \in {None, "small", "large", "NaN"}
  /\ cycle \in 0 .. parameters.cycles
  /\ ramp \in 0 .. (parameters.poly_degree + 1)

\* Whenever the object is solved on, estimated on or refined, it holds a solution
\* that was set, and whose vector is of its own degrees of freedom and nodes.
SolutionOnDiscretization ==
  /\ dg.solution # None
  /\ dg.solution.on = discretization
  /\ dg.volume_nodes = Active

\* The errors of the cells are of one state, that of the solution the estimate
\* was asked for: its residual, or, on the elevated discretization, its residual
\* and the adjoint of the functional there, solved with the Jacobian and the
\* functional's derivative at that same solution.
IndicatorIsOfSolution ==
  LET fine  == Prolonged(estimated, Elevated(estimated.on))
      nodes == DOMAIN estimated.on
  IN  pc \in {"restore", "refine"} =>
        cellwise_errors =
          IF parameters.goal
          THEN [residual |-> Residual("residual", fine, nodes),
                adjoint |-> [matrix |-> Matrix(fine, nodes, 1, 0, None),
                             dIdW |-> <<fine, nodes>>]]
          ELSE [residual |-> Residual("residual", estimated, nodes),
                adjoint |-> None]

\* An estimate gives back the solution and the discretization it was given, so
\* that the cells its errors are of are the cells that are flagged.
EstimateRestores ==
  pc = "refine" => dg.solution = estimated /\ discretization = estimated.on

\* The mesh is adapted to a converged solution, or to none that a comparison
\* with the tolerance can tell.
ConvergedWhenAdapted ==
  pc = "estimate" /\ residual_norm # "NaN" => Converged(dg.solution)

\* "Maximum polynomial order of the DG basis functions for adaptation"
\* (parameters_flow_solver.h): no cell has a degree above it, of which there is
\* neither an element nor a quadrature.
DegreesExist == \A c \in Active : discretization[c] <= MaxDegree

\* Every run ends.
RunEnds == <>(pc \in {"done", "aborted", "undefined"})
=============================================================================
