# PHiLiP: a TLA+ verification development

PHiLiP solves conservation laws with a discontinuous Galerkin (DG) method. Most of
its code is floating-point arithmetic, which these specifications leave abstract.
They model the control around it: which object holds which solution, which matrix was
assembled where and is still valid, which process integrates which face, which steps
a solver accepts, what an unsteady run writes and when, what a restart finds on disk,
and what decides where a mesh is refined or a parameter sampled.

Paths below are relative to `src/src/`.

## 1. Inventory

| component | source | state it keeps | operations |
|---|---|---|---|
| DG object | `dg/dg_base.cpp`, `.hpp` | solution, mesh nodes, dual, `right_hand_side`, `system_matrix` and its transpose, `global_mass_matrix`, `dRdXv`, the second derivatives, and for each derivative a record of the solution, nodes (and CFL or dual) of its last assembly | `allocate_system`, `assemble_residual`, `evaluate_mass_matrices`, `add_mass_matrices`, direct writes by clients |
| Cell loop | `dg/dg_base.cpp`, `weak_dg.cpp`, `strong_dg.cpp`, `residual_sparsity_patterns.cpp` | on each process: rows of the residual, operators carried from cell to cell, the auxiliary variable, `assembly_error` | the loop over cells and faces, the auxiliary equation, the sensor, the exchanges |
| Flow constraint | `optimization/flow_constraints.cpp` | `flow_CFL_`, a reference to the DG object, preconditioners | `update_1`, `update_2`, `solve`, `value`, `applyJacobian_*`, `applyAdjointHessian_*` |
| Objective | `optimization/rol_objective.cpp` | the same DG object, a functional | `update`, `value`, `gradient_*`, `hessVec_*` |
| Design parameterization | `optimization/design_parameterization/` | the design variables | `update_mesh_from_design_variables` |
| Full-space step, KKT | `optimization/full_space_step.cpp`, `kkt_*.hpp` | penalty, CFL, preconditioners | one Newton step on the KKT system, line search |
| Implicit ODE solver | `ode_solver/implicit_ode_solver.cpp` | `solution_update` | `allocate_ode_system`, `step_in_time`, `linesearch` |
| ODE solver base | `ode_solver/ode_solver_base.cpp` | residual norms, `CFL_factor`, iteration, time, desired output time | `steady_state`, ramping, `advance_solution_time` |
| Flow solver | `flow_solver/flow_solver.cpp` | data table, desired times, index of the fixed time, files | constructor (restart), `run`, `output_restart_files`, adaptation cycles |
| Mesh adaptation, error estimates | `mesh/mesh_adaptation/` | the estimator's coarse solution and degrees, the adjoint, the errors of the cells, the cycle | `adapt_mesh`, `compute_cellwise_errors`, reallocation of the DG object |
| Functionals | `functional/functional.cpp` | value and derivatives, each with the record of where it was computed | `evaluate_functional` |
| Reduced-order steady solvers | `ode_solver/*reduced_order*`, `pod_*galerkin*` | residual norm, search case | `steady_state`, `step_in_time` |
| Adaptive sampling | `testing/pod_adaptive_sampling.cpp`, `reduced_order/` | snapshots, POD basis, neighbour table, test locations with their errors | place snapshots and locations, find the largest error, sample, update |
| Runge-Kutta, RRK, JFNK; physics, operators, grids, limiters, linear solver, parameters, output formats, test drivers | see `components` in `PROJECT.json` | | numerical code, parsing and formatting |

**How they interact.** The components share one mutable DG object through pointers:
objective, constraint, parameterization, ODE solver, functional and error estimator all
write its solution, its mesh or its degrees and read its matrices. None owns it, and
the only protection is the record each derivative keeps of where it was assembled.
Above `assemble_residual` the program is sequential: every process takes the same
branches. Inside it the processes run independently between exchanges of ghost
values and a sum of their errors, and decide from their own numbering which of
two neighbours integrates a face. The flow solver drives the ODE solver and writes
sets of three restart files from which another run may go on.

**What is hard here**, and what a unit test hardly reaches:

- *Stale state.* `assemble_residual` and `evaluate_functional` return at once when
  they believe they have what they are asked for, although a client may have changed
  the matrix in place or reallocated the object. Correct when every derivative,
  residual and mesh served is the one at the caller's arguments.
- *Parallel assembly.* Correct when each face is integrated by exactly one process,
  all agree on whether a cell was inverted, and none waits for ever.
- *Retries and partial failures.* The cells may throw; a line search may fail,
  reset the solution and go on with another CFL. Correct when residuals and norms
  stay with their solution and the solver ends with a solution that may be used.
- *Moving the shared object and back.* A goal-oriented estimate raises the degrees,
  solves an adjoint, and restores. Correct when the errors are of the solution
  that is then refined.
- *Order of outputs.* Desired output times advance only when an output is made,
  while steps have any length and are cut at two kinds of times.
- *Crashes.* A restart set is three files, written in an order meant to make a
  complete parameter file imply the other two. Correct when a computation goes
  through the times an uninterrupted one would and loses no row of its table.
- *Lists kept beside each other.* The snapshots, their matrix, the neighbour table,
  the basis and the errors of the test locations must speak of the same basis.

`hazards` in `PROJECT.json` lists these at their lines.

## 2. Modules

| module | models | checked by |
|---|---|---|
| `DGBase` | the DG object as a record, its operations as operators from object to object | through its clients |
| `CellOperators` | the one-dimensional operators a cell loop carries, and when they are rebuilt | `ResidualAssembly` |
| `ResidualAssembly` | `assemble_residual` past its early return, on several processes | `MCResidualAssembly`, proofs |
| `Functional` | `evaluate_functional` over its records | `MeshAdaptation` |
| `SteadyState` | what a call of `steady_state` may do to the DG object, as one step | `ImplicitODESolver` (`ReturnsSteadyState`) |
| `FlowConstraints` | constraint, objective and parameterization over one DG object; `solve` is a `SteadyState` step | `MCFlowConstraints`, proofs |
| `ImplicitODESolver` | `steady_state`, `step_in_time`, `linesearch`, step by step on the DG object | `MCImplicitODESolver`, proofs |
| `ReducedOrderODESolver` | the steady solve of the reduced-order models | `MCReducedOrderODESolver`, proofs |
| `MeshAdaptation` | the steady branch of `run`: ramping, solves as `SteadyState` steps, error estimates, refinement | `MCMeshAdaptation`, proofs |
| `AdaptiveSampling` | the sampling loop for one parameter | `MCAdaptiveSampling`, proofs |
| `TimeMarch` | what an unsteady computation promises, without files | refinement from `FlowSolver` |
| `FlowSolver` | the unsteady branch of `run`: outputs, restart files, crashes, restarts | `MCFlowSolver`, proofs |
| `*_proofs` | theorems of the module of that name | `tlapm` |

`map` in `PROJECT.json` gives the lines of each definition. Operators commented
"Fault:" are no part of a model: each is a plausible bug, put in the place of a
definition to see that a property notices it (`mutants`).

### DGBase and FlowConstraints

A solution, a mesh or a dual is a value from a set. A matrix is what is needed to
tell whether it is the right one: the solution and the nodes at which it was
assembled, and the integer coefficients of the Jacobian and of the mass matrix in it.
So `system_matrix *= -1` and `add_time_scaled_mass_matrices` are arithmetic on two
integers, and a matrix processed twice is told from one processed once. CFL
numbers appear as their inverse, the coefficient of the mass matrix.

`AssembleResidual` is the function of that name seen from outside: the early return,
the record written *before* the cells are visited, the error path (`Invalid` holds
the pairs at which the cells throw; residual of ones, mass matrix for a Jacobian),
the mass matrix evaluated only when there is none of this size, the transpose. The
solution norm test of `dg_base.cpp:1108` and its siblings compare a difference with
zero, which is equality of values here. Nothing takes the place of `dRdXv` and of the
second derivatives at an invalid pair (that part of the error path is commented out,
`dg_base.cpp:1302-1309`): they keep what the cells before the inverted one have added, and
the record that they were assembled. `Evaluated_dRdX` and `Evaluated_d2R` tell that
part from the whole (`complete`).
`AllocateSystem` is the reallocation of an object in use.

Each handler of `FlowConstraints` is an action with arbitrary arguments: it moves the
shared solution and mesh, assembles and answers; `reply` holds answer and
arguments, so that the properties compare both. Handlers that read the same matrix the
same way (`applyJacobian_1`, `applyAdjointJacobian_1`, `applyInverseJacobian_1`;
the four Hessians) are one action. `Spec` is the full-space method, without solves,
and `ReducedSpec` the one with them.

### CellOperators and ResidualAssembly

A mesh is a set of active cells with process, level, degree and each process's own
index, a list for each process of the terms its loop visits, cell by cell and a cell's
volume first, and of interfaces of five kinds (boundary, conforming, hanging, and both
periodic). A term of a row is named by the cell that computed it and the interface, so
that a face integrated twice or by nobody shows in the rows. `Integrates` is
`current_cell_should_do_the_work` with the branches around its calls. `Step(r)` is one
step of process r: a cell's volume or one of its faces, or its part of an exchange,
or the end of an exchange that all have reached (`posted`). An inverted cell throws,
except where the strong form's metric operators abort the program on every process;
the `catch`, the sum of the errors and the rows of ones follow. The auxiliary equation
comes with the strong form only (`DGWeak::assemble_auxiliary_residual` does nothing,
`dg/weak_dg.cpp:3917`). The
operators are the degrees they were built for, with the tags the code compares: those
of the two sides, the exterior projection, which a rebuild makes for the interior degree,
and the mapping basis, which is one object for both sides. `MappingFits`,
`ProjectionFits` and `TracesFit` say when the matrices of these operators have the sizes of
the vectors a term multiplies them with. Where one has not, an assertion of
`matrix_vector_mult` ends the program in a build that has assertions, and a build
without goes on with other numbers or aborts; so both `Abort` and `AddTerm` are possible
then.

### SteadyState and ImplicitODESolver

One loop of `steady_state` is `Assemble`, `Solve`, any number of `Shorten`,
possibly `SearchAgain`, then `Accept` or `GiveUp`, and `EndOfIteration`. A solution
has any norm (`norm` is chosen at the start), the linear solve may return any
direction (`ray` is chosen at each `Solve`), so every pattern of accepted and
rejected trials occurs. The last trial of the first search is thrown away, as in the
code, whose loop counter tells success from failure. The solver is
entered with a new object, or with one whose last solve was made anywhere.

`SteadyState` is the abstraction `FlowConstraints` and `MeshAdaptation` compose with.
The composition is justified by `ReturnsSteadyState`: whatever happened inside, the
object returned is one `SteadyStates` allows, up to the weights in the matrix that was
changed in place (no operator reads them, and no property that holds with solves
speaks of them). When the line searches fail for good, the code returns with the
residual shifted by 1.0; the comparison is made after a residual is assembled,
as `solve` does next. `MeshAdaptation`, which reads the norm, has that shifted residual
as one of its results.

### ReducedOrderODESolver

`Step` assembles, projects and begins a search along a ray; `Shorten` halves it;
`NextCase` goes on to the next of the cases. The code's second case starts from the last
trial, not from the old solution, and its step is not restored, so the ray has the
index the code's arithmetic gives: the second case begins at twice the shortest step,
and the third ends where it began, at the old solution, so that the fourth and the
return after four failures are never reached (`ThirdCaseAccepts`).

### Functional and MeshAdaptation

A discretization maps the active cells of a bisected interval to their degrees; a
solution carries the discretization its vector is of, which tells a vector of the old
mesh from one of the new. `coarse_to_fine`, `fine_grid_adjoint`,
`dual_weighted_residual` and `fine_to_coarse` are the steps of an estimate, named as in
the code; each reallocates through `AllocateSystem` or assembles through
`AssembleResidual`, and the functional's records stay. `Refine` flags any cells, splits
or raises them, and merges children. The smoothness sensor of hp adaptation stops at a
cell of degree 0 (`SensorAborts`); at a cell of the largest degree it does not: it asks for
the next element, and the degree leaves the collections. What the library does with
such an index is not defined, so from there the run goes on to the next solve or ends as
"undefined".

### AdaptiveSampling

Parameters are integer points; an error is named by the basis it is an estimate for, and its
size is left open, so the largest may be anywhere and any location may be an outlier.
The lists of snapshots, matrix columns and locations are sequences in the code's order,
since the code relates them by position.

### FlowSolver and TimeMarch

One pass of the loop of `run` is `Advance` (the time step and its cuts,
`step_in_time`, the row of the table, the next time step), the three writes of
`output_restart_files` where due, and `Output`. A solution is represented by the list of
times it has gone through, so that a solution of another history is told from
this one. Time is in integer ticks; the time step from each time is any function
in `StepFunctions` (the flow is deterministic, its step depends on the solution only);
no step leads past `Horizon`, which also bounds the number of requested times.
`Crash` may happen at any point, and may leave the file being written torn. A torn
parameter file is taken to be refused by the parser, so it counts as absent;
`Restart` takes the latest complete parameter file when
`LatestOnly` is TRUE, and otherwise any.

`TimeMarch` is the promise: each time follows from the one before by a rule that
has no memory of outputs or restarts; an interrupted computation goes on from the
longest stretch saved. `FlowSolver` implements it with its current solution as the
trajectory and its complete restart sets as what is saved (`Marching`).

## 3. Runs

Each property has a comment at its definition; each was also seen to fail under a
mutant of the code.

| run | instance | states | shows |
|---|---|---|---|
| `OptimizerCalls` | 2 solutions, 2 meshes (one pair invalid), 2 designs, 2 duals, CFL 0 and one other; solves between the calls | 113,720 | transposes, residuals and, up to a solve, Jacobians are the ones asked for; mesh derivatives and Hessians are what the cells give at the arguments |
| `SteadySolve` | 3 solutions (one invalid), `MaxLine` 2, 3 iterations, CFL floor at 2 failures, 5 norms | 503,704 | the solver ends; norms, residuals and returned solution; refinement of `SteadyState` |
| `UnsteadyRuns` | final time 5, steps of 1 or 2 in every order, all kinds of outputs, 2 crashes, restart files every 1 or 2 iterations or by interval | 922,524 | outputs are made; restart sets are complete; memory is consistent; the run ends; refinement of `TimeMarch` |
| `ResidualOfMesh` | 10 meshes (hanging nodes, periodic sides, intervals; one degree or two; some inverted), 3 processes, weak and strong form, auxiliary equation, dissipation | 15,894 | each term once in each row read; agreement; the operators' degrees; the pattern of dRdX; every call returns |
| `AdaptationCycles` | 2 cells, degrees to 2, one further level, 2 cycles, h, p and hp, both estimates, ramping | 8,842 | the shared object through reallocations; errors and refinement are of the same converged solution; how far degrees go; the run ends |
| `SampledParameters` | 17 points, to 6 snapshots, no or one Halton point | 113,065 | errors of the current basis; no point sampled or interpolated twice |
| `ReducedSolve` | 3 solutions (one invalid), 2 trials, 2 iterations, norms with NaN | 50,244 | residual of the solution, bounded growth, the solve ends |

Why these bounds are enough to meet the interesting cases. A record can be stale in
the solution, in the mesh, in the CFL or in the dual, so two values of each meet
every comparison both ways; the invalid pair meets the error path from every side. The
norms 1, 3, 4, 7, 9 against the tolerance 2, the divergence limit 8, and factors of two
lie on both sides of every comparison of the solver; two line-search trials and
three iterations allow a success and two failures in any order, which reaches the CFL
floor (two failures here, seven in the code). Two crashes allow one between the
restart after the first and the first set it writes. Steps of one or two ticks against
intervals of two and three, fixed times at distances one and two, and a final time
reached exactly or passed, meet each boundary of `IsOutputTime` and of the cut. Three
processes allow one that owns a face's two cells, two that share it, and one that
sees it as a ghost only, with numberings that disagree; two degrees let a process
return to a degree after a neighbour's, and meshes of one degree are never left by an
assertion. Two adaptation cycles
let the records of the first meet the discretization of the second, and let the
sensor raise the largest degree twice; one level and
degrees to 2 let cells be split, merged, raised and stopped. Six snapshots are three
rounds after the initial three, enough to add a location, sample at it and
update its neighbours.

The properties with preconditions: `ExactFixedTimesOutput` and `RequestedTimesReached`
are for lists of requested times that are in order and begin after the initial time
(`FixedTimesInOrder`), none of which lies inside a step that is cut at the final time,
since a step is cut at one of the two only (`CutsDoNotCompete`, `flow_solver.cpp:491`).
`MCFlowSolver` has TLC evaluate both conditions, which the theorems have as hypotheses.
`IntervalsOutput` assumes steps no longer than the interval, from every time: an earlier
form looked at the times of the solution only, and its proof failed on the step that
is about to be made. `ExactFixedTimesOutput` and `IntervalsOutput` are about runs that
were not restarted (below).
`ConvergedWhenAdapted` excludes a NaN norm, which `NaNConverges` is about.
`EntriesInPattern` is for meshes without periodic sides, whose neighbours the pattern
skips. The second part of `BasisIsOfCells`, that every operator fits the term it is used
for, is for meshes of one degree; on others it is false of the mapping basis and of the
exterior projection, and, in two and three dimensions, of the traces, which are both taken
at the face points of the interior degree (`strong_dg.cpp:1831`). `ResidualOfMesh` combines dissipation only with meshes on which every process
that exchanges sees the inverted cell, or none does; `SensorDeadlock` has the others.

`CHECK_DEADLOCK FALSE` stands in the runs of systems whose computations end.

### Where code and documentation disagree

| run | what TLC finds |
|---|---|
| `StaleJacobianAfterSolve` | after `solve`, `applyJacobian_1` at the solution the last pseudo-time step started from is answered with that step's linear system, which is still recorded as dR/dW |
| `NaNConverges` | a NaN norm makes `convergence_error` false, and `steady_state` returns 0 |
| `RefinedInterval` | on a locally refined interval, an interface between levels where the coarse cell has the lower index is integrated by neither cell |
| `SensorDeadlock` | with artificial dissipation, a process whose sensor meets an inverted cell skips an exchange its neighbours wait in |
| `TooFewROMLocations` | one parameter and no Halton points: the errors of the two nearest locations are read where fewer exist |

More were met while modelling and are not among the runs. Four of them have a
configuration, in which TLC finds the invariant violated, and whose last state is the
one described:

| configuration | module | invariant | what TLC finds |
|---|---|---|---|
| `PartialMeshDerivatives` | `MCFlowConstraints` | `MeshDerivativesAreComplete` | at an inverted cell `applyJacobian_2` is served a `dRdXv` to which only the cells before it were added, and later calls find it assembled (`dg_base.cpp:1302-1309`; `dg_base.hpp:354-355` calls it the derivative of the right hand side) |
| `NeighborMapping` | `MCResidualAssembly` | `MappingIsOfCells` | after a face between degrees 2 and 1, the next cell of degree 2 takes its metrics with the mapping basis of degree 1: "We only need to compute the most recent mapping basis since we compute interior before looping faces" (`dg_base.cpp:1085-1087`). In a build without assertions determinants then stay zero and the program aborts (`operators.cpp:2517-2519`), or, where the basis is of the higher degree, numbers are written past a vector's end |
| `InteriorProjection` | `MCResidualAssembly` | `ProjectionIsOfNeighbor` | on that face the neighbour's entropy variables are projected with an operator of the interior degree (`dg_base.cpp:1083`, used at `strong_dg.cpp:2214-2218`), whose sizes `matrix_vector_mult` asserts (`operators.cpp:211`) |
| `DegreeBeyondMax` | `MCMeshAdaptation` | `DegreesExist` | hp adaptation by the residual raises a cell past the largest degree (`mesh_adaptation.cpp:183`), "Maximum polynomial order of the DG basis functions for adaptation" (`parameters_flow_solver.h:41`). The goal-oriented estimate stops before that (`mesh_error_estimate.cpp:176-180`) |

The others have none:

- a pseudo-time step that finds the Jacobian assembled negates it back and adds a
  second mass matrix (`implicit_ode_solver.cpp:21`), so it does not solve backward Euler;
- in the time loops (`flow_solver.cpp:506`, `ode_solver_base.cpp:285`) a step after a
  failed line search uses the residual of a rejected trial, since the early return
  that skips the Jacobian skips the residual too;
- requested times that begin with 0.0, as the parameter's own example does: no requested
  time is ever output (`flow_solver.cpp:414`);
- the restart files hold the desired output time of before the output of their
  iteration, and a crash between the two loses that output; a restart can resume
  with a desired time that is already past, and writes no further output
  (`flow_solver.cpp:250`);
- restart files by time interval: the first desired time is past when it is first
  tested, so none is ever written (`flow_solver.cpp:437`);
- a restart from an older set overwrites later ones file by file, so a second crash
  can leave a mixture; the run and the theorems have `LatestOnly = TRUE`;
- the mass matrix a regularised Jacobian is combined with is that of an older mesh
  when the mesh moved without a change of size (`dg_base.cpp:1317`);
- relaxation changes a step's length after the loop has cut it
  (`runge_kutta_ode_solver.cpp:104`).

### Fairness

The sequential modules have weak fairness of their whole next-state relation, and
`FlowSolver` of its `Loop`: a running program takes its next step. A crash is never
forced and a restart never owed. `ResidualAssembly` has weak fairness of each process:
MPI lets every process that can proceed do so. `Terminates` rests on the counters of
the searches and of the iterations, `RunsEnd` on the cut steps never being of length
zero, `RunEnds` on every cycle being counted, `AllReturn` on all processes making the same
exchanges; section 4 says how much of that is proved. `FlowConstraints` and `AdaptiveSampling` have no liveness: the caller may
stop at any time, and sampling stops by a tolerance.

## 4. Proofs

The theorems hold for every value of the constants that meets the named assumption of
their module: any sets of solutions, meshes, duals and designs, any invalid pairs and
CFLs; any norms and numbers of trials and iterations; any final time, steps, options
and number of crashes; any partitioned mesh and number of processes; any interval,
degrees and number of cycles; any number of snapshots.

| theorems | property | further hypothesis |
|---|---|---|
| `FlowConstraints_proofs`: `TypeCorrect`, `MeshCorrect`, `TransposeCorrect`, `MeshDerivativesCorrect`, `ResidualCorrect`, `JacobianUpToSolverCorrect` | the six invariants and action properties of `OptimizerCalls` | |
| the same: `JacobianCorrect` | `ServedJacobian` | full-space method, no solves |
| `ImplicitODESolver_proofs`: `TypeCorrect`, `SystemCorrect`, `SearchCorrect`, `UsableCorrect`, `SteadyStateCorrect` | all but one of the safety properties of `SteadySolve`, with the refinement | |
| the same: `ConvergedCorrect` | `ConvergedReturn` | no norm is NaN |
| the same: `SolveDescends` | every step of a solve reduces what is left | |
| `ReducedOrderODESolver_proofs`: `TypeCorrect`, `ResidualCorrect`, `SearchCorrect` | types and the safety properties of `ReducedSolve` | |
| the same: `ThirdCaseCorrect` | `ThirdCaseAccepts` \* | |
| the same: `SolveDescends` | every step of a solve reduces what is left | |
| `ResidualAssembly_proofs`: `TypeCorrect`, `AgreementCorrect`, `BasisCorrect`, `PatternCorrect` | `TypeOK`, `RanksAgree`, `BasisIsOfCells`, `EntriesInPattern` | |
| the same: `ExactlyOnceCorrect`, `AuxiliaryCorrect` | `ExactlyOnce`, `AuxiliaryIsComplete` | `WorkIsOrdered` |
| the same: `ProjectionCorrect`, `MappingIsKept` | the exterior projection is never of a neighbour of another degree, and the mapping basis not of the cell after it | |
| the same: `NobodyIsStuckCorrect` | `NobodyIsStuck` \* | `SensorsAgree` |
| the same: `CallDescends` | every step of a process reduces what it has left to do, and adds to no other | |
| `MeshAdaptation_proofs`: the first five | the safety properties of `AdaptationCycles` | `None` is no solution |
| the same: `RunDescends` | every step of a run reduces what is left | |
| `AdaptiveSampling_proofs`: three | the properties of `SampledParameters` | |
| `FlowSolver_proofs`: `MemoryCorrect`, `RestartFilesCorrect`, `EndCorrect` | `MemoryIsConsistent`, `RestartSetComplete`, `EndsExactly` | `LatestOnly` |
| the same: `TypeCorrect`, `RunDescends` | `TypeOK`; every step up to the next crash reduces what is left | `LatestOnly` |
| the same: `IntervalsCorrect` | `IntervalsOutput` | |
| the same: `ExactOutputCorrect` | `ExactFixedTimesOutput` | `FixedTimesInOrder`, `CutsDoNotCompete` |
| the same: `RequestsCorrect` | `RequestedTimesReached` \* | those two and `LatestOnly` |
| the same: `MarchCorrect` | `MarchesAsPromised`, the refinement of `TimeMarch` | `LatestOnly`, `FixedTimesInOrder` |

\* These three are invariants that no run lists, since a stronger property of the run
stands for them on its instance: a process that is stuck violates `AllReturn`, a search
that is stuck violates `Terminates` (which is how its mutant is found), and a request
that is missed is no step of `TimeMarch`.

**The records tell the truth** (`DGBase_proofs`, `FlowConstraints_proofs`). What is
served is right because the matrix found "already assembled" is the one its record
names, which the properties do not say of the matrices that are not being served. The
inductive invariant is `TypeOK`, `MeshFollowsDesign` and that each matrix is the one
its record describes (`Known`). A solve keeps it for everything but `system_matrix`, of
which only the solution and the nodes are still known; hence `JacobianCorrect` for
`Spec` and the others for `ReducedSpec`.

**A solver's residual is of its solution** (`ImplicitODESolver_proofs`,
`ReducedOrderODESolver_proofs`). The invariant says at each point of the iteration of
which solution the residual vector and the norms are; that `CFL_factor` moves by at
most one an iteration, which bounds it; and what the assemblies have left in the
object, from which the refinement follows without a look at the searches.
`ConvergedReturn` also needs to know how the loop can end at the smallest CFL.

**Every face once** (`ResidualAssembly_proofs`). `WorkIsOrdered` (`IsOrdered` of the mesh, which TLC
evaluates for the meshes of `ResidualOfMesh`) is what a mesh must be for the rule to choose exactly one of a face's two cells (`OneCell`): no
local refinement of an interval, no hanging node across a periodic side, and cells of
one process that differ in index or level. `RefinedInterval` shows that it is needed.
The proof separates the rule from the interleaving: the rows of a process
hold what its loop has passed, an exchange ends when all have posted it, and so
what is read afterwards is complete.

**The right operators** (the same). `BasisIsOfCells` follows from what a rebuild may
skip: the tags name the degrees that the carried basis operators were built for
(`TagsAreRight`), from one cell or face to the next. There is no such tag for the
exterior projection, which is always of the interior degree, nor for the mapping basis, of
which only this is known: where all cells have one degree (`OneDegree`) it is of the interior
degree too. At the first term the objects are of `MaxDegree`, which may be no cell's; but
a cell's volume precedes its faces and rebuilds them. `ProjectionCorrect` and
`MappingIsKept` prove of cells of two degrees that the two objects do not follow.

**Nobody waits in a circle** (the same). A process waits only for the others to post
the exchange it is at, and everybody posts the exchanges in one order. `PostedInv`
says which of them a process has posted at each point of the call, and `Phase` how many
stages it is past. If a process can neither go on nor has returned, some process that has
not returned is in an earlier phase (`WaitsForOneBehind`); the one in the least phase can
go on. An exchange that only some processes make breaks this, whence
`SensorsAgree`: processes that share cells agree on whether the sensor throws. The finding
`SensorDeadlock` is what happens otherwise.

**Estimates of one solution** (`MeshAdaptation_proofs`). The invariant follows an
estimate from step to step: the estimator has saved the solution it was asked for; on
the elevated discretization the object has no record of a Jacobian, because it was
allocated anew, so the adjoint's is assembled there; the functional's record, which
outlives the reallocations, is of what the functional holds. For the degrees in `TypeOK` it
matters which estimate comes before the refinement: a goal-oriented one has seen that
every degree is below the largest, so `Refine` stays within the collections; a
residual-based one has not, and each cycle may go one further (`LargestDegree`).

**Lists of one basis** (`AdaptiveSampling_proofs`). The columns of the snapshot matrix
are the parameters placed so far, and the table and the basis are of all of them
after the first location; the point about to be sampled is neither a snapshot nor,
since `getMaxErrorROM` has erased it, a location.

**No crash leaves a wrong restart set** (`FlowSolver_proofs`). `RestartSetComplete`
is not inductive: a write to the solution file of an old complete set would break it
before its parameter file is rewritten. The invariant adds that a set's number is its
iteration over the number of steps between two sets (`SavedInv`), that no complete
set is ahead of the run, and that the number being written is that of none
(`NumberInv`); with restart files by time interval, that none is ever written
(`IntervalInv`).

**The next output** (the same). The index of the next requested time is in no
restart file. `IndexInv` says that it is nevertheless that of the first request still to
come, whether it was counted up by outputs or found again by a restart; so the rule
by which a step is cut is a function of the time, and the refinement of `TimeMarch`
follows step by step. For the output itself `ServedInv` says that no request behind the
current time is without its file, `DesiredInv` that the desired time of output by interval
is a multiple of it, and `EarlierInv` that each multiple before it has its file.
`ReachedInv` carries `RequestedTimesReached` through crashes: it holds of every complete
solution file as well as of the memory.

**Every computation has less and less to do** (the descent theorems). With fairness a
computation ends if it is never stuck and each step brings it closer to the end.
The first is `NobodyIsStuck` in `ResidualAssembly` and, in the reduced-order solver,
where only a search could be stuck, `ThirdCaseAccepts`. The second is proved
of every module that has liveness: in `FlowSolver` and `ResidualAssembly` a natural
number gets smaller; in the solvers and in `MeshAdaptation` the tuple of iteration (degree
of the ramping, cycle), stage and trial goes forward, of which `TypeOK` bounds every
part.

**Only model-checked**: the liveness properties themselves (`Terminates` of both solvers,
`AllReturn`, `RunsEnd`, `RunEnds`). Fairness speaks of ENABLED, and the conclusion needs
an induction over the measure, both out of this prover's reach.

## 5. Not modelled, and why

Most of the lines of the repository are quadrature, fluxes, physics, limiters, operators,
mesh generators and movers, Sacado tapes and test cases: floating-point functions
with no state that a model checker could explore, and templates repeated for each number
of states. A model of them would be an identity on uninterpreted values. So the
map covers a small share of all the lines, and most of those that decide
anything about the order and the validity of what is computed.

- *Rounding*: times and norms are integers, so equality of times
  (`flow_solver.cpp:561`) is exact.
- *Time loops with implicit steps*: only `steady_state` is modelled step by step.
- *Runge-Kutta, relaxation, JFNK*: straight-line arithmetic on stages, and a Newton
  loop of one counter.
- *Preconditioners* of the constraint and the KKT system: a stale one slows a Krylov
  method and changes no answer. The full-space step fixes an order of calls of
  which `FlowConstraints` allows every one.
- *`functional/adjoint.cpp`*: an older duplicate of the estimator, used by tests. It
  negates the shared Jacobian in place and leaves its record, so a second adjoint at the
  same solution without a reallocation in between would negate it back.
- *Two sampling parameters*: the same loop and lists, with points of the plane. The
  initial parameters differ: the Halton points are written to rows that the grid has filled
  (`pod_adaptive_sampling.cpp:488-491`), which is not modelled.
- *Anisotropic refinement*: remeshing by external mesh generators.
- *File names and formats*: the padding of the file number by an unsigned subtraction
  (`flow_solver.cpp:147`) wraps around above 99999.
- Parameters that contradict one another, such as a number of fixed times that is
  not the length of their list.

## 6. What the plan has left

1. *Full-space step*: the order of its calls and the preconditioners built from one
   Jacobian and applied later.
2. *Runge-Kutta with relaxation* in the loop of `FlowSolver`: the relaxed step against
   the cut.
3. *Implicit steps in the time loops*, with the stale residual as a run.
4. *Proofs*: what `WorkIsOrdered` follows from, in terms of the ways in which meshes are
   refined and numbered; the output of a run after a restart, where it is made.

## 7. Running

    tlc -config OptimizerCalls.cfg MCFlowConstraints.tla
    tlapm FlowConstraints_proofs.tla

`runs` in `PROJECT.json` gives the module of each configuration.
