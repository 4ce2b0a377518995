----------------------- MODULE ImplicitODESolver_proofs -----------------------
(***************************************************************************)
(* steady_state with the implicit solver, for any number of trials and     *)
(* iterations and any norms: its types, the residual its linear systems    *)
(* and line searches work with, what it returns, and that to its callers   *)
(* it makes one of the steps of SteadyState.  Every step comes closer to   *)
(* its end.                                                                *)
(*                                                                         *)
(* The invariant says, beside the types: of which solution the residual    *)
(* vector and the norms are while the solver is at each point; that        *)
(* CFL_factor moved by at most one an iteration; how the loop can end with *)
(* the smallest CFL and a converged residual; and what the assemblies have *)
(* left in the object.                                                     *)
(***************************************************************************)
EXTENDS ImplicitODESolver, DGBase_proofs

Searching == pc \in {"first search", "second search"}

(***************************************************************************)
(* The invariant.                                                          *)
(***************************************************************************)
ObjectOK ==
  /\ given \in DGType
  /\ initial_solution = given.solution
  /\ pc = "call" => dg = given
  /\ pc # "done" => dg \in DGType

Counted ==
  /\ -current_iteration <= CFL_factor /\ CFL_factor <= current_iteration
  /\ pc \in {"solve", "first search", "second search"} =>
       current_iteration < MaxIterations
  /\ pc = "call" => current_iteration = 0

\* The residual vector is that of the solution, but after a failed search.
ResidualOK ==
  pc \in {"head", "solve", "first search", "second search"} =>
    dg.right_hand_side = EvaluatedResidual(dg.solution, mesh)

\* residual_norm is that of the solution the step starts from.
NormsOK ==
  /\ pc \in {"head", "solve"} => residual_norm = NormAt(dg.solution)
  /\ Searching =>
       /\ ray \in [Trials -> Solutions]
       /\ old_solution \in Solutions
       /\ initial_residual = NormAt(old_solution)
       /\ residual_norm = NormAt(old_solution)

Inv == TypeOK /\ ObjectOK /\ Counted /\ ResidualOK /\ NormsOK

(***************************************************************************)
(* Norms.                                                                  *)
(***************************************************************************)
\* A norm that does not exceed another does not exceed twice that one.
LEMMA TwiceExceeds ==
  ASSUME NEW a \in Nat \cup {NaN}, NEW b \in Nat \cup {NaN}, ~Exceeds(a, b)
  PROVE  ~Exceeds(a, Twice(b))
<1>1. CASE a = NaN \/ b = NaN
  BY <1>1 DEF Exceeds, Twice
<1>2. CASE a # NaN /\ b # NaN
  <2>1. a \in Nat /\ b \in Nat /\ a <= b
    BY <1>2 DEF Exceeds
  <2> QED
    BY <1>2, <2>1 DEF Exceeds, Twice
<1> QED
  BY <1>1, <1>2

\* The norm of a residual vector that was evaluated at a solution is that of the
\* solution.
LEMMA NormOfResidual ==
  ASSUME NEW d, NEW s \in Solutions, NEW n \in Nodes, n = mesh,
         norm \in [Evaluable(mesh) -> Norms],
         d.right_hand_side = EvaluatedResidual(s, n)
  PROVE  /\ ResidualNorm(d) = NormAt(s)
         /\ NormAt(s) \in Norms \cup {OnesNorm}
<1>1. CASE <<s, n>> \in Invalid
  <2>1. d.right_hand_side.kind = "ones"
    BY <1>1 DEF EvaluatedResidual, Residual
  <2>2. s \notin Evaluable(mesh)
    BY <1>1 DEF Evaluable
  <2> QED
    BY <2>1, <2>2 DEF ResidualNorm, NormAt
<1>2. CASE <<s, n>> \notin Invalid
  <2>1. /\ d.right_hand_side.kind = "residual"
        /\ d.right_hand_side.solution = s
    BY <1>2 DEF EvaluatedResidual, Residual
  <2>2. s \in Evaluable(mesh)
    BY <1>2 DEF Evaluable
  <2> QED
    BY <2>1, <2>2 DEF ResidualNorm, NormAt
<1> QED
  BY <1>1, <1>2

\* Norms are numbers or NaN.
LEMMA NormTypes ==
  /\ Norms \cup {0, OnesNorm} \subseteq Nat \cup {NaN}
  /\ MaxLine \in Nat /\ MaxLine > 0 /\ MaxIterations \in Nat
  /\ CFLFloor \in Int /\ CFLFloor < 0 /\ DivergedNorm \in Nat
  /\ NaN \notin Int
<1>1. OnesNorm \in Nat /\ DivergedNorm \in Nat
  BY ImplicitODESolverAssumption
<1>2. Norms \cup {0, OnesNorm} \subseteq Nat \cup {NaN}
  BY <1>1, ImplicitODESolverAssumption
<1> QED
  BY <1>1, <1>2, ImplicitODESolverAssumption

\* Trials are numbers; 0 and Over are two of them.
LEMMA TrialNumbers == 0 \in Trials /\ Over \in Trials
<1>1. Over \in Nat
  BY NormTypes DEF Over
<1> QED
  BY <1>1 DEF Trials

(***************************************************************************)
(* The object.                                                             *)
(***************************************************************************)
\* The object at another solution, with the residual there.
LEMMA TriedObject ==
  ASSUME NEW d \in DGType, NEW s \in Solutions
  PROVE  LET r == WithResidual(SetSolution(d, s))
         IN  /\ r \in DGType
             /\ r.solution = s
             /\ r.volume_nodes = d.volume_nodes
             /\ r.right_hand_side = EvaluatedResidual(r.solution, r.volume_nodes)
<1>1. /\ SetSolution(d, s) \in DGType
      /\ SetSolution(d, s).solution = s
      /\ SetSolution(d, s).volume_nodes = d.volume_nodes
  BY DEF SetSolution, DGType
<1> QED
  BY <1>1, WithResidualType, ResidualKnown

\* The linear system of a step evaluates the residual, or finds that of the same
\* solution, for nothing else sets the solution.
LEMMA SystemOfStep ==
  ASSUME NEW d \in DGType, NEW w \in Int,
         d.right_hand_side = EvaluatedResidual(d.solution, d.volume_nodes)
  PROVE  LET r == LinearSystem(d, w)
         IN  /\ r \in DGType
             /\ r.solution = d.solution
             /\ r.volume_nodes = d.volume_nodes
             /\ r.right_hand_side = EvaluatedResidual(r.solution, r.volume_nodes)
<1> DEFINE a == AssembleResidual(d, "dRdW", 0)
           r == LinearSystem(d, w)
<1>1. /\ a \in DGType
      /\ a.solution = d.solution
      /\ a.volume_nodes = d.volume_nodes
  BY AssembleType, AssembleFrame DEF Derivatives
<1>2. a.right_hand_side = EvaluatedResidual(d.solution, d.volume_nodes)
  <2>1. CASE AlreadyAssembled(d, "dRdW", 0)
    BY <2>1 DEF AssembleResidual
  <2>2. CASE ~AlreadyAssembled(d, "dRdW", 0)
    BY <2>2 DEF AssembleResidual, WithResidual, With_dRdW, DGType
  <2> QED
    BY <2>1, <2>2
<1>3. r = AddMass(NegateSystemMatrix(a), w)
  BY DEF LinearSystem
<1> HIDE DEF a
<1>4. /\ r.solution = a.solution
      /\ r.volume_nodes = a.volume_nodes
      /\ r.right_hand_side = a.right_hand_side
  BY <1>1, <1>3 DEF NegateSystemMatrix, AddMass, DGType
<1> QED
  BY <1>1, <1>2, <1>4, LinearSystemKnown

(***************************************************************************)
(* Every step keeps the invariant.                                         *)
(***************************************************************************)
\* The object as it is given.
LEMMA InitInv == Init => Inv
<1> SUFFICES ASSUME Init PROVE Inv
  OBVIOUS
<1>1. PICK n \in Nodes, s \in Solutions :
        \/ dg = SetSolution(AllocatedDG(n), s)
        \/ \E t \in Solutions :
             dg = ReturnedAfterSteps(SetSolution(AllocatedDG(n), s), t, s)
  BY DEF Init
<1> DEFINE new == SetSolution(AllocatedDG(n), s)
<1>2. new \in DGType
  BY DEF SetSolution, AllocatedDG, DGType, Residual, ResidualType, ZeroMatrix,
         Matrix, MatrixType
<1> HIDE DEF new
<1>3. dg \in DGType
  <2>1. CASE dg = new
    BY <1>2, <2>1
  <2>2. ASSUME NEW t \in Solutions, dg = ReturnedAfterSteps(new, t, s)
        PROVE  dg \in DGType
    <3>1. dg \in SteadyStates(new)
      BY <2>2 DEF SteadyStates
    <3> QED
      BY <1>2, <3>1, SteadyStatesKnown
  <2> QED
    BY <1>1, <2>1, <2>2 DEF new
<1>4. dg.solution \in Solutions
  BY <1>3 DEF DGType
<1>5. ray \in [Trials -> Solutions \cup {None}]
  BY DEF Init
<1>6. /\ norm \in [Evaluable(mesh) -> Norms]
      /\ {initial_residual_norm, residual_norm, initial_residual}
           \subseteq Norms \cup {0, OnesNorm}
      /\ pc = "call" /\ convergence_error = TRUE /\ given = dg
      /\ initial_solution = dg.solution /\ old_solution = None
      /\ current_iteration = 0 /\ CFL_factor = 0 /\ weight = 0 /\ iline = 0
  BY DEF Init, mesh
<1>7. 0 \in 0 .. MaxIterations /\ 0 \in -MaxIterations .. MaxIterations
      /\ 0 \in 0 .. MaxLine
  BY NormTypes
<1>8. TypeOK
  BY <1>4, <1>5, <1>6, <1>7 DEF TypeOK
<1> QED
  BY <1>3, <1>6, <1>8 DEF Inv, ObjectOK, Counted, ResidualOK, NormsOK, Searching

\* Before the first iteration the residual is evaluated.
LEMMA CallInv == Inv /\ Call => Inv'
<1> SUFFICES ASSUME Inv, Call PROVE Inv'
  OBVIOUS
<1> DEFINE m == EvaluateMassMatrices(dg)
<1>1. dg \in DGType
  BY DEF Inv, ObjectOK, Call
<1>2. m \in DGType /\ m.solution = dg.solution /\ m.volume_nodes = mesh
  BY <1>1 DEF EvaluateMassMatrices, DGType, mesh
<1>3. dg' = WithResidual(m)
  BY DEF Call, ReturnedAtOnce
<1> HIDE DEF m
<1>4. /\ dg' \in DGType
      /\ dg'.solution = dg.solution
      /\ mesh' = mesh
      /\ dg'.right_hand_side = EvaluatedResidual(dg'.solution, dg'.volume_nodes)
  BY <1>2, <1>3, WithResidualType, ResidualKnown DEF mesh
<1>5. /\ norm' = norm /\ given' = given
      /\ initial_solution' = initial_solution
      /\ initial_residual_norm' = ResidualNorm(dg')
      /\ residual_norm' = initial_residual_norm'
      /\ pc' = "head" /\ pc = "call"
      /\ convergence_error' \in BOOLEAN
      /\ UNCHANGED <<current_iteration, CFL_factor, weight, old_solution,
                     initial_residual, ray, iline>>
  BY DEF Call, problem, search_vars, AboveTolerance
<1>6. /\ ResidualNorm(dg') = NormAt(dg'.solution)
      /\ NormAt(dg'.solution) \in Norms \cup {OnesNorm}
  BY <1>1, <1>4, NormOfResidual DEF Inv, TypeOK, DGType, mesh
<1>7. NormAt(dg'.solution) = NormAt(dg.solution)' /\ Evaluable(mesh)' = Evaluable(mesh)
  BY <1>4, <1>5 DEF NormAt, Evaluable
<1>8. dg'.solution \in Solutions
  BY <1>4 DEF DGType
<1> QED
  BY <1>4, <1>5, <1>6, <1>7, <1>8
     DEF Inv, TypeOK, ObjectOK, Counted, ResidualOK, NormsOK, Searching, mesh

\* A step assembles its linear system.
LEMMA AssembleInv == Inv /\ Assemble => Inv'
<1> SUFFICES ASSUME Inv, Assemble PROVE Inv'
  OBVIOUS
<1>1. dg \in DGType /\ dg.right_hand_side = EvaluatedResidual(dg.solution, mesh)
  BY DEF Inv, ObjectOK, ResidualOK, Assemble
<1>2. weight' \in Nat
  BY ImplicitODESolverAssumption DEF Inv, TypeOK, Assemble
<1>3. /\ dg' \in DGType
      /\ dg'.solution = dg.solution
      /\ mesh' = mesh
      /\ dg'.right_hand_side = EvaluatedResidual(dg'.solution, dg'.volume_nodes)
  BY <1>1, <1>2, SystemOfStep DEF Assemble, mesh
<1>4. /\ pc' = "solve" /\ pc = "head"
      /\ current_iteration < MaxIterations
      /\ UNCHANGED <<norm, given, initial_solution, initial_residual_norm,
                     residual_norm, convergence_error, current_iteration,
                     CFL_factor, old_solution, initial_residual, ray, iline>>
  BY DEF Assemble, Continues, problem, search_vars, steady_vars
<1>5. NormAt(dg.solution)' = NormAt(dg.solution) /\ Evaluable(mesh)' = Evaluable(mesh)
  BY <1>3, <1>4 DEF NormAt, Evaluable
<1> QED
  BY <1>2, <1>3, <1>4, <1>5
     DEF Inv, TypeOK, ObjectOK, Counted, ResidualOK, NormsOK, Searching, mesh

\* The first trial begins the search.
LEMMA SolveInv == Inv /\ Solve => Inv'
<1> SUFFICES ASSUME Inv, Solve PROVE Inv'
  OBVIOUS
<1>1. /\ dg \in DGType
      /\ dg.right_hand_side = EvaluatedResidual(dg.solution, mesh)
      /\ residual_norm = NormAt(dg.solution)
  BY DEF Inv, ObjectOK, ResidualOK, NormsOK, Solve
<1>2. 0 \in Trials /\ 0 \in 0 .. MaxLine
  BY NormTypes DEF Trials, Over
<1>3. ray'[0] \in Solutions
  BY <1>2 DEF Solve
<1>4. /\ dg' \in DGType
      /\ mesh' = mesh
      /\ dg'.right_hand_side = EvaluatedResidual(dg'.solution, dg'.volume_nodes)
  BY <1>1, <1>3, TriedObject DEF Solve, mesh
<1>5. ResidualNorm(dg) = NormAt(dg.solution)
      /\ NormAt(dg.solution) \in Norms \cup {OnesNorm}
  BY <1>1, NormOfResidual DEF Inv, TypeOK, DGType, mesh
<1>6. /\ pc' = "first search" /\ pc = "solve"
      /\ ray' \in [Trials -> Solutions]
      /\ old_solution' = dg.solution
      /\ initial_residual' = ResidualNorm(dg)
      /\ iline' = 0
      /\ UNCHANGED <<norm, given, initial_solution, initial_residual_norm,
                     residual_norm, convergence_error, current_iteration,
                     CFL_factor, weight>>
  BY DEF Solve, problem, steady_vars
<1>7. NormAt(old_solution)' = NormAt(dg.solution) /\ Evaluable(mesh)' = Evaluable(mesh)
  BY <1>4, <1>6 DEF NormAt, Evaluable
<1>8. dg'.solution \in Solutions /\ dg.solution \in Solutions
  BY <1>1, <1>4 DEF DGType
<1>9. ray' \in [Trials -> Solutions \cup {None}]
  BY <1>6
<1> QED
  BY <1>1, <1>2, <1>4, <1>5, <1>6, <1>7, <1>8, <1>9
     DEF Inv, TypeOK, ObjectOK, Counted, ResidualOK, NormsOK, Searching, mesh

\* A search tries another solution on its line.
LEMMA TrialInv ==
  ASSUME Inv, Searching, pc' \in {"first search", "second search"},
         NEW k \in Trials, iline' \in 0 .. MaxLine,
         dg' = WithResidual(SetSolution(dg, ray[k])),
         UNCHANGED <<problem, steady_vars, current_iteration, CFL_factor, weight,
                     old_solution, initial_residual, ray>>
  PROVE  Inv'
<1>1. /\ dg \in DGType /\ ray[k] \in Solutions
      /\ current_iteration < MaxIterations
  BY DEF Inv, ObjectOK, NormsOK, Searching, Counted
<1>2. /\ dg' \in DGType
      /\ mesh' = mesh
      /\ dg'.right_hand_side = EvaluatedResidual(dg'.solution, dg'.volume_nodes)
  BY <1>1, TriedObject DEF mesh
<1>3. UNCHANGED <<norm, given, initial_solution, initial_residual_norm,
                  residual_norm, convergence_error, current_iteration,
                  CFL_factor, weight, old_solution, initial_residual, ray>>
  BY DEF problem, steady_vars
<1>4. NormAt(old_solution)' = NormAt(old_solution)
      /\ Evaluable(mesh)' = Evaluable(mesh)
  BY <1>2, <1>3 DEF NormAt, Evaluable
<1>5. dg'.solution \in Solutions
  BY <1>2 DEF DGType
<1> QED
  BY <1>1, <1>2, <1>3, <1>4, <1>5
     DEF Inv, TypeOK, ObjectOK, Counted, ResidualOK, NormsOK, Searching, mesh

LEMMA ShortenInv == Inv /\ Shorten => Inv'
<1> SUFFICES ASSUME Inv, Shorten PROVE Inv'
  OBVIOUS
<1>1. iline \in 0 .. MaxLine /\ iline < MaxLine /\ iline' = iline + 1
  BY DEF Shorten, Inv, TypeOK
<1>2. iline' \in 0 .. MaxLine /\ iline' \in Trials
  BY <1>1, NormTypes DEF Trials, Over
<1>3. UNCHANGED <<problem, steady_vars, current_iteration, CFL_factor, weight,
                  old_solution, initial_residual, ray>>
  BY DEF Shorten
<1>4. /\ Searching /\ pc' \in {"first search", "second search"}
      /\ dg' = WithResidual(SetSolution(dg, ray[iline']))
  BY DEF Shorten, Searching
<1> QED
  BY <1>2, <1>3, <1>4, TrialInv

LEMMA SearchAgainInv == Inv /\ SearchAgain => Inv'
<1> SUFFICES ASSUME Inv, SearchAgain PROVE Inv'
  OBVIOUS
<1>0. iline' = 0
  BY DEF SearchAgain
<1>1. iline' \in 0 .. MaxLine /\ Over \in Trials
  BY <1>0, NormTypes DEF Trials, Over
<1>2. UNCHANGED <<problem, steady_vars, current_iteration, CFL_factor, weight,
                  old_solution, initial_residual, ray>>
  BY DEF SearchAgain
<1>3. /\ Searching /\ pc' \in {"first search", "second search"}
      /\ dg' = WithResidual(SetSolution(dg, ray[Over]))
  BY DEF SearchAgain, Searching
<1> QED
  BY <1>1, <1>2, <1>3, TrialInv

\* A search ends a step, whether it succeeds or not.
LEMMA EndOfStepInv ==
  ASSUME Inv, Searching, EndOfStep,
         dg' \in DGType, mesh' = mesh,
         \/ CFL_factor' = CFL_factor + 1
         \/ CFL_factor' = CFL_factor
         \/ CFL_factor' = CFL_factor - 1
  PROVE  Inv'
<1>1. /\ current_iteration \in 0 .. MaxIterations
      /\ current_iteration < MaxIterations
      /\ CFL_factor \in -MaxIterations .. MaxIterations
      /\ -current_iteration <= CFL_factor /\ CFL_factor <= current_iteration
  BY DEF Inv, TypeOK, Counted, Searching
<1>2. current_iteration' = current_iteration + 1
  BY DEF EndOfStep
<1>3. /\ current_iteration' \in 0 .. MaxIterations
      /\ CFL_factor' \in -MaxIterations .. MaxIterations
      /\ -(current_iteration') <= CFL_factor' /\ CFL_factor' <= current_iteration'
  BY <1>1, <1>2, NormTypes
<1>4. /\ UNCHANGED <<norm, given, initial_solution, initial_residual_norm,
                     residual_norm, convergence_error>>
      /\ pc' = "stepped" /\ old_solution' = None /\ initial_residual' = 0
      /\ iline' = 0 /\ weight' = 0 /\ ray' = [k \in Trials |-> None]
  BY DEF EndOfStep, problem, steady_vars
<1>5. /\ iline' \in 0 .. MaxLine
      /\ ray' \in [Trials -> Solutions \cup {None}]
      /\ Evaluable(mesh)' = Evaluable(mesh)
      /\ dg'.solution \in Solutions
  BY <1>4, NormTypes DEF Evaluable, DGType
<1> QED
  BY <1>3, <1>4, <1>5
     DEF Inv, TypeOK, ObjectOK, Counted, ResidualOK, NormsOK, Searching, mesh

LEMMA AcceptInv == Inv /\ Accept => Inv'
<1> SUFFICES ASSUME Inv, Accept PROVE Inv'
  OBVIOUS
<1>1. /\ Searching /\ EndOfStep
      /\ CFL_factor' = CFL_factor + 1 \/ CFL_factor' = CFL_factor
      /\ dg' = dg
  BY DEF Accept, Searching
<1> QED
  BY <1>1, EndOfStepInv DEF Inv, ObjectOK, Searching, mesh

LEMMA GiveUpInv == Inv /\ GiveUp => Inv'
<1> SUFFICES ASSUME Inv, GiveUp PROVE Inv'
  OBVIOUS
<1>1. /\ Searching /\ EndOfStep
      /\ CFL_factor' = CFL_factor - 1
  BY DEF GiveUp, Searching
<1>2. dg' = SetSolution(dg, old_solution)
      /\ dg \in DGType /\ old_solution \in Solutions
  BY DEF GiveUp, Inv, ObjectOK, NormsOK, Searching
<1>3. dg' \in DGType /\ mesh' = mesh
  BY <1>2 DEF SetSolution, DGType, mesh
<1> QED
  BY <1>1, <1>3, EndOfStepInv

\* The residual of the solution that the search left is evaluated again.
LEMMA EndOfIterationInv == Inv /\ EndOfIteration => Inv'
<1> SUFFICES ASSUME Inv, EndOfIteration PROVE Inv'
  OBVIOUS
<1>1. dg \in DGType /\ dg' = WithResidual(dg)
  BY DEF Inv, ObjectOK, EndOfIteration
<1>2. /\ dg' \in DGType
      /\ dg'.solution = dg.solution
      /\ mesh' = mesh
      /\ dg'.right_hand_side = EvaluatedResidual(dg'.solution, dg'.volume_nodes)
  BY <1>1, WithResidualType, ResidualKnown DEF mesh
<1>3. dg'.solution \in Solutions /\ dg'.volume_nodes \in Nodes
  BY <1>2 DEF DGType
<1>4. /\ ResidualNorm(dg') = NormAt(dg'.solution)
      /\ NormAt(dg'.solution) \in Norms \cup {OnesNorm}
  BY <1>2, <1>3, NormOfResidual DEF Inv, TypeOK, mesh
<1>5. /\ UNCHANGED <<norm, given, initial_solution, initial_residual_norm,
                     current_iteration, CFL_factor, weight, old_solution,
                     initial_residual, ray, iline>>
      /\ pc' = "head" /\ pc = "stepped"
      /\ residual_norm' = ResidualNorm(dg')
      /\ convergence_error' \in BOOLEAN
  BY DEF EndOfIteration, problem, search_vars
<1>6. NormAt(dg'.solution) = NormAt(dg.solution)'
      /\ Evaluable(mesh)' = Evaluable(mesh)
  BY <1>2, <1>5 DEF NormAt, Evaluable
<1> QED
  BY <1>2, <1>3, <1>4, <1>5, <1>6
     DEF Inv, TypeOK, ObjectOK, Counted, ResidualOK, NormsOK, Searching, mesh

\* The solution that was given, or the last one, is returned on the same mesh.
LEMMA ReturnInv == Inv /\ Return => Inv'
<1> SUFFICES ASSUME Inv, Return PROVE Inv'
  OBVIOUS
<1>1. dg \in DGType /\ initial_solution \in Solutions
  BY DEF Inv, TypeOK, ObjectOK, Return
<1> DEFINE e == SetSolution(dg, initial_solution)
<1>2. e \in DGType /\ e.volume_nodes = mesh /\ e.solution = initial_solution
  BY <1>1 DEF SetSolution, DGType, mesh
<1> HIDE DEF e
<1>3. LET f == [e EXCEPT !.right_hand_side.kind = "shifted"]
      IN  f.volume_nodes = mesh /\ f.solution = initial_solution
  BY <1>2 DEF DGType
<1>4. dg' \in {[e EXCEPT !.right_hand_side.kind = "shifted"], e, dg}
  BY DEF Return, e
<1>5. mesh' = mesh /\ dg'.solution \in Solutions
  BY <1>1, <1>2, <1>3, <1>4 DEF mesh, DGType
<1>6. /\ UNCHANGED <<norm, given, initial_solution, initial_residual_norm,
                     residual_norm, convergence_error, current_iteration,
                     CFL_factor, weight, old_solution, initial_residual, ray,
                     iline>>
      /\ pc' = "done"
  BY DEF Return, problem, search_vars, steady_vars
<1>7. Evaluable(mesh)' = Evaluable(mesh)
  BY <1>5 DEF Evaluable
<1> QED
  BY <1>5, <1>6, <1>7
     DEF Inv, TypeOK, ObjectOK, Counted, ResidualOK, NormsOK, Searching

LEMMA NextInv == Inv /\ [Next]_vars => Inv'
<1> SUFFICES ASSUME Inv, [Next]_vars PROVE Inv'
  OBVIOUS
<1>1. CASE UNCHANGED vars
  BY <1>1 DEF vars, problem, steady_vars, search_vars, Inv, TypeOK, ObjectOK,
              Counted, ResidualOK, NormsOK, Searching, mesh, NormAt, Evaluable
<1> QED
  BY <1>1, CallInv, AssembleInv, SolveInv, ShortenInv, SearchAgainInv, AcceptInv,
     GiveUpInv, EndOfIterationInv, ReturnInv DEF Next

\* The invariant of the specification.
LEMMA Invariance == Spec => []Inv
  BY InitInv, NextInv, PTL DEF Spec

(***************************************************************************)
(* How the loop ends.                                                      *)
(***************************************************************************)
\* A whole multiple of a norm is no smaller.
LEMMA Multiple ==
  ASSUME NEW a \in Nat, NEW t \in Nat \ {0}
  PROVE  a <= a * t
<1>1. PICK u \in Nat : t = u + 1
  <2>1. t - 1 \in Nat /\ t = (t - 1) + 1
    OBVIOUS
  <2> QED
    BY <2>1
<1>2. a * t = a * u + a /\ a * u \in Nat
  BY <1>1
<1> QED
  BY <1>2

\* Of the step being made: that the loop went on with it.
Started(solution) ==
  /\ AboveTolerance(residual_norm)
  /\ Exceeds(DivergedNorm, residual_norm)
  /\ Exceeds(DivergedNorm, initial_residual_norm)
  /\ \/ AboveRelativeTolerance(residual_norm)
     \/ /\ solution = initial_solution

HeadInv ==
  pc = "head" =>
    /\ convergence_error <=> /\ AboveTolerance(residual_norm)
                             /\ \/ AboveRelativeTolerance(residual_norm)
                                \/ current_iteration = 0
    /\ current_iteration = 0 =>
         dg.solution = initial_solution /\ residual_norm = initial_residual_norm
    /\ current_iteration # 0 => Exceeds(DivergedNorm, initial_residual_norm)
    /\ CFL_factor <= CFLFloor /\ ~convergence_error =>
         dg.solution = initial_solution

StepInv ==
  /\ pc \in {"solve", "first search", "second search"} => CFL_factor > CFLFloor
  /\ pc = "solve" => Started(dg.solution)
  /\ Searching => Started(old_solution)
  /\ pc = "stepped" =>
       /\ current_iteration # 0
       /\ Exceeds(DivergedNorm, initial_residual_norm)
       /\ CFL_factor <= CFLFloor =>
            Started(dg.solution) /\ residual_norm = NormAt(dg.solution)

\* The relative tolerance is met by a residual only if it has not diverged, and so
\* is the absolute one.
LEMMA ConvergedNorm ==
  ASSUME NEW a \in Nat, NaN \notin Int,
         \/ ~AboveTolerance(a)
         \/ /\ ~AboveRelativeTolerance(a)
            /\ initial_residual_norm \in Nat
            /\ initial_residual_norm < DivergedNorm
  PROVE  a <= DivergedNorm
<1>1. /\ InverseTolerance \in Nat \ {0} /\ Unit \in Nat /\ DivergedNorm \in Nat
      /\ Unit <= DivergedNorm
  BY ImplicitODESolverAssumption
<1>2. a <= a * InverseTolerance /\ a * InverseTolerance \in Nat
  BY <1>1, Multiple
<1>3. a # NaN
  OBVIOUS
<1>4. CASE ~AboveTolerance(a)
  <2>1. a * InverseTolerance <= Unit
    BY <1>1, <1>2, <1>3, <1>4 DEF AboveTolerance
  <2> QED
    BY <1>1, <1>2, <2>1
<1>5. CASE /\ ~AboveRelativeTolerance(a)
           /\ initial_residual_norm \in Nat
           /\ initial_residual_norm < DivergedNorm
  <2>1. initial_residual_norm # NaN
    BY <1>5
  <2>2. a * InverseTolerance <= initial_residual_norm
    BY <1>2, <1>3, <1>5, <2>1 DEF AboveRelativeTolerance
  <2> QED
    BY <1>1, <1>2, <1>5, <2>2
<1> QED
  BY <1>4, <1>5

\* The norm of a solution stays what it is, for neither the mesh nor the problem
\* changes.
LEMMA NormsStay ==
  ASSUME mesh' = mesh, norm' = norm
  PROVE  \A s : NormAt(s)' = NormAt(s)
  BY DEF NormAt, Evaluable

\* Before the first iteration the residual is that of the solution that was given.
LEMMA CallConverges == Inv /\ Call => (HeadInv /\ StepInv)'
<1> SUFFICES ASSUME Inv, Call PROVE (HeadInv /\ StepInv)'
  OBVIOUS
<1>1. /\ current_iteration' = 0 /\ CFL_factor' = 0 /\ pc' = "head"
      /\ initial_solution' = initial_solution
      /\ residual_norm' = initial_residual_norm'
      /\ convergence_error' = AboveTolerance(residual_norm')
  BY DEF Inv, TypeOK, Counted, Call
<1>2. dg'.solution = initial_solution
  <2>1. dg \in DGType /\ dg.solution = initial_solution
    BY DEF Inv, ObjectOK, Call
  <2> QED
    BY <2>1 DEF Call, ReturnedAtOnce, WithResidual, EvaluateMassMatrices, DGType
<1>3. ~(CFL_factor' <= CFLFloor)
  BY <1>1, NormTypes
<1> QED
  BY <1>1, <1>2, <1>3 DEF HeadInv, StepInv, Searching, AboveTolerance

\* A step is made only if the loop goes on.
LEMMA AssembleConverges == Inv /\ HeadInv /\ Assemble => (HeadInv /\ StepInv)'
<1> SUFFICES ASSUME Inv, HeadInv, Assemble PROVE (HeadInv /\ StepInv)'
  OBVIOUS
<1>1. /\ pc = "head" /\ pc' = "solve" /\ CFL_factor > CFLFloor
      /\ UNCHANGED <<CFL_factor, initial_solution, initial_residual_norm,
                     residual_norm>>
      /\ AboveTolerance(residual_norm)
      /\ Exceeds(DivergedNorm, residual_norm)
      /\ Exceeds(DivergedNorm, initial_residual_norm)
      /\ AboveRelativeTolerance(residual_norm) \/ dg.solution = initial_solution
  BY DEF Assemble, Continues, HeadInv, steady_vars
<1>2. dg'.solution = dg.solution
  <2>1. /\ dg \in DGType
        /\ dg.right_hand_side = EvaluatedResidual(dg.solution, dg.volume_nodes)
        /\ dg' = LinearSystem(dg, weight')
    BY DEF Assemble, Inv, ObjectOK, ResidualOK, mesh
  <2>2. weight' \in Int
    BY ImplicitODESolverAssumption DEF Inv, TypeOK, Assemble
  <2> QED
    BY <2>1, <2>2, SystemOfStep
<1> QED
  BY <1>1, <1>2
     DEF HeadInv, StepInv, Searching, Started, AboveTolerance,
         AboveRelativeTolerance

\* The line search starts at the solution of the step.
LEMMA SearchConverges ==
  Inv /\ StepInv /\ (Solve \/ Shorten \/ SearchAgain) => (HeadInv /\ StepInv)'
<1> SUFFICES ASSUME Inv, StepInv, Solve \/ Shorten \/ SearchAgain
             PROVE  (HeadInv /\ StepInv)'
  OBVIOUS
<1>1. /\ pc \in {"solve", "first search", "second search"}
      /\ pc' \in {"first search", "second search"}
      /\ UNCHANGED <<CFL_factor, initial_solution, initial_residual_norm,
                     residual_norm>>
  BY DEF Solve, Shorten, SearchAgain, steady_vars
<1>2. /\ pc = "solve" => old_solution' = dg.solution
      /\ pc # "solve" => old_solution' = old_solution
  BY DEF Solve, Shorten, SearchAgain
<1>3. Started(old_solution')
  BY <1>1, <1>2 DEF StepInv, Searching
<1> QED
  BY <1>1, <1>3
     DEF HeadInv, StepInv, Searching, Started, AboveTolerance,
         AboveRelativeTolerance

\* A search that succeeds does not make the CFL smaller; one that fails returns to
\* the solution the step started from.
LEMMA EndOfStepConverges ==
  Inv /\ StepInv /\ (Accept \/ GiveUp) => (HeadInv /\ StepInv)'
<1> SUFFICES ASSUME Inv, StepInv, Accept \/ GiveUp PROVE (HeadInv /\ StepInv)'
  OBVIOUS
<1>1. /\ Searching /\ Started(old_solution) /\ CFL_factor > CFLFloor
      /\ pc' = "stepped" /\ current_iteration' # 0
      /\ UNCHANGED <<norm, initial_solution, initial_residual_norm, residual_norm>>
  <2>1. Searching /\ EndOfStep
    BY DEF Accept, GiveUp, Searching
  <2>2. current_iteration \in 0 .. MaxIterations
    BY DEF Inv, TypeOK
  <2>3. current_iteration' = current_iteration + 1
    BY <2>1 DEF EndOfStep
  <2>4. current_iteration' # 0
    BY <2>2, <2>3, NormTypes
  <2> QED
    BY <2>1, <2>4 DEF StepInv, Searching, EndOfStep, problem, steady_vars
<1>2. CFL_factor \in Int /\ CFLFloor \in Int
  <2>1. CFL_factor \in -MaxIterations .. MaxIterations
    BY DEF Inv, TypeOK
  <2> QED
    BY <2>1, NormTypes
<1>3. GiveUp => dg'.solution = old_solution /\ mesh' = mesh
  BY <1>1 DEF GiveUp, SetSolution, Inv, ObjectOK, Searching, DGType, mesh
<1>4. residual_norm = NormAt(old_solution)
  BY <1>1 DEF Inv, NormsOK
<1>5. GiveUp => NormAt(dg.solution)' = residual_norm'
  BY <1>1, <1>3, <1>4 DEF NormAt, Evaluable
<1>6. ~(Accept /\ CFL_factor' <= CFLFloor)
  <2>1. Accept => CFL_factor' = CFL_factor + 1 \/ CFL_factor' = CFL_factor
    BY DEF Accept
  <2> QED
    BY <1>1, <1>2, <2>1
<1>7. CFL_factor' <= CFLFloor =>
        /\ dg'.solution = old_solution
        /\ NormAt(dg.solution)' = residual_norm'
  BY <1>3, <1>5, <1>6
<1> QED
  BY <1>1, <1>7
     DEF HeadInv, StepInv, Searching, Started, AboveTolerance,
         AboveRelativeTolerance

\* After a failed search the residual is again what it was, so that it can meet
\* the relative tolerance only if it is the initial one.
LEMMA EndOfIterationConverges ==
  Inv /\ StepInv /\ EndOfIteration => (HeadInv /\ StepInv)'
<1> SUFFICES ASSUME Inv, StepInv, EndOfIteration PROVE (HeadInv /\ StepInv)'
  OBVIOUS
<1>1. /\ pc = "stepped" /\ pc' = "head" /\ current_iteration # 0
      /\ UNCHANGED <<norm, current_iteration, CFL_factor, initial_solution,
                     initial_residual_norm>>
      /\ Exceeds(DivergedNorm, initial_residual_norm)
      /\ convergence_error' = /\ AboveTolerance(residual_norm')
                              /\ AboveRelativeTolerance(residual_norm')
  BY DEF StepInv, EndOfIteration, problem
<1>2. /\ dg'.solution = dg.solution
      /\ residual_norm' = NormAt(dg.solution)
  <2>1. /\ dg \in DGType /\ dg' = WithResidual(dg) /\ residual_norm' = ResidualNorm(dg')
    BY DEF Inv, ObjectOK, EndOfIteration
  <2>2. /\ dg'.solution = dg.solution
        /\ dg'.right_hand_side = EvaluatedResidual(dg.solution, mesh)
    BY <2>1, ResidualKnown DEF mesh
  <2> QED
    BY <2>1, <2>2, NormOfResidual DEF Inv, TypeOK, DGType, mesh
<1>3. CFL_factor <= CFLFloor =>
        Started(dg.solution) /\ residual_norm' = residual_norm
  BY <1>1, <1>2 DEF StepInv
<1>4. CFL_factor' <= CFLFloor /\ ~convergence_error' =>
        dg'.solution = initial_solution'
  BY <1>1, <1>2, <1>3 DEF Started
<1> QED
  BY <1>1, <1>4
     DEF HeadInv, StepInv, Searching, AboveTolerance, AboveRelativeTolerance

\* A solution that meets a tolerance is returned as it is.
LEMMA ReturnConverges ==
  ASSUME Inv, HeadInv, Return, NaN \notin Norms
  PROVE  (HeadInv /\ StepInv /\ ConvergedReturn)'
<1>1. /\ pc = "head" /\ pc' = "done" /\ dg \in DGType
      /\ initial_solution \in Solutions
      /\ UNCHANGED <<norm, convergence_error, initial_residual_norm,
                     initial_solution, residual_norm>>
  BY DEF Return, problem, steady_vars, Inv, ObjectOK, TypeOK
<1>2. CASE convergence_error
  BY <1>1, <1>2 DEF HeadInv, StepInv, Searching, ConvergedReturn
<1>3. CASE ~convergence_error
  <2>1. residual_norm = NormAt(dg.solution)
    BY <1>1 DEF Inv, NormsOK
  <2>2. residual_norm \in Nat /\ residual_norm # NaN
    <3>1. residual_norm \in Norms \cup {0, OnesNorm}
      BY DEF Inv, TypeOK
    <3>2. Norms \subseteq Nat /\ OnesNorm \in Nat
      BY ImplicitODESolverAssumption
    <3> QED
      BY <3>1, <3>2, NormTypes
  <2>3. ~AboveTolerance(residual_norm)
          \/ /\ ~AboveRelativeTolerance(residual_norm)
             /\ Exceeds(DivergedNorm, initial_residual_norm)
    BY <1>1, <1>3 DEF HeadInv
  <2>4. initial_residual_norm \in Nat \/ initial_residual_norm = NaN
    BY NormTypes DEF Inv, TypeOK
  <2>5. residual_norm <= DivergedNorm
    BY <2>2, <2>3, <2>4, ConvergedNorm, NormTypes DEF Exceeds
  <2>6. ~Exceeds(residual_norm, DivergedNorm)
    BY <2>2, <2>5, NormTypes DEF Exceeds
  <2>7. dg'.solution = dg.solution /\ mesh' = mesh
    <3>1. CASE CFL_factor <= CFLFloor
      <4>1. dg.solution = initial_solution
        BY <1>1, <1>3, <3>1 DEF HeadInv
      <4> DEFINE e == SetSolution(dg, initial_solution)
      <4>2. e \in DGType /\ e.volume_nodes = mesh /\ e.solution = dg.solution
        BY <1>1, <4>1 DEF SetSolution, DGType, mesh
      <4>3. dg' = [e EXCEPT !.right_hand_side.kind = "shifted"]
        BY <3>1 DEF Return
      <4> HIDE DEF e
      <4> QED
        BY <4>2, <4>3 DEF DGType, mesh
    <3>2. CASE ~(CFL_factor <= CFLFloor)
      BY <2>2, <2>6, <3>2 DEF Return, mesh
    <3> QED
      BY <3>1, <3>2
  <2>8. NormAt(dg.solution)' = residual_norm
    BY <1>1, <2>1, <2>7 DEF NormAt, Evaluable
  <2> QED
    BY <1>1, <2>2, <2>3, <2>8
       DEF HeadInv, StepInv, Searching, ConvergedReturn, AboveTolerance,
           AboveRelativeTolerance
<1> QED
  BY <1>2, <1>3

LEMMA ConvergedInvariance ==
  ASSUME NaN \notin Norms
  PROVE  Spec => [](Inv /\ HeadInv /\ StepInv /\ ConvergedReturn)
<1> DEFINE All == Inv /\ HeadInv /\ StepInv /\ ConvergedReturn
<1>1. Init => All
  <2>1. Init => pc = "call"
    BY DEF Init
  <2> QED
    BY <2>1, InitInv DEF HeadInv, StepInv, ConvergedReturn, Searching
<1>2. All /\ [Next]_vars => All'
  <2> SUFFICES ASSUME All, [Next]_vars PROVE All'
    OBVIOUS
  <2>1. Inv'
    BY NextInv
  <2>2. CASE UNCHANGED vars
    BY <2>1, <2>2
       DEF vars, problem, steady_vars, search_vars, HeadInv, StepInv,
           ConvergedReturn, Searching, Started, AboveTolerance, mesh, NormAt,
           Evaluable, AboveRelativeTolerance
  <2>3. CASE Return
    BY <2>1, <2>3, ReturnConverges
  <2>4. CASE Next /\ ~Return
    <3>1. (HeadInv /\ StepInv)'
      BY <2>4, CallConverges, AssembleConverges, SearchConverges,
         EndOfStepConverges, EndOfIterationConverges DEF Next
    <3>2. pc' # "done"
      BY <2>4 DEF Next, Call, Assemble, Solve, Shorten, SearchAgain, Accept, GiveUp,
                  EndOfStep, EndOfIteration
    <3> QED
      BY <2>1, <3>1, <3>2 DEF ConvergedReturn
  <2> QED
    BY <2>2, <2>3, <2>4
<1> HIDE DEF All
<1>3. Spec => []All
  BY <1>1, <1>2, PTL DEF Spec
<1> QED
  BY <1>3 DEF All

(***************************************************************************)
(* What the steps leave in the object.                                     *)
(***************************************************************************)
\* What no step of the solver changes, once the mass matrix has been evaluated.
Rest(d) == <<d.volume_nodes, d.dual, d.global_mass_matrix, d.dRdXv, d.d2R,
             d.key_dRdX, d.key_d2R>>

\* The last Jacobian was assembled at a solution, on this mesh.
AssembledAt(d, s) ==
  /\ d.key_dRdW = <<s, d.volume_nodes, 0>>
  /\ d.system_matrix_transpose
       = EvaluatedMatrix(s, d.volume_nodes, 0, d.volume_nodes)
  /\ d.system_matrix.solution = s
  /\ d.system_matrix.nodes = d.volume_nodes

NewOrSolved(d) ==
  d.key_dRdW[1] = None \/ \E s \in Solutions : AssembledAt(d, s)

\* The object with its mass matrix, as it was given.
Ready == EvaluateMassMatrices(given)

ObjectInv ==
  /\ NewOrSolved(given)
  /\ pc # "call" =>
       /\ WithResidual(dg) \in DGType
       /\ Rest(dg) = Rest(Ready)
       /\ \/ /\ WithResidual(dg) = ReturnedAtOnce(given)
             /\ pc \in {"head", "done"}
          \/ \E s \in Solutions : AssembledAt(dg, s)

\* A step assembles the Jacobian at its solution or finds it assembled there: the
\* object is the same, up to the weights.
LEMMA StepAssembles ==
  ASSUME NEW d \in DGType, NEW w \in Int, NewOrSolved(d),
         d.global_mass_matrix = d.volume_nodes
  PROVE  LET r == LinearSystem(d, w)
         IN  /\ r \in DGType
             /\ r.solution = d.solution
             /\ Rest(r) = Rest(d)
             /\ AssembledAt(r, d.solution)
<1> DEFINE a == AssembleResidual(d, "dRdW", 0)
           r == LinearSystem(d, w)
           n == d.volume_nodes
<1>1. /\ d.solution # None /\ n # None
      /\ d.solution \in Solutions /\ n \in Nodes
  BY DGAssumption DEF DGType
<1>2. a \in DGType /\ a.solution = d.solution
  BY AssembleType, AssembleFrame DEF Derivatives
<1>3. Rest(a) = Rest(d) /\ AssembledAt(a, d.solution)
  <2>1. CASE AlreadyAssembled(d, "dRdW", 0)
    <3>1. a = d /\ d.key_dRdW = <<d.solution, n, 0>>
      BY <2>1 DEF AssembleResidual, AlreadyAssembled
    <3>2. PICK s \in Solutions : AssembledAt(d, s)
      BY <1>1, <3>1 DEF NewOrSolved
    <3>3. s = d.solution
      BY <3>1, <3>2 DEF AssembledAt
    <3> QED
      BY <3>1, <3>2, <3>3
  <2>2. CASE ~AlreadyAssembled(d, "dRdW", 0)
    <3>1. a = WithResidual(With_dRdW(d, 0))
      BY <2>2 DEF AssembleResidual
    <3>2. MassNodesUsed(d) = n
      BY DEF MassNodesUsed
    <3> DEFINE A == EvaluatedMatrix(d.solution, n, 0, n)
    <3>3. A.solution = d.solution /\ A.nodes = n
      BY DEF EvaluatedMatrix, Matrix
    <3>4. With_dRdW(d, 0)
            = [d EXCEPT !.key_dRdW = <<d.solution, n, 0>>,
                        !.global_mass_matrix = n,
                        !.system_matrix = A,
                        !.system_matrix_transpose = A]
      BY <3>2 DEF With_dRdW
    <3> HIDE DEF A
    <3> DEFINE f == EvaluatedResidual(d.solution, n)
    <3>5. a = [d EXCEPT !.key_dRdW = <<d.solution, n, 0>>,
                        !.global_mass_matrix = n,
                        !.system_matrix = A,
                        !.system_matrix_transpose = A,
                        !.right_hand_side = f]
      BY <3>1, <3>4 DEF WithResidual, DGType
    <3> HIDE DEF f
    <3>6. /\ a.key_dRdW = <<d.solution, n, 0>>
          /\ a.system_matrix = A /\ a.system_matrix_transpose = A
          /\ a.volume_nodes = n /\ a.global_mass_matrix = n
          /\ a.dual = d.dual /\ a.dRdXv = d.dRdXv /\ a.d2R = d.d2R
          /\ a.key_dRdX = d.key_dRdX /\ a.key_d2R = d.key_d2R
      BY <3>5 DEF DGType
    <3>7. Rest(a) = Rest(d)
      BY <3>6 DEF Rest
    <3> QED
      BY <3>3, <3>6, <3>7 DEF AssembledAt, A
  <2> QED
    BY <2>1, <2>2
<1>4. r = AddMass(NegateSystemMatrix(a), w)
  BY DEF LinearSystem
<1> HIDE DEF a
<1> DEFINE b == NegateSystemMatrix(a)
<1>5. /\ b = [a EXCEPT !.system_matrix = Negated(a.system_matrix)]
      /\ a.system_matrix \in MatrixType
  BY <1>2 DEF NegateSystemMatrix, DGType
<1>6. /\ Negated(a.system_matrix) \in MatrixType
      /\ Negated(a.system_matrix).solution = a.system_matrix.solution
      /\ Negated(a.system_matrix).nodes = a.system_matrix.nodes
  BY <1>5, InPlaceType DEF Negated, MatrixType
<1>7. b \in DGType
  BY <1>2, <1>5, <1>6 DEF DGType
<1> DEFINE B == MassAdded(b.system_matrix, w, b.global_mass_matrix)
<1>8. B.solution = a.system_matrix.solution /\ B.nodes = a.system_matrix.nodes
  <2>1. b.system_matrix = Negated(a.system_matrix)
    BY <1>2, <1>5 DEF DGType
  <2> QED
    BY <1>6, <2>1 DEF MassAdded, MatrixType
<1>9. r = [b EXCEPT !.system_matrix = B]
  BY <1>4 DEF AddMass
<1> HIDE DEF B, b
<1>10. r = [a EXCEPT !.system_matrix = B]
  BY <1>2, <1>5, <1>9 DEF DGType
<1> HIDE DEF r
<1>11. /\ r.solution = a.solution
      /\ Rest(r) = Rest(a)
      /\ r.volume_nodes = a.volume_nodes
      /\ r.key_dRdW = a.key_dRdW
      /\ r.system_matrix_transpose = a.system_matrix_transpose
      /\ r.system_matrix.solution = a.system_matrix.solution
      /\ r.system_matrix.nodes = a.system_matrix.nodes
  BY <1>2, <1>8, <1>10 DEF Rest, DGType
<1> QED
  BY <1>2, <1>3, <1>11, LinearSystemKnown DEF AssembledAt, r

\* An object that was solved, or new, is so again with its mass matrix, its residual
\* or another solution.
LEMMA SameAssembly ==
  ASSUME NEW d \in DGType, NEW s \in Solutions,
         NEW r \in {WithResidual(SetSolution(d, s)), SetSolution(d, s),
                    WithResidual(d)}
  PROVE  /\ r \in DGType
         /\ Rest(r) = Rest(d)
         /\ r.key_dRdW = d.key_dRdW
         /\ \A t : AssembledAt(d, t) <=> AssembledAt(r, t)
<1>1. r \in DGType
  BY WithResidualType DEF SetSolution, DGType
<1>2. /\ Rest(r) = Rest(d) /\ r.volume_nodes = d.volume_nodes
      /\ r.key_dRdW = d.key_dRdW /\ r.system_matrix = d.system_matrix
      /\ r.system_matrix_transpose = d.system_matrix_transpose
  BY DEF WithResidual, SetSolution, Rest, DGType
<1> QED
  BY <1>1, <1>2 DEF AssembledAt

\* A mesh and what was assembled on it stay when the mass matrix is evaluated.
LEMMA ReadyObject ==
  ASSUME NEW d \in DGType
  PROVE  LET r == EvaluateMassMatrices(d)
         IN  /\ r \in DGType
             /\ r.solution = d.solution
             /\ r.global_mass_matrix = r.volume_nodes
             /\ r.volume_nodes = d.volume_nodes
             /\ r.key_dRdW = d.key_dRdW
             /\ \A t : AssembledAt(d, t) => AssembledAt(r, t)
  BY DEF EvaluateMassMatrices, AssembledAt, DGType

\* The object that pseudo-time steps leave to their caller.
LEMMA SolvedObject ==
  ASSUME NEW d \in DGType, NewOrSolved(d), NEW t \in Solutions, NEW s \in Solutions
  PROVE  LET r == ReturnedAfterSteps(d, t, s)
         IN  /\ r \in DGType
             /\ r.solution = s
             /\ Rest(r) = Rest(EvaluateMassMatrices(d))
             /\ AssembledAt(r, t)
             /\ r.right_hand_side = EvaluatedResidual(s, r.volume_nodes)
<1> DEFINE m == EvaluateMassMatrices(d)
           a == SetSolution(m, t)
           b == LinearSystem(a, 1)
           r == ReturnedAfterSteps(d, t, s)
<1>1. /\ m \in DGType /\ m.global_mass_matrix = m.volume_nodes
      /\ NewOrSolved(m)
  BY ReadyObject DEF NewOrSolved
<1> HIDE DEF m
<1>2. /\ a \in DGType /\ a.solution = t
      /\ a.global_mass_matrix = a.volume_nodes
      /\ Rest(a) = Rest(m) /\ a.key_dRdW = m.key_dRdW
      /\ \A u : AssembledAt(m, u) => AssembledAt(a, u)
  BY <1>1 DEF SetSolution, Rest, AssembledAt, DGType
<1>3. NewOrSolved(a)
  BY <1>1, <1>2 DEF NewOrSolved
<1> HIDE DEF a
<1>4. b \in DGType /\ Rest(b) = Rest(m) /\ AssembledAt(b, t)
  BY <1>2, <1>3, StepAssembles
<1> HIDE DEF b
<1>5. r = WithResidual(SetSolution(b, s))
  BY DEF ReturnedAfterSteps, m, a, b
<1> HIDE DEF r
<1>6. Rest(r) = Rest(m) /\ AssembledAt(r, t)
  BY <1>4, <1>5, SameAssembly
<1>7. /\ r \in DGType /\ r.solution = s
      /\ r.right_hand_side = EvaluatedResidual(s, r.volume_nodes)
  BY <1>4, <1>5, TriedObject
<1> QED
  BY <1>6, <1>7 DEF m, r

\* Two objects with the same solution and residual, of which nothing else differs
\* than the weights of a matrix last assembled at the same solution.
LEMMA SameUpToWeights ==
  ASSUME NEW d \in DGType, NEW e \in DGType, NEW s,
         d.solution = e.solution, d.right_hand_side = e.right_hand_side,
         Rest(d) = Rest(e), AssembledAt(d, s), AssembledAt(e, s)
  PROVE  EqualUpToWeights(d, e)
<1>1. /\ d.volume_nodes = e.volume_nodes /\ d.dual = e.dual
      /\ d.global_mass_matrix = e.global_mass_matrix
      /\ d.dRdXv = e.dRdXv /\ d.d2R = e.d2R
      /\ d.key_dRdX = e.key_dRdX /\ d.key_d2R = e.key_d2R
  BY DEF Rest
<1>2. /\ d.key_dRdW = e.key_dRdW
      /\ d.system_matrix_transpose = e.system_matrix_transpose
      /\ d.system_matrix.solution = e.system_matrix.solution
      /\ d.system_matrix.nodes = e.system_matrix.nodes
  BY <1>1 DEF AssembledAt
<1>3. [d EXCEPT !.system_matrix = e.system_matrix] = e
  BY <1>1, <1>2 DEF DGType
<1> QED
  BY <1>2, <1>3 DEF EqualUpToWeights

LEMMA ObjectInit == Init => ObjectInv
<1> SUFFICES ASSUME Init PROVE ObjectInv
  OBVIOUS
<1>1. PICK n \in Nodes, s \in Solutions :
        \/ dg = SetSolution(AllocatedDG(n), s)
        \/ \E t \in Solutions :
             dg = ReturnedAfterSteps(SetSolution(AllocatedDG(n), s), t, s)
  BY DEF Init
<1> DEFINE new == SetSolution(AllocatedDG(n), s)
<1>2. new \in DGType /\ NewOrSolved(new)
  BY DEF SetSolution, AllocatedDG, DGType, Residual, ResidualType, ZeroMatrix,
         Matrix, MatrixType, NewOrSolved
<1> HIDE DEF new
<1>3. NewOrSolved(dg)
  BY <1>1, <1>2, SolvedObject DEF NewOrSolved, new
<1> QED
  BY <1>3 DEF Init, ObjectInv

LEMMA ObjectNext ==
  ASSUME Inv, ObjectInv, [Next]_vars
  PROVE  ObjectInv'
<1>1. /\ given' = given /\ given \in DGType /\ given.solution = initial_solution
      /\ initial_solution \in Solutions
      /\ NewOrSolved(given)
      /\ pc = "call" => dg = given
      /\ pc # "done" => dg \in DGType
      /\ Ready \in DGType /\ Ready.global_mass_matrix = Ready.volume_nodes
  BY ReadyObject
     DEF Inv, TypeOK, ObjectOK, ObjectInv, Next, vars, problem, Call, Assemble,
         Solve, Shorten, SearchAgain, Accept, GiveUp, EndOfStep, EndOfIteration,
         Return, Ready
<1>2. NewOrSolved(given)' /\ Ready' = Ready
  BY <1>1 DEF NewOrSolved, AssembledAt, Ready
<1>3. CASE UNCHANGED vars
  BY <1>3 DEF vars, problem, ObjectInv, NewOrSolved, Ready, AssembledAt
<1>4. CASE Call
  <2>1. dg' = WithResidual(Ready) /\ pc' = "head"
    BY <1>1, <1>4 DEF Call, ReturnedAtOnce, Ready
  <2>2. /\ dg' \in DGType /\ Rest(dg') = Rest(Ready)
    BY <1>1, <2>1, WithResidualType, SameAssembly DEF ObjectInv
  <2>3. WithResidual(dg') = dg'
    BY <1>1, <2>1 DEF WithResidual, DGType
  <2> QED
    BY <1>1, <1>2, <2>1, <2>2, <2>3 DEF ObjectInv, ReturnedAtOnce, Ready
<1>5. CASE Assemble
  <2>1. /\ dg \in DGType /\ Rest(dg) = Rest(Ready) /\ pc' = "solve"
    BY <1>1, <1>5 DEF Assemble, ObjectInv
  <2>2. dg.global_mass_matrix = dg.volume_nodes
    BY <1>1, <2>1 DEF Rest
  <2>3. NewOrSolved(dg)
    <3>1. CASE WithResidual(dg) = ReturnedAtOnce(given)
      <4>1. WithResidual(dg) = WithResidual(Ready)
        BY <3>1 DEF ReturnedAtOnce, Ready
      <4>2. /\ dg.key_dRdW = Ready.key_dRdW
            /\ \A t : AssembledAt(Ready, t) => AssembledAt(dg, t)
        BY <1>1, <2>1, <4>1, SameAssembly
      <4>3. NewOrSolved(Ready)
        BY <1>1, ReadyObject DEF NewOrSolved, Ready
      <4> QED
        BY <4>2, <4>3 DEF NewOrSolved
    <3>2. CASE \E s \in Solutions : AssembledAt(dg, s)
      BY <3>2 DEF NewOrSolved
    <3> QED
      BY <1>5, <3>1, <3>2 DEF Assemble, ObjectInv
  <2>4. weight' \in Int
    BY <1>5, ImplicitODESolverAssumption DEF Inv, TypeOK, Assemble
  <2>5. dg' = LinearSystem(dg, weight')
    BY <1>5 DEF Assemble
  <2>6. /\ dg' \in DGType /\ Rest(dg') = Rest(Ready)
        /\ AssembledAt(dg', dg.solution) /\ dg.solution \in Solutions
    BY <2>1, <2>2, <2>3, <2>4, <2>5, StepAssembles DEF DGType
  <2> QED
    BY <1>2, <2>1, <2>6, WithResidualType DEF ObjectInv, AssembledAt
<1>6. ASSUME pc \in {"solve", "first search", "second search", "stepped"},
             NEW s \in Solutions,
             pc' \in {"first search", "second search", "stepped", "head"},
             \/ dg' = WithResidual(SetSolution(dg, s))
             \/ dg' = SetSolution(dg, s)
             \/ dg' = WithResidual(dg)
             \/ dg' = dg
      PROVE  ObjectInv'
  <2>1. dg \in DGType /\ Rest(dg) = Rest(Ready)
    BY <1>1, <1>6 DEF ObjectInv
  <2>2. PICK t \in Solutions : AssembledAt(dg, t)
    BY <1>6 DEF ObjectInv
  <2>3. \/ dg' = dg
        \/ dg' \in {WithResidual(SetSolution(dg, s)), SetSolution(dg, s),
                    WithResidual(dg)}
    BY <1>6
  <2>4. dg' \in DGType /\ Rest(dg') = Rest(Ready) /\ AssembledAt(dg', t)
    BY <2>1, <2>2, <2>3, SameAssembly
  <2>5. WithResidual(dg') \in DGType
    BY <2>4, WithResidualType
  <2> QED
    BY <1>2, <1>6, <2>4, <2>5 DEF ObjectInv, AssembledAt
<1>7. CASE Solve
  <2>1. ray'[0] \in Solutions
    BY <1>7, TrialNumbers DEF Solve
  <2> QED
    BY <1>6, <1>7, <2>1 DEF Solve
<1>8. CASE Shorten
  <2>1. iline \in 0 .. MaxLine /\ iline < MaxLine /\ iline' = iline + 1
    BY <1>8 DEF Shorten, Inv, TypeOK
  <2>2. iline' \in Trials
    BY <2>1, NormTypes DEF Trials, Over
  <2>3. ray[iline'] \in Solutions
    BY <1>8, <2>2 DEF Shorten, Inv, NormsOK, Searching
  <2> QED
    BY <1>6, <1>8, <2>3 DEF Shorten
<1>9. CASE SearchAgain
  <2>1. ray[Over] \in Solutions
    BY <1>9, TrialNumbers DEF SearchAgain, Inv, NormsOK, Searching
  <2> QED
    BY <1>6, <1>9, <2>1 DEF SearchAgain
<1>10. CASE Accept
  BY <1>1, <1>6, <1>10 DEF Accept, EndOfStep
<1>11. CASE GiveUp
  <2>1. old_solution \in Solutions
    BY <1>11 DEF GiveUp, Inv, NormsOK, Searching
  <2> QED
    BY <1>6, <1>11, <2>1 DEF GiveUp, EndOfStep
<1>12. CASE EndOfIteration
  BY <1>1, <1>6, <1>12 DEF EndOfIteration
<1>13. CASE Return
  <2> DEFINE e == SetSolution(dg, initial_solution)
  <2>1. /\ dg \in DGType /\ e \in DGType /\ Rest(dg) = Rest(Ready)
        /\ Rest(e) = Rest(dg)
        /\ \A t : AssembledAt(dg, t) => AssembledAt(e, t)
    <3>1. dg \in DGType /\ Rest(dg) = Rest(Ready)
      BY <1>1, <1>13 DEF Return, ObjectInv
    <3> QED
      BY <1>1, <3>1, SameAssembly
  <2>2. WithResidual(dg) = ReturnedAtOnce(given) => WithResidual(e) = WithResidual(dg)
    <3> SUFFICES ASSUME WithResidual(dg) = ReturnedAtOnce(given)
                 PROVE  e = dg
      OBVIOUS
    <3>1. WithResidual(dg) = WithResidual(Ready)
      BY DEF ReturnedAtOnce, Ready
    <3>2. dg.solution = Ready.solution
      BY <1>1, <2>1, <3>1, ResidualKnown
    <3>3. dg.solution = initial_solution
      BY <1>1, <3>2, ReadyObject DEF Ready
    <3> QED
      BY <2>1, <3>3 DEF SetSolution, DGType
  <2>3. dg' \in {[e EXCEPT !.right_hand_side.kind = "shifted"], e, dg}
    BY <1>13 DEF Return
  <2> HIDE DEF e
  <2>4. ASSUME NEW f, f = [e EXCEPT !.right_hand_side.kind = "shifted"]
        PROVE  /\ WithResidual(f) = WithResidual(e)
               /\ Rest(f) = Rest(e)
               /\ \A t : AssembledAt(e, t) => AssembledAt(f, t)
    <3>1. PICK g : f = [e EXCEPT !.right_hand_side = g]
      BY <2>4
    <3> QED
      BY <2>1, <3>1 DEF WithResidual, Rest, AssembledAt, DGType
  <2>5. /\ Rest(dg') = Rest(Ready)
        /\ \A t : AssembledAt(dg, t) => AssembledAt(dg', t)
        /\ WithResidual(dg') \in {WithResidual(e), WithResidual(dg)}
    BY <2>1, <2>3, <2>4
  <2>6. WithResidual(dg') \in DGType
    BY <2>1, <2>5, WithResidualType
  <2>7. \/ WithResidual(dg') = ReturnedAtOnce(given)
        \/ \E t \in Solutions : AssembledAt(dg', t)
    BY <1>13, <2>2, <2>5 DEF ObjectInv, Return
  <2>8. pc' = "done"
    BY <1>13 DEF Return
  <2> QED
    BY <1>1, <1>2, <2>5, <2>6, <2>7, <2>8
       DEF ObjectInv, AssembledAt, ReturnedAtOnce
<1> QED
  BY <1>3, <1>4, <1>5, <1>7, <1>8, <1>9, <1>10, <1>11, <1>12, <1>13 DEF Next

(***************************************************************************)
(* The theorems.                                                           *)
(***************************************************************************)
\* steady_state keeps the types of what it works on: CFL_factor, in particular,
\* stays within as many doublings and halvings as there are iterations.
THEOREM TypeCorrect == Spec => []TypeOK
  BY Invariance, PTL DEF Inv

\* The linear system of a step has the residual of the solution the step starts
\* from, although step_in_time may find the Jacobian already assembled.
THEOREM SystemCorrect == Spec => []SystemHasResidual
<1>1. Inv => SystemHasResidual
  BY DEF Inv, ResidualOK, SystemHasResidual
<1> QED
  BY <1>1, Invariance, PTL

\* The line search leaves no solution with more than twice the residual of the one
\* it started from.
THEOREM SearchCorrect == Spec => SearchBoundsResidual
<1>1. Inv /\ [Next]_vars =>
        [pc' = "stepped" /\ dg'.solution # old_solution =>
           ~Exceeds(NormAt(dg'.solution), Twice(NormAt(old_solution)))]_vars
  <2> SUFFICES ASSUME Inv, Next, pc' = "stepped", dg'.solution # old_solution
               PROVE  ~Exceeds(NormAt(dg'.solution), Twice(NormAt(old_solution)))
    OBVIOUS
  <2>1. Accept
    <3>1. GiveUp => dg'.solution = old_solution
      BY DEF GiveUp, SetSolution, Inv, ObjectOK, DGType
    <3> QED
      BY <3>1 DEF Next, Call, Assemble, Solve, Shorten, SearchAgain, EndOfIteration,
                  Return
  <2>2. /\ dg' = dg /\ Searching /\ dg \in DGType
        /\ dg.right_hand_side = EvaluatedResidual(dg.solution, mesh)
        /\ old_solution \in Solutions
        /\ initial_residual = NormAt(old_solution)
        /\ initial_residual \in Norms \cup {0, OnesNorm}
    BY <2>1 DEF Accept, Searching, Inv, TypeOK, ObjectOK, ResidualOK, NormsOK
  <2>3. /\ ResidualNorm(dg) = NormAt(dg.solution)
        /\ NormAt(dg.solution) \in Norms \cup {OnesNorm}
    BY <2>2, NormOfResidual DEF Inv, TypeOK, DGType, mesh
  <2>4. \/ ~Exceeds(ResidualNorm(dg), initial_residual)
        \/ ~Exceeds(ResidualNorm(dg), Twice(initial_residual))
    BY <2>1 DEF Accept, Rejects
  <2> QED
    BY <2>2, <2>3, <2>4, NormTypes, TwiceExceeds
<1> QED
  BY <1>1, Invariance, PTL DEF Spec, SearchBoundsResidual

\* Where no residual is NaN, steady_state returns a solution as converged only if
\* the residual of that solution meets one of the tolerances.
THEOREM ConvergedCorrect ==
  ASSUME NaN \notin Norms
  PROVE  Spec => []ConvergedReturn
  BY ConvergedInvariance, PTL

\* steady_state returns the solution it was given or one that has not diverged and
\* is not NaN.
THEOREM UsableCorrect == Spec => []ReturnsUsableSolution
<1>1. Init => ReturnsUsableSolution
  BY DEF Init, ReturnsUsableSolution
<1>2. Inv /\ ReturnsUsableSolution /\ [Next]_vars => ReturnsUsableSolution'
  <2> SUFFICES ASSUME Inv, ReturnsUsableSolution, [Next]_vars, pc' = "done"
               PROVE  (\/ dg.solution = initial_solution
                       \/ /\ NormAt(dg.solution) # NaN
                          /\ NormAt(dg.solution) <= DivergedNorm)'
    BY DEF ReturnsUsableSolution
  <2>1. CASE UNCHANGED vars
    BY <2>1 DEF vars, problem, steady_vars, search_vars, ReturnsUsableSolution,
                mesh, NormAt, Evaluable
  <2>2. CASE Next
    <3>1. Return
      BY <2>2 DEF Next, Call, Assemble, Solve, Shorten, SearchAgain, Accept, GiveUp,
                  EndOfStep, EndOfIteration
    <3>2. /\ dg \in DGType /\ residual_norm = NormAt(dg.solution)
          /\ norm' = norm /\ initial_solution' = initial_solution
          /\ residual_norm \in Nat \cup {NaN}
      BY <3>1, NormTypes
         DEF Return, Inv, TypeOK, ObjectOK, NormsOK, problem, steady_vars
    <3>3. CASE dg' = dg /\ residual_norm # NaN /\ ~Exceeds(residual_norm, DivergedNorm)
      <4>1. NormAt(dg.solution)' = residual_norm
        BY <3>2, <3>3 DEF NormAt, Evaluable, mesh
      <4>2. residual_norm <= DivergedNorm
        BY <3>2, <3>3, NormTypes DEF Exceeds
      <4> QED
        BY <3>3, <4>1, <4>2
    <3>4. CASE dg' # dg \/ residual_norm = NaN \/ Exceeds(residual_norm, DivergedNorm)
      <4> DEFINE e == SetSolution(dg, initial_solution)
      <4>1. e \in DGType /\ e.solution = initial_solution
        BY <3>2 DEF Inv, TypeOK, SetSolution, DGType
      <4>2. dg' \in {[e EXCEPT !.right_hand_side.kind = "shifted"], e}
        BY <3>1, <3>4 DEF Return
      <4> HIDE DEF e
      <4> QED
        BY <3>2, <4>1, <4>2 DEF DGType
    <3> QED
      BY <3>1, <3>3, <3>4 DEF Return
  <2> QED
    BY <2>1, <2>2
<1> QED
  BY <1>1, <1>2, Invariance, PTL DEF Spec

\* steady_state implements SteadyState: what it returns is, up to the weights of
\* the matrix it changed in place, what one of the steps of SteadyState leaves.
THEOREM SteadyStateCorrect == Spec => []ReturnsSteadyState
<1>1. Inv /\ ObjectInv => ReturnsSteadyState
  <2> SUFFICES ASSUME Inv, ObjectInv, pc = "done"
               PROVE  \E d \in SteadyStates(given) :
                        EqualUpToWeights(WithResidual(dg), d)
    BY DEF ReturnsSteadyState
  <2>1. /\ WithResidual(dg) \in DGType /\ given \in DGType
        /\ Rest(dg) = Rest(Ready) /\ NewOrSolved(given)
    BY DEF Inv, ObjectOK, ObjectInv
  <2>2. CASE WithResidual(dg) = ReturnedAtOnce(given)
    BY <2>1, <2>2 DEF SteadyStates, EqualUpToWeights, DGType
  <2>3. ASSUME NEW s \in Solutions, AssembledAt(dg, s)
        PROVE  \E d \in SteadyStates(given) : EqualUpToWeights(WithResidual(dg), d)
    <3> DEFINE e == ReturnedAfterSteps(given, s, dg.solution)
               r == WithResidual(dg)
    <3>1. dg.solution \in Solutions
      BY DEF Inv, TypeOK
    <3>2. /\ e \in DGType /\ e.solution = dg.solution
          /\ Rest(e) = Rest(Ready) /\ AssembledAt(e, s)
          /\ e.right_hand_side = EvaluatedResidual(dg.solution, e.volume_nodes)
          /\ e \in SteadyStates(given)
      BY <2>1, <3>1, SolvedObject DEF Ready, SteadyStates
    <3>3. /\ r.solution = dg.solution /\ Rest(r) = Rest(dg) /\ AssembledAt(r, s)
          /\ r.right_hand_side = EvaluatedResidual(dg.solution, dg.volume_nodes)
      BY <2>1, <2>3 DEF WithResidual, Rest, AssembledAt, DGType
    <3>4. dg.volume_nodes = e.volume_nodes
      BY <2>1, <3>2 DEF Rest
    <3> HIDE DEF e, r
    <3> QED
      BY <2>1, <3>2, <3>3, <3>4, SameUpToWeights DEF r
  <2> QED
    BY <2>2, <2>3 DEF ObjectInv
<1>2. Inv /\ ObjectInv /\ [Next]_vars => ObjectInv'
  BY ObjectNext
<1> QED
  BY <1>1, <1>2, ObjectInit, Invariance, PTL DEF Spec

(***************************************************************************)
(* Every step brings a solve closer to its end: an iteration more, or a    *)
(* stage further in the iteration, or a trial more in a line search.       *)
(* TypeCorrect bounds the iterations by MaxIterations, the trials of each  *)
(* search by MaxLine.                                                      *)
(***************************************************************************)
\* The stages that are left in an iteration at place p.
Stage(p) ==
  CASE p = "call" -> 6            [] p = "stepped" -> 5
    [] p = "head" -> 4            [] p = "solve" -> 3
    [] p = "first search" -> 2    [] p = "second search" -> 1
    [] p = "done" -> 0

Descends ==
  \/ current_iteration' = current_iteration + 1
  \/ UNCHANGED current_iteration /\ Stage(pc') < Stage(pc)
  \/ UNCHANGED <<current_iteration, pc>> /\ iline' = iline + 1

LEMMA StageOrder ==
  /\ Stage("head") < Stage("call") /\ Stage("head") < Stage("stepped")
  /\ Stage("solve") < Stage("head") /\ Stage("done") < Stage("head")
  /\ Stage("first search") < Stage("solve")
  /\ Stage("second search") < Stage("first search")
  BY DEF Stage

\* A solve comes closer to its end with every step, whatever its linear solves and
\* its line searches return.
THEOREM SolveDescends == Spec => [][Descends]_vars
<1>1. ASSUME Next PROVE Descends
  <2>1. CASE Call
    BY <2>1, StageOrder DEF Call, Descends
  <2>2. CASE Assemble
    BY <2>2, StageOrder DEF Assemble, Descends
  <2>3. CASE Solve
    BY <2>3, StageOrder DEF Solve, Descends
  <2>4. CASE Shorten
    BY <2>4 DEF Shorten, Descends
  <2>5. CASE SearchAgain
    BY <2>5, StageOrder DEF SearchAgain, Descends
  <2>6. CASE Accept
    BY <2>6 DEF Accept, EndOfStep, Descends
  <2>7. CASE GiveUp
    BY <2>7 DEF GiveUp, EndOfStep, Descends
  <2>8. CASE EndOfIteration
    BY <2>8, StageOrder DEF EndOfIteration, Descends
  <2>9. CASE Return
    BY <2>9, StageOrder DEF Return, Descends
  <2> QED
    BY <1>1, <2>1, <2>2, <2>3, <2>4, <2>5, <2>6, <2>7, <2>8, <2>9 DEF Next
<1>2. [Next]_vars => [Descends]_vars
  BY <1>1
<1> QED
  BY <1>2, PTL DEF Spec
=============================================================================
