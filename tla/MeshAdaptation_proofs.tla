------------------------- MODULE MeshAdaptation_proofs -------------------------
(***************************************************************************)
(* The adaptation cycles, for any mesh of an interval, any degrees, any    *)
(* number of cycles and any cells flagged: the solution fits the           *)
(* discretization through every reallocation, the errors are those of the  *)
(* solution the estimate was asked for, an estimate gives back what it     *)
(* took, the mesh is adapted to converged solutions only, and every step   *)
(* comes closer to the end of the run.                                     *)
(*                                                                         *)
(* The invariant follows an estimate from pc to pc: what the estimator has *)
(* saved is the solution it was asked for; on the elevated discretization  *)
(* the object holds that solution and, since it was allocated anew, no     *)
(* record of a Jacobian, so that the adjoint's is assembled there; and the *)
(* functional's record, which outlives the reallocations, is of what the   *)
(* functional holds.                                                       *)
(***************************************************************************)
EXTENDS MeshAdaptation, TLAPS

\* No solution is taken for the value of a vector that was never set.
NoneIsNoSolution == \A v, d : None # [values |-> v, on |-> d]

\* The DG object is a record of its members, and a solution of its two parts.
IsDG(d) ==
  d = [solution |-> d.solution, volume_nodes |-> d.volume_nodes, dual |-> d.dual,
       right_hand_side |-> d.right_hand_side,
       system_matrix |-> d.system_matrix,
       system_matrix_transpose |-> d.system_matrix_transpose,
       global_mass_matrix |-> d.global_mass_matrix,
       dRdXv |-> d.dRdXv, d2R |-> d.d2R, key_dRdW |-> d.key_dRdW,
       key_dRdX |-> d.key_dRdX, key_d2R |-> d.key_d2R]

IsSolution(s) == s = [values |-> s.values, on |-> s.on]

IsEstimator(e) ==
  e = [state |-> e.state, solution_coarse |-> e.solution_coarse,
       coarse_fe_index |-> e.coarse_fe_index, adjoint_fine |-> e.adjoint_fine]

Norms == {"small", "large", "NaN"}

(***************************************************************************)
(* The invariant.                                                          *)
(***************************************************************************)
\* The cells are pairs, of the levels that are allowed.
IsMesh(d) ==
  /\ d = [c \in DOMAIN d |-> d[c]]
  /\ DOMAIN d \subseteq (0 .. MaxLevel) \X Nat
  /\ \A c \in DOMAIN d : d[c] \in Nat

UpTo(d, n) == \A c \in DOMAIN d : d[c] <= n

ObjectOK ==
  /\ IsDG(dg) /\ IsSolution(dg.solution)
  /\ SolutionOnDiscretization
  /\ IsMesh(discretization)
  /\ functional.at["dIdW"] = functional.holds["dIdW"]

Counting ==
  /\ parameters \in AdaptationParameters
  /\ cycle \in 0 .. parameters.cycles
  /\ pc = "ramp" => ramp \in 0 .. parameters.poly_degree
  /\ ramp \in 0 .. (parameters.poly_degree + 1)
  /\ pc \in {"estimate", "refine degree", "adjoint", "weigh", "restore", "refine"}
       => cycle < parameters.cycles

NormOK ==
  /\ residual_norm \in Norms \cup {None}
  /\ pc \in {"check", "estimate"} =>
       residual_norm \in Norms /\ (residual_norm = "small" => Converged(dg.solution))
  /\ pc = "estimate" => residual_norm # "large"

Estimating == pc \in {"refine degree", "adjoint", "weigh", "restore"}

FineSolution == Prolonged(estimated, Elevated(estimated.on))
FineNodes == DOMAIN estimated.on

EstimatorOK ==
  /\ IsEstimator(estimator)
  /\ estimator.state \in {"coarse", "fine"}
  /\ IsMesh(estimator.solution_coarse.on)
  /\ Estimating =>
       /\ parameters.goal
       /\ IsSolution(estimated) /\ IsMesh(estimated.on)
       /\ estimator.solution_coarse = estimated
       /\ estimator.coarse_fe_index = estimated.on
  /\ pc \in {"refine degree", "refine"} =>
       dg.solution = estimated /\ discretization = estimated.on
  /\ pc \in {"adjoint", "weigh", "restore"} =>
       dg.solution = FineSolution /\ discretization = Elevated(estimated.on)

AdjointOK ==
  /\ pc = "adjoint" => dg.key_dRdW = <<None, None, 0>>
  /\ pc = "weigh" =>
       /\ dg.right_hand_side = Residual("residual", FineSolution, FineNodes)
       /\ estimator.adjoint_fine =
            [matrix |-> Matrix(FineSolution, FineNodes, 1, 0, None),
             dIdW |-> <<FineSolution, FineNodes>>]
  /\ IndicatorIsOfSolution

Places ==
  pc \in {"ramp", "solve", "check", "estimate", "refine degree", "adjoint",
          "weigh", "restore", "refine", "done", "aborted", "undefined"}

Inv ==
  /\ Places /\ ObjectOK /\ Counting /\ NormOK /\ EstimatorOK /\ AdjointOK

(***************************************************************************)
(* The operations of the DG object.                                        *)
(***************************************************************************)
\* The operations that write one member.
LEMMA Setters ==
  ASSUME NEW d, IsDG(d), NEW s, NEW n
  PROVE  /\ IsDG(SetSolution(d, s)) /\ SetSolution(d, s).solution = s
         /\ SetSolution(d, s).volume_nodes = d.volume_nodes
         /\ SetSolution(d, s).key_dRdW = d.key_dRdW
         /\ IsDG(SetNodes(d, n)) /\ SetNodes(d, n).volume_nodes = n
         /\ SetNodes(d, n).solution = d.solution
         /\ IsDG(EvaluateMassMatrices(d))
         /\ EvaluateMassMatrices(d).solution = d.solution
         /\ EvaluateMassMatrices(d).volume_nodes = d.volume_nodes
  BY DEF IsDG, SetSolution, SetNodes, EvaluateMassMatrices

\* Evaluating the residual leaves the solution, the nodes and the records alone.
LEMMA Residuals ==
  ASSUME NEW d, IsDG(d)
  PROVE  /\ IsDG(WithResidual(d))
         /\ WithResidual(d).solution = d.solution
         /\ WithResidual(d).volume_nodes = d.volume_nodes
         /\ WithResidual(d).key_dRdW = d.key_dRdW
         /\ WithResidual(d).system_matrix_transpose = d.system_matrix_transpose
         /\ WithResidual(d).right_hand_side =
              Residual("residual", d.solution, d.volume_nodes)
  BY DEF IsDG, WithResidual, EvaluatedResidual

\* So does assembling the Jacobian, whose transpose is then that of the object's
\* solution unless the record says that it was assembled before.
LEMMA Jacobians ==
  ASSUME NEW d, IsDG(d), NEW c
  PROVE  /\ IsDG(With_dRdW(d, c))
         /\ With_dRdW(d, c).solution = d.solution
         /\ With_dRdW(d, c).volume_nodes = d.volume_nodes
         /\ \E m : With_dRdW(d, c).system_matrix_transpose =
                     EvaluatedMatrix(d.solution, d.volume_nodes, c, m)
<1> DEFINE m == MassNodesUsed(d)
           M == EvaluatedMatrix(d.solution, d.volume_nodes, c, m)
           k == <<d.solution, d.volume_nodes, c>>
<1>1. With_dRdW(d, c) = [d EXCEPT !.key_dRdW = k, !.global_mass_matrix = m,
                                  !.system_matrix = M,
                                  !.system_matrix_transpose = M]
  BY DEF With_dRdW
<1>2. M = EvaluatedMatrix(d.solution, d.volume_nodes, c, m)
  OBVIOUS
<1> HIDE DEF m, M, k
<1>3. /\ IsDG(With_dRdW(d, c))
      /\ With_dRdW(d, c).solution = d.solution
      /\ With_dRdW(d, c).volume_nodes = d.volume_nodes
      /\ With_dRdW(d, c).system_matrix_transpose = M
  BY <1>1 DEF IsDG
<1> QED
  BY <1>2, <1>3

\* assemble_residual with or without the Jacobian.
LEMMA Assembling ==
  ASSUME NEW d, IsDG(d), NEW x \in {"none", "dRdW"}
  PROVE  /\ IsDG(AssembleResidual(d, x, 0))
         /\ AssembleResidual(d, x, 0).solution = d.solution
         /\ AssembleResidual(d, x, 0).volume_nodes = d.volume_nodes
<1>1. CASE AlreadyAssembled(d, x, 0)
  BY <1>1 DEF AssembleResidual
<1>2. CASE ~AlreadyAssembled(d, x, 0) /\ x = "none"
  <2>1. AssembleResidual(d, x, 0) = WithResidual(d)
    BY <1>2 DEF AssembleResidual
  <2> QED
    BY <2>1, Residuals
<1>3. CASE ~AlreadyAssembled(d, x, 0) /\ x = "dRdW"
  <2>1. AssembleResidual(d, x, 0) = WithResidual(With_dRdW(d, 0))
    BY <1>3 DEF AssembleResidual
  <2> QED
    BY <2>1, Residuals, Jacobians
<1> QED
  BY <1>1, <1>2, <1>3

\* An object that was allocated anew has no record of its Jacobian, and assembles
\* it when it is asked to.
LEMMA AssemblingAnew ==
  ASSUME NEW d, IsDG(d), d.key_dRdW = <<None, None, 0>>, d.solution # None
  PROVE  /\ AssembleResidual(d, "dRdW", 0).right_hand_side =
              Residual("residual", d.solution, d.volume_nodes)
         /\ AssembleResidual(d, "dRdW", 0).system_matrix_transpose =
              Matrix(d.solution, d.volume_nodes, 1, 0, None)
<1>1. ~AlreadyAssembled(d, "dRdW", 0)
  BY DEF AlreadyAssembled
<1>2. AssembleResidual(d, "dRdW", 0) = WithResidual(With_dRdW(d, 0))
  BY <1>1 DEF AssembleResidual
<1>3. \A m : EvaluatedMatrix(d.solution, d.volume_nodes, 0, m)
               = Matrix(d.solution, d.volume_nodes, 1, 0, None)
  BY DEF EvaluatedMatrix, Matrix
<1> QED
  BY <1>2, <1>3, Residuals, Jacobians

\* A pseudo-time step up to its linear solve.
LEMMA LinearSystems ==
  ASSUME NEW d, IsDG(d)
  PROVE  /\ IsDG(LinearSystem(d, 1))
         /\ LinearSystem(d, 1).solution = d.solution
         /\ LinearSystem(d, 1).volume_nodes = d.volume_nodes
<1> DEFINE e == AssembleResidual(d, "dRdW", 0)
           f == NegateSystemMatrix(e)
<1>1. IsDG(e) /\ e.solution = d.solution /\ e.volume_nodes = d.volume_nodes
  BY Assembling
<1>2. LinearSystem(d, 1) = AddMass(f, 1)
  BY DEF LinearSystem
<1> HIDE DEF e
<1>3. IsDG(f) /\ f.solution = d.solution /\ f.volume_nodes = d.volume_nodes
  <2> DEFINE n == Negated(e.system_matrix)
  <2>1. f = [e EXCEPT !.system_matrix = n]
    BY DEF NegateSystemMatrix
  <2> HIDE DEF n, f
  <2> QED
    BY <1>1, <2>1 DEF IsDG
<1> HIDE DEF f
<1> DEFINE a == MassAdded(f.system_matrix, 1, f.global_mass_matrix)
<1>4. AddMass(f, 1) = [f EXCEPT !.system_matrix = a]
  BY DEF AddMass
<1> HIDE DEF a
<1> QED
  BY <1>2, <1>3, <1>4 DEF IsDG

\* allocate_system: of the old object nothing is left that a record describes.
LEMMA Reallocations ==
  ASSUME NEW new, NEW s, IsDG(dg)
  PROVE  /\ IsDG(SetSolution(Reallocated(new), s))
         /\ SetSolution(Reallocated(new), s).solution = s
         /\ SetSolution(Reallocated(new), s).volume_nodes = DOMAIN new
         /\ SetSolution(Reallocated(new), s).key_dRdW = <<None, None, 0>>
<1> DEFINE r == Reallocated(new)
           n == SetNodes(dg, DOMAIN new)
           m == IF Dofs(new) = Dofs(discretization)
                THEN dg.global_mass_matrix ELSE None
<1>1. r = [AllocatedDG(n.volume_nodes) EXCEPT !.global_mass_matrix = m]
  BY DEF Reallocated, AllocateSystem
<1>2. n.volume_nodes = DOMAIN new
  BY Setters
<1> HIDE DEF r, m, n
<1>3. IsDG(r) /\ r.volume_nodes = DOMAIN new /\ r.key_dRdW = <<None, None, 0>>
  BY <1>1, <1>2 DEF AllocatedDG, IsDG
<1>4. /\ IsDG(SetSolution(r, s)) /\ SetSolution(r, s).solution = s
      /\ SetSolution(r, s).volume_nodes = r.volume_nodes
      /\ SetSolution(r, s).key_dRdW = r.key_dRdW
  BY <1>3, Setters
<1> QED
  BY <1>3, <1>4 DEF r

(***************************************************************************)
(* steady_state and the cells.                                             *)
(***************************************************************************)
\* The object after a steady_state that returned at once, and after its steps.
LEMMA Returns ==
  ASSUME NEW d, IsDG(d), NEW s, NEW returned
  PROVE  /\ IsDG(ReturnedAtOnce(d))
         /\ ReturnedAtOnce(d).solution = d.solution
         /\ ReturnedAtOnce(d).volume_nodes = d.volume_nodes
         /\ IsDG(ReturnedAfterSteps(d, s, returned))
         /\ ReturnedAfterSteps(d, s, returned).solution = returned
         /\ ReturnedAfterSteps(d, s, returned).volume_nodes = d.volume_nodes
<1> DEFINE e == EvaluateMassMatrices(d)
           f == SetSolution(e, s)
           g == LinearSystem(f, 1)
           h == SetSolution(g, returned)
<1>1. IsDG(e) /\ e.solution = d.solution /\ e.volume_nodes = d.volume_nodes
  BY Setters
<1>2. ReturnedAtOnce(d) = WithResidual(e)
  BY DEF ReturnedAtOnce
<1>3. ReturnedAfterSteps(d, s, returned) = WithResidual(h)
  BY DEF ReturnedAfterSteps
<1>4. /\ IsDG(ReturnedAtOnce(d)) /\ ReturnedAtOnce(d).solution = d.solution
      /\ ReturnedAtOnce(d).volume_nodes = d.volume_nodes
  <2> HIDE DEF e
  <2> QED
    BY <1>1, <1>2, Residuals
<1>5. IsDG(f) /\ f.volume_nodes = d.volume_nodes
  <2> HIDE DEF e
  <2> QED
    BY <1>1, Setters
<1>6. IsDG(g) /\ g.volume_nodes = d.volume_nodes
  <2> HIDE DEF f
  <2> QED
    BY <1>5, LinearSystems
<1>7. IsDG(h) /\ h.volume_nodes = d.volume_nodes /\ h.solution = returned
  <2> HIDE DEF g
  <2> QED
    BY <1>6, Setters
<1> HIDE DEF h
<1> QED
  BY <1>3, <1>4, <1>7, Residuals

\* The solutions of steady_state.
LEMMA NewSolutions ==
  ASSUME NEW kind, NEW d
  PROVE  /\ IsSolution(Solution(kind, d)) /\ Solution(kind, d).on = d
         /\ IsSolution(SteadyOn(d)) /\ SteadyOn(d).on = d
         /\ Converged(SteadyOn(d))
  BY DEF IsSolution, Solution, SteadyOn, Converged

\* steady_state keeps the discretization, and a small norm is that of a steady
\* state.
LEMMA SteadyResult ==
  ASSUME NEW d, IsDG(d), IsSolution(d.solution), NEW r \in SteadyResults(d)
  PROVE  /\ IsDG(r.dg) /\ r.dg.volume_nodes = d.volume_nodes
         /\ IsSolution(r.dg.solution) /\ r.dg.solution.on = d.solution.on
         /\ r.norm \in Norms
         /\ r.norm = "small" => Converged(r.dg.solution)
<1> DEFINE given   == d.solution
           iterate == Solution("iterate", given.on)
           steady  == SteadyOn(given.on)
           Stepped(returned) ==
             {ReturnedAfterSteps(d, s, returned) : s \in {given, iterate}}
           Shifted(e) == [SetSolution(e, given)
                            EXCEPT !.right_hand_side.kind = "shifted"]
<1>1. /\ IsSolution(iterate) /\ iterate.on = given.on
      /\ IsSolution(steady) /\ steady.on = given.on /\ Converged(steady)
  BY NewSolutions
<1>2. SteadyResults(d) =
        IF Converged(given) THEN {[dg |-> ReturnedAtOnce(d), norm |-> "small"]}
        ELSE      {[dg |-> ReturnedAtOnce(SetSolution(d, steady)),
                    norm |-> "small"]}
             \cup {[dg |-> e, norm |-> "small"] : e \in Stepped(steady)}
             \cup {[dg |-> e, norm |-> "large"] : e \in Stepped(iterate)}
             \cup {[dg |-> SetSolution(e, given), norm |-> n] :
                     e \in Stepped(iterate), n \in {"large", "NaN"}}
             \cup {[dg |-> Shifted(e), norm |-> "large"] : e \in Stepped(iterate)}
  BY DEF SteadyResults
<1>3. ASSUME NEW returned, NEW e \in Stepped(returned)
      PROVE  /\ IsDG(e) /\ e.solution = returned
             /\ e.volume_nodes = d.volume_nodes
             /\ IsDG(SetSolution(e, given)) /\ SetSolution(e, given).solution = given
             /\ SetSolution(e, given).volume_nodes = d.volume_nodes
  <2>1. PICK s : e = ReturnedAfterSteps(d, s, returned)
    OBVIOUS
  <2>2. /\ IsDG(e) /\ e.solution = returned
        /\ e.volume_nodes = d.volume_nodes
    BY <2>1, Returns
  <2> QED
    BY <2>2, Setters
<1>4. ASSUME NEW e \in Stepped(iterate)
      PROVE  /\ IsDG(Shifted(e)) /\ Shifted(e).solution = given
             /\ Shifted(e).volume_nodes = d.volume_nodes
  <2> DEFINE f == SetSolution(e, given)
             rhs == [f.right_hand_side EXCEPT !.kind = "shifted"]
  <2>1. Shifted(e) = [f EXCEPT !.right_hand_side = rhs]
    OBVIOUS
  <2>2. IsDG(f) /\ f.solution = given /\ f.volume_nodes = d.volume_nodes
    BY <1>3
  <2> HIDE DEF f, rhs, Shifted
  <2> QED
    BY <2>1, <2>2 DEF IsDG
<1>5. /\ IsDG(ReturnedAtOnce(d)) /\ ReturnedAtOnce(d).solution = given
      /\ ReturnedAtOnce(d).volume_nodes = d.volume_nodes
  BY Returns
<1>6. LET e == ReturnedAtOnce(SetSolution(d, steady))
      IN  IsDG(e) /\ e.solution = steady /\ e.volume_nodes = d.volume_nodes
  <2> DEFINE f == SetSolution(d, steady)
  <2>1. IsDG(f) /\ f.solution = steady /\ f.volume_nodes = d.volume_nodes
    BY Setters
  <2> HIDE DEF f
  <2>2. /\ IsDG(ReturnedAtOnce(f)) /\ ReturnedAtOnce(f).solution = steady
        /\ ReturnedAtOnce(f).volume_nodes = d.volume_nodes
    BY <2>1, Returns
  <2> QED
    BY <2>2 DEF f
<1> HIDE DEF given, iterate, steady, Stepped, Shifted
<1>7. IsSolution(given) /\ d.solution = given
  BY DEF given
<1>8. CASE Converged(given)
  <2>1. r = [dg |-> ReturnedAtOnce(d), norm |-> "small"]
    BY <1>2, <1>8
  <2> QED
    BY <1>5, <1>7, <1>8, <2>1 DEF Norms
<1>9. CASE ~Converged(given)
  <2>1. \/ r = [dg |-> ReturnedAtOnce(SetSolution(d, steady)), norm |-> "small"]
        \/ \E e \in Stepped(steady) : r = [dg |-> e, norm |-> "small"]
        \/ \E e \in Stepped(iterate) : r = [dg |-> e, norm |-> "large"]
        \/ \E e \in Stepped(iterate) : \E n \in {"large", "NaN"} :
             r = [dg |-> SetSolution(e, given), norm |-> n]
        \/ \E e \in Stepped(iterate) : r = [dg |-> Shifted(e), norm |-> "large"]
    BY <1>2, <1>9
  <2>2. CASE r = [dg |-> ReturnedAtOnce(SetSolution(d, steady)), norm |-> "small"]
    BY <1>1, <1>6, <1>7, <2>2 DEF Norms
  <2>3. CASE \E e \in Stepped(steady) : r = [dg |-> e, norm |-> "small"]
    BY <1>1, <1>3, <1>7, <2>3 DEF Norms
  <2>4. CASE \E e \in Stepped(iterate) : r = [dg |-> e, norm |-> "large"]
    BY <1>1, <1>3, <1>7, <2>4 DEF Norms
  <2>5. CASE \E e \in Stepped(iterate) : \E n \in {"large", "NaN"} :
               r = [dg |-> SetSolution(e, given), norm |-> n]
    BY <1>1, <1>3, <1>7, <2>5 DEF Norms
  <2>6. CASE \E e \in Stepped(iterate) : r = [dg |-> Shifted(e), norm |-> "large"]
    BY <1>4, <1>7, <2>6 DEF Norms
  <2> QED
    BY <2>1, <2>2, <2>3, <2>4, <2>5, <2>6
<1> QED
  BY <1>8, <1>9

\* Meshes of the same cells and other degrees.
LEMMA Meshes ==
  ASSUME NEW d, IsMesh(d)
  PROVE  /\ DOMAIN Elevated(d) = DOMAIN d
         /\ IsMesh(Elevated(d))
         /\ \A n \in Nat : (\A c \in DOMAIN d : d[c] < n) => UpTo(Elevated(d), n)
<1> DEFINE e == Elevated(d)
<1>1. e = [c \in DOMAIN d |-> d[c] + 1]
  BY DEF Elevated
<1> HIDE DEF e
<1>2. DOMAIN e = DOMAIN d /\ \A c \in DOMAIN d : e[c] = d[c] + 1
  BY <1>1
<1>3. \A c \in DOMAIN d : d[c] \in Nat
  BY DEF IsMesh
<1>4. IsMesh(e)
  <2>1. ASSUME NEW c \in DOMAIN d PROVE e[c] \in Nat
    BY <1>2, <1>3
  <2>2. e = [c \in DOMAIN e |-> e[c]]
    BY <1>1
  <2> QED
    BY <1>2, <2>1, <2>2 DEF IsMesh
<1>5. ASSUME NEW n \in Nat, \A c \in DOMAIN d : d[c] < n
      PROVE  UpTo(e, n)
  BY <1>2, <1>3, <1>5 DEF UpTo
<1> QED
  BY <1>2, <1>4, <1>5 DEF e

\* The cells of a mesh whose degrees do not exceed the largest one have levels and
\* degrees that are allowed.
LEMMA MeshIsDiscretization ==
  ASSUME NEW d, IsMesh(d), UpTo(d, LargestDegree), LargestDegree \in Nat
  PROVE  IsDiscretization(d)
<1>1. ASSUME NEW c \in DOMAIN d
      PROVE  c[1] \in 0 .. MaxLevel /\ d[c] \in 0 .. LargestDegree
  <2>1. c \in (0 .. MaxLevel) \X Nat /\ d[c] \in Nat /\ d[c] <= LargestDegree
    BY DEF IsMesh, UpTo
  <2> QED
    BY <2>1
<1> QED
  BY <1>1 DEF IsDiscretization

\* The parameters of a run.
LEMMA ParameterTypes ==
  ASSUME parameters \in AdaptationParameters
  PROVE  /\ parameters.cycles \in Nat /\ parameters.goal \in BOOLEAN
         /\ parameters.poly_degree \in 0 .. MaxDegree
         /\ parameters.poly_degree \in Nat
  BY AdaptationAssumption

\* A cell's parent is the one whose child it is.
LEMMA Family ==
  ASSUME NEW i \in Nat, NEW j \in Nat, NEW c \in Children(<<i, j>>)
  PROVE  c \in {i + 1} \X Nat /\ Parent(c) = <<i, j>>
<1>1. CASE c = <<i + 1, 2 * j>>
  <2>1. c[1] - 1 = i /\ c[2] \div 2 = j
    BY <1>1
  <2> QED
    BY <1>1, <2>1 DEF Parent
<1>2. CASE c = <<i + 1, 2 * j + 1>>
  <2>1. c[1] - 1 = i /\ c[2] \div 2 = j
    BY <1>2
  <2> QED
    BY <1>2, <2>1 DEF Parent
<1> QED
  BY <1>1, <1>2 DEF Children

\* Refinement and coarsening of a mesh give a mesh.
LEMMA RefinedMesh ==
  ASSUME IsMesh(discretization), NEW merged \in SUBSET Mergeable,
         NEW raised \in SUBSET Active, NEW split \in SUBSET Active,
         \A c \in split : c[1] < MaxLevel
  PROVE  IsMesh(Refined(raised, split, merged))
<1> DEFINE kept == Active \ (split \cup UNION {Children(c) : c \in merged})
           added == UNION {Children(c) : c \in split}
           cells == kept \cup added \cup merged
           degree(c) ==
             IF c \in merged
             THEN CHOOSE p \in {discretization[x] : x \in Children(c)} :
                    \A x \in Children(c) : discretization[x] <= p
             ELSE IF c \in added THEN discretization[Parent(c)]
             ELSE IF c \in raised THEN discretization[c] + 1
             ELSE discretization[c]
<1>1. Refined(raised, split, merged) = [c \in cells |-> degree(c)]
  BY DEF Refined
<1>2. /\ Active \subseteq (0 .. MaxLevel) \X Nat
      /\ \A c \in Active : discretization[c] \in Nat
      /\ MaxLevel \in Nat
  BY AdaptationAssumption DEF IsMesh, Active
<1>3. ASSUME NEW c \in merged
      PROVE  /\ c \in (0 .. MaxLevel) \X Nat /\ degree(c) \in Nat
  <2>1. PICK x \in Active : x[1] > 0 /\ c = Parent(x) /\ Children(c) \subseteq Active
    BY DEF Mergeable
  <2>2. x \in (0 .. MaxLevel) \X Nat
    BY <1>2
  <2>3. x[1] - 1 \in 0 .. MaxLevel /\ x[2] \div 2 \in Nat
    BY <1>2, <2>1, <2>2
  <2>4. c \in (0 .. MaxLevel) \X Nat
    BY <2>1, <2>3 DEF Parent
  <2> DEFINE y == <<c[1] + 1, 2 * c[2]>>
             z == <<c[1] + 1, 2 * c[2] + 1>>
             S == {discretization[w] : w \in Children(c)}
             P(p) == \A w \in Children(c) : discretization[w] <= p
  <2>5. Children(c) = {y, z} /\ y \in Active /\ z \in Active
    BY <2>1 DEF Children
  <2>6. discretization[y] \in Nat /\ discretization[z] \in Nat
    BY <1>2, <2>5
  <2> HIDE DEF y, z
  <2>7. \E p \in S : P(p)
    <3>1. CASE discretization[y] <= discretization[z]
      BY <1>2, <2>5, <2>6, <3>1
    <3>2. CASE discretization[z] <= discretization[y]
      BY <1>2, <2>5, <2>6, <3>2
    <3> QED
      BY <1>2, <2>6, <3>1, <3>2
  <2>8. S \subseteq Nat
    BY <2>5, <2>6
  <2>9. degree(c) = CHOOSE p \in S : P(p)
    OBVIOUS
  <2> HIDE DEF S, P, degree
  <2> QED
    BY <2>4, <2>7, <2>8, <2>9
<1>4. ASSUME NEW c \in added, c \notin merged
      PROVE  /\ c \in (0 .. MaxLevel) \X Nat /\ degree(c) \in Nat
  <2>1. PICK x \in split : c \in Children(x)
    OBVIOUS
  <2>2. x \in Active /\ x[1] < MaxLevel
    BY <2>1
  <2>3. x = <<x[1], x[2]>> /\ x[1] \in 0 .. MaxLevel /\ x[2] \in Nat
    BY <1>2, <2>2
  <2>4. c \in {x[1] + 1} \X Nat /\ Parent(c) = x
    <3> DEFINE i == x[1]
               j == x[2]
    <3>1. x = <<i, j>> /\ i \in Nat /\ j \in Nat
      BY <1>2, <2>3
    <3>2. c \in Children(<<i, j>>)
      BY <2>1, <3>1
    <3> HIDE DEF i, j
    <3>3. c \in {i + 1} \X Nat /\ Parent(c) = <<i, j>>
      BY <3>1, <3>2, Family
    <3> QED
      BY <3>1, <3>3 DEF i
  <2>5. x[1] + 1 \in 0 .. MaxLevel
    BY <1>2, <2>2, <2>3
  <2>6. degree(c) = discretization[x]
    BY <1>4, <2>4
  <2> HIDE DEF degree, added
  <2> QED
    BY <1>2, <2>2, <2>4, <2>5, <2>6
<1>5. ASSUME NEW c \in kept, c \notin merged, c \notin added
      PROVE  /\ c \in (0 .. MaxLevel) \X Nat /\ degree(c) \in Nat
  <2>1. c \in Active
    OBVIOUS
  <2>2. degree(c) = IF c \in raised THEN discretization[c] + 1 ELSE discretization[c]
    BY <1>5
  <2>3. discretization[c] \in Nat
    BY <1>2, <2>1
  <2> HIDE DEF degree, added, kept
  <2>5. degree(c) \in Nat
    BY <1>2, <2>2, <2>3
  <2> QED
    BY <1>2, <2>1, <2>5
<1>6. \A c \in cells : c \in (0 .. MaxLevel) \X Nat /\ degree(c) \in Nat
  <2> HIDE DEF degree, kept, added
  <2> QED
    BY <1>3, <1>4, <1>5
<1> HIDE DEF cells, degree
<1> QED
  BY <1>1, <1>6 DEF IsMesh

(***************************************************************************)
(* The invariant, action by action.                                        *)
(***************************************************************************)
\* A solution is never taken for none.
LEMMA IsSet ==
  ASSUME NoneIsNoSolution, NEW s, IsSolution(s)
  PROVE  s # None
  BY DEF NoneIsNoSolution, IsSolution

\* The invariant holds of a mesh and an initial condition.
LEMMA InitInv ==
  ASSUME NoneIsNoSolution, Init
  PROVE  Inv
<1> DEFINE d == AllocatedDG(Cells)
           s == Solution("initial", discretization)
<1>1. /\ parameters \in AdaptationParameters
      /\ discretization = [c \in Cells |-> parameters.poly_degree]
      /\ dg = SetSolution(d, s)
      /\ functional = NewFunctional
      /\ estimator = [state |-> "coarse", solution_coarse |-> dg.solution,
                      coarse_fe_index |-> discretization, adjoint_fine |-> None]
      /\ residual_norm = None /\ cycle = 0 /\ ramp = 0
      /\ pc \in {"ramp", "solve"}
  BY DEF Init
<1>2. IsDG(d) /\ d.volume_nodes = Cells
  BY DEF AllocatedDG, IsDG
<1>3. IsSolution(s) /\ s.on = discretization
  BY NewSolutions
<1>4. IsMesh(discretization)
  BY <1>1, AdaptationAssumption, ParameterTypes DEF IsMesh
<1>5. IsDG(dg) /\ dg.solution = s /\ dg.volume_nodes = Cells
  <2> HIDE DEF d, s
  <2> QED
    BY <1>1, <1>2, Setters
<1> HIDE DEF d, s
<1>6. ObjectOK
  BY <1>1, <1>3, <1>4, <1>5, IsSet
     DEF ObjectOK, SolutionOnDiscretization, Active, NewFunctional, Computed
<1>7. Counting
  <2>1. parameters.cycles \in Nat /\ parameters.poly_degree \in Nat
    BY <1>1, ParameterTypes
  <2>2. 0 \in 0 .. parameters.cycles /\ 0 \in 0 .. parameters.poly_degree
        /\ 0 \in 0 .. (parameters.poly_degree + 1)
    BY <2>1
  <2> QED
    BY <1>1, <2>2 DEF Counting
<1>8. EstimatorOK
  BY <1>1, <1>3, <1>4, <1>5 DEF EstimatorOK, IsEstimator, Estimating
<1> QED
  BY <1>1, <1>6, <1>7, <1>8
     DEF Inv, Places, NormOK, AdjointOK, IndicatorIsOfSolution

\* A ramp keeps the solution on the discretization it moves to.
LEMMA RampDegreeInv ==
  ASSUME NoneIsNoSolution, Inv, RampDegree
  PROVE  Inv'
<1> DEFINE new == Uniform(ramp)
           d == Interpolated(new, dg.solution)
<1>1. /\ pc = "ramp" /\ pc' \in {"ramp", "solve"} /\ discretization' = new
      /\ \E r \in SteadyResults(d) : dg' = r.dg
      /\ ramp' = ramp + 1
      /\ pc' = "ramp" => ramp # parameters.poly_degree
      /\ UNCHANGED <<parameters, functional, estimator, cellwise_errors,
                     residual_norm, cycle, estimated>>
  BY DEF RampDegree
<1>2. IsDG(dg) /\ ObjectOK
  BY DEF Inv, ObjectOK
<1>3. /\ IsDG(d) /\ d.solution = Prolonged(dg.solution, new)
      /\ d.volume_nodes = DOMAIN new
  BY <1>2, Reallocations DEF Interpolated
<1>4. /\ IsSolution(Prolonged(dg.solution, new))
      /\ Prolonged(dg.solution, new).on = new
  BY <1>2 DEF ObjectOK, IsSolution, Prolonged
<1>5. IsMesh(new) /\ DOMAIN new = Active
  BY <1>1, AdaptationAssumption, ParameterTypes
     DEF Inv, ObjectOK, Counting, IsMesh, Uniform, Active
<1> HIDE DEF new, d
<1>6. PICK r \in SteadyResults(d) : dg' = r.dg
  BY <1>1
<1>7. /\ IsDG(dg') /\ IsSolution(dg'.solution) /\ dg'.solution.on = new
      /\ dg'.volume_nodes = DOMAIN new
  BY <1>3, <1>4, <1>6, SteadyResult
<1>8. ObjectOK'
  BY <1>1, <1>2, <1>5, <1>7, IsSet DEF ObjectOK, SolutionOnDiscretization, Active
<1>9. Counting'
  <2>1. ramp \in 0 .. parameters.poly_degree /\ parameters \in AdaptationParameters
    BY <1>1 DEF Inv, Counting
  <2>2. parameters.poly_degree \in Nat
    BY <2>1, ParameterTypes
  <2>3. /\ ramp + 1 \in 0 .. (parameters.poly_degree + 1)
        /\ ramp # parameters.poly_degree => ramp + 1 \in 0 .. parameters.poly_degree
    BY <2>1, <2>2
  <2> QED
    BY <1>1, <2>1, <2>3 DEF Inv, Counting
<1>10. EstimatorOK'
  BY <1>1 DEF Inv, EstimatorOK, Estimating
<1> QED
  BY <1>1, <1>8, <1>9, <1>10
     DEF Inv, Places, NormOK, AdjointOK, IndicatorIsOfSolution

\* A solve keeps the discretization, and its norm tells whether it converged.
LEMMA SolveInv ==
  ASSUME NoneIsNoSolution, Inv, Solve
  PROVE  Inv'
<1>1. /\ pc = "solve" /\ pc' \in {"check", "done"}
      /\ \E r \in SteadyResults(dg) : dg' = r.dg /\ residual_norm' = r.norm
      /\ UNCHANGED <<parameters, discretization, functional, estimator,
                     cellwise_errors, cycle, ramp, estimated>>
  BY DEF Solve
<1>2. /\ IsDG(dg) /\ IsSolution(dg.solution)
      /\ dg.solution.on = discretization /\ dg.volume_nodes = Active
  BY DEF Inv, ObjectOK, SolutionOnDiscretization
<1>3. PICK r \in SteadyResults(dg) : dg' = r.dg /\ residual_norm' = r.norm
  BY <1>1
<1>4. /\ IsDG(dg') /\ IsSolution(dg'.solution)
      /\ dg'.solution.on = discretization /\ dg'.volume_nodes = Active
      /\ residual_norm' \in Norms
      /\ residual_norm' = "small" => Converged(dg'.solution)
  BY <1>2, <1>3, SteadyResult
<1>5. ObjectOK'
  BY <1>1, <1>4, IsSet DEF Inv, ObjectOK, SolutionOnDiscretization, Active
<1>6. Counting' /\ EstimatorOK'
  BY <1>1 DEF Inv, Counting, EstimatorOK, Estimating
<1>7. NormOK'
  BY <1>1, <1>4 DEF NormOK, Converged
<1> QED
  BY <1>1, <1>5, <1>6, <1>7 DEF Inv, Places, AdjointOK, IndicatorIsOfSolution

\* The steps that only decide where the run goes.
LEMMA CheckInv ==
  ASSUME Inv, Check \/ Finish
  PROVE  Inv'
<1>1. /\ pc = "check" /\ pc' \in {"aborted", "estimate", "done"}
      /\ pc' = "estimate" => residual_norm # "large" /\ cycle < parameters.cycles
      /\ UNCHANGED <<parameters, discretization, dg, functional, estimator,
                     cellwise_errors, residual_norm, cycle, ramp, estimated>>
  BY DEF Check, Finish
<1>2. ObjectOK'
  BY <1>1 DEF Inv, ObjectOK, SolutionOnDiscretization, Active
<1>3. Counting' /\ EstimatorOK'
  BY <1>1 DEF Inv, Counting, EstimatorOK, Estimating
<1>4. NormOK'
  BY <1>1 DEF Inv, NormOK
<1> QED
  BY <1>1, <1>2, <1>3, <1>4 DEF Inv, Places, AdjointOK, IndicatorIsOfSolution

\* So do the ends of a run that aborts in the middle of a cycle.
LEMMA AbortInv ==
  ASSUME Inv, DegreeTooHigh \/ SensorAborts
  PROVE  Inv'
<1>1. /\ pc' = "aborted"
      /\ UNCHANGED <<parameters, discretization, dg, functional, estimator,
                     cellwise_errors, residual_norm, cycle, ramp, estimated>>
  BY DEF DegreeTooHigh, SensorAborts
<1>2. ObjectOK'
  BY <1>1 DEF Inv, ObjectOK, SolutionOnDiscretization, Active
<1>3. Counting' /\ EstimatorOK'
  BY <1>1 DEF Inv, Counting, EstimatorOK, Estimating
<1> QED
  BY <1>1, <1>2, <1>3 DEF Inv, Places, NormOK, AdjointOK, IndicatorIsOfSolution

\* The residual estimate is of the solution's own residual.
LEMMA EstimateByResidualInv ==
  ASSUME Inv, EstimateByResidual
  PROVE  Inv'
<1>1. /\ pc = "estimate" /\ pc' = "refine" /\ ~parameters.goal
      /\ dg' = AssembleResidual(dg, "none", 0)
      /\ cellwise_errors' = [residual |-> dg'.right_hand_side, adjoint |-> None]
      /\ estimated' = dg.solution
      /\ UNCHANGED <<parameters, discretization, functional, estimator,
                     residual_norm, cycle, ramp>>
  BY DEF EstimateByResidual
<1>2. /\ IsDG(dg) /\ IsSolution(dg.solution) /\ dg.solution # None
      /\ dg.solution.on = discretization /\ dg.volume_nodes = Active
  BY DEF Inv, ObjectOK, SolutionOnDiscretization
<1>3. dg' = WithResidual(dg)
  BY <1>1 DEF AssembleResidual, AlreadyAssembled
<1>4. /\ IsDG(dg') /\ dg'.solution = dg.solution
      /\ dg'.volume_nodes = dg.volume_nodes
      /\ dg'.right_hand_side = Residual("residual", dg.solution, dg.volume_nodes)
  BY <1>2, <1>3, Residuals
<1>5. ObjectOK'
  BY <1>1, <1>2, <1>4 DEF Inv, ObjectOK, SolutionOnDiscretization, Active
<1>6. Counting'
  BY <1>1 DEF Inv, Counting
<1>7. EstimatorOK'
  BY <1>1, <1>2, <1>4 DEF Inv, EstimatorOK, Estimating
<1>8. cellwise_errors' = [residual |-> Residual("residual", estimated', DOMAIN estimated'.on),
                          adjoint |-> None]
  BY <1>1, <1>2, <1>4 DEF Active
<1>9. AdjointOK'
  BY <1>1, <1>8 DEF AdjointOK, IndicatorIsOfSolution
<1> QED
  BY <1>1, <1>5, <1>6, <1>7, <1>9 DEF Inv, Places, NormOK

\* The estimator saves the solution it is asked about.
LEMMA ReinitInv ==
  ASSUME Inv, Reinit
  PROVE  Inv'
<1>1. /\ pc = "estimate" /\ pc' = "refine degree" /\ parameters.goal
      /\ estimator' = [state |-> "coarse", solution_coarse |-> dg.solution,
                       coarse_fe_index |-> discretization, adjoint_fine |-> None]
      /\ estimated' = dg.solution
      /\ UNCHANGED <<parameters, discretization, dg, functional, cellwise_errors,
                     residual_norm, cycle, ramp>>
  BY DEF Reinit
<1>2. ObjectOK'
  BY <1>1 DEF Inv, ObjectOK, SolutionOnDiscretization, Active
<1>3. Counting'
  BY <1>1 DEF Inv, Counting
<1>4. EstimatorOK'
  BY <1>1 DEF Inv, ObjectOK, SolutionOnDiscretization, EstimatorOK, IsEstimator,
              Estimating
<1> QED
  BY <1>1, <1>2, <1>3, <1>4
     DEF Inv, Places, NormOK, AdjointOK, IndicatorIsOfSolution

\* The solution that was saved is interpolated to the elevated discretization.
LEMMA CoarseToFineInv ==
  ASSUME NoneIsNoSolution, Inv, coarse_to_fine
  PROVE  Inv'
<1> DEFINE fine == Elevated(discretization)
           s == Prolonged(estimator.solution_coarse, fine)
<1>1. /\ pc = "refine degree" /\ pc' = "adjoint"
      /\ \A c \in Active : discretization[c] < MaxDegree
      /\ discretization' = fine
      /\ dg' = SetSolution(Reallocated(fine), s)
      /\ estimator' = [estimator EXCEPT !.state = "fine"]
      /\ UNCHANGED <<parameters, functional, cellwise_errors, residual_norm,
                     cycle, ramp, estimated>>
  BY DEF coarse_to_fine, Interpolated
<1>2. /\ IsDG(dg) /\ IsMesh(discretization)
      /\ IsSolution(estimated) /\ estimator.solution_coarse = estimated
      /\ estimator.coarse_fe_index = estimated.on
      /\ discretization = estimated.on /\ parameters.goal
  BY <1>1 DEF Inv, ObjectOK, EstimatorOK, Estimating
<1>3. IsMesh(fine)
  BY <1>1, <1>2, Meshes DEF Active
<1>4. IsSolution(s) /\ s.on = fine
  BY <1>2 DEF IsSolution, Prolonged
<1>5. s = FineSolution /\ fine = Elevated(estimated.on)
  BY <1>2 DEF FineSolution
<1> HIDE DEF fine, s
<1>6. /\ IsDG(dg') /\ dg'.solution = s /\ dg'.volume_nodes = DOMAIN fine
      /\ dg'.key_dRdW = <<None, None, 0>>
  BY <1>1, <1>2, Reallocations
<1>7. ObjectOK'
  BY <1>1, <1>3, <1>4, <1>6, IsSet DEF Inv, ObjectOK, SolutionOnDiscretization, Active
<1>8. Counting'
  BY <1>1 DEF Inv, Counting
<1>9. EstimatorOK'
  <2>1. /\ IsEstimator(estimator') /\ estimator'.state = "fine"
        /\ estimator'.solution_coarse = estimator.solution_coarse
        /\ estimator'.coarse_fe_index = estimator.coarse_fe_index
    <3>1. estimator' = [estimator EXCEPT !.state = "fine"]
      BY <1>1
    <3>2. IsEstimator(estimator)
      BY DEF Inv, EstimatorOK
    <3> QED
      BY <3>1, <3>2 DEF IsEstimator
  <2>2. FineSolution' = FineSolution
    BY <1>1 DEF FineSolution
  <2>3. IsMesh(estimated.on)
    BY <1>1 DEF Inv, EstimatorOK, Estimating
  <2> QED
    BY <1>1, <1>2, <1>5, <1>6, <2>1, <2>2, <2>3 DEF EstimatorOK, Estimating
<1> QED
  BY <1>1, <1>6, <1>7, <1>8, <1>9
     DEF Inv, Places, NormOK, AdjointOK, IndicatorIsOfSolution

\* The functional's derivative is of the solution it is asked for, whatever it was
\* computed for before.
LEMMA Evaluated ==
  ASSUME NEW f, f.at["dIdW"] = f.holds["dIdW"], NEW d
  PROVE  LET g == Evaluate(f, "dIdW", d)
         IN  /\ g.holds["dIdW"] = <<d.solution, d.volume_nodes>>
             /\ g.at["dIdW"] = g.holds["dIdW"]
<1> DEFINE at == <<d.solution, d.volume_nodes>>
           g == Evaluate(f, "dIdW", d)
<1>1. g.at["dIdW"] = at
  BY DEF Evaluate, Computed
<1>2. g.holds["dIdW"] = at
  <2>1. CASE need_compute(f, "dIdW", d)
    BY <2>1 DEF Evaluate, Computed
  <2>2. CASE ~need_compute(f, "dIdW", d)
    BY <2>2 DEF Evaluate, Computed, need_compute
  <2> QED
    BY <2>1, <2>2
<1> QED
  BY <1>1, <1>2

\* The adjoint is of the Jacobian and of the functional's derivative at the solution
\* on the elevated discretization.
LEMMA FineGridAdjointInv ==
  ASSUME NoneIsNoSolution, Inv, fine_grid_adjoint
  PROVE  Inv'
<1>1. /\ pc = "adjoint" /\ pc' = "weigh"
      /\ functional' = Evaluate(functional, "dIdW", dg)
      /\ dg' = AssembleResidual(dg, "dRdW", 0)
      /\ estimator' = [estimator EXCEPT !.adjoint_fine =
                         [matrix |-> dg'.system_matrix_transpose,
                          dIdW |-> functional'.holds["dIdW"]]]
      /\ UNCHANGED <<parameters, discretization, cellwise_errors,
                     residual_norm, cycle, ramp, estimated>>
  BY DEF fine_grid_adjoint
<1>2. /\ IsDG(dg) /\ IsSolution(dg.solution) /\ dg.solution # None
      /\ dg.volume_nodes = Active /\ dg.key_dRdW = <<None, None, 0>>
      /\ dg.solution = FineSolution /\ discretization = Elevated(estimated.on)
      /\ IsMesh(estimated.on)
      /\ functional.at["dIdW"] = functional.holds["dIdW"]
  BY <1>1 DEF Inv, ObjectOK, SolutionOnDiscretization, EstimatorOK, AdjointOK, Estimating
<1>3. dg.volume_nodes = FineNodes
  BY <1>2, Meshes DEF FineNodes, Active
<1>4. /\ IsDG(dg') /\ dg'.solution = dg.solution
      /\ dg'.volume_nodes = dg.volume_nodes
  BY <1>1, <1>2, Assembling
<1>5. /\ dg'.right_hand_side = Residual("residual", FineSolution, FineNodes)
      /\ dg'.system_matrix_transpose = Matrix(FineSolution, FineNodes, 1, 0, None)
  BY <1>1, <1>2, <1>3, AssemblingAnew
<1>6. /\ functional'.holds["dIdW"] = <<FineSolution, FineNodes>>
      /\ functional'.at["dIdW"] = functional'.holds["dIdW"]
  BY <1>1, <1>2, <1>3, Evaluated
<1>7. FineSolution' = FineSolution /\ FineNodes' = FineNodes
  BY <1>1 DEF FineSolution, FineNodes
<1>8. ObjectOK'
  BY <1>1, <1>2, <1>4, <1>6 DEF Inv, ObjectOK, SolutionOnDiscretization, Active
<1>9. Counting'
  BY <1>1 DEF Inv, Counting
<1> DEFINE a == [matrix |-> dg'.system_matrix_transpose,
                 dIdW |-> functional'.holds["dIdW"]]
<1>10. /\ IsEstimator(estimator') /\ estimator'.adjoint_fine = a
       /\ estimator'.state = estimator.state
       /\ estimator'.solution_coarse = estimator.solution_coarse
       /\ estimator'.coarse_fe_index = estimator.coarse_fe_index
  <2>1. estimator' = [estimator EXCEPT !.adjoint_fine = a]
    BY <1>1
  <2>2. IsEstimator(estimator)
    BY DEF Inv, EstimatorOK
  <2> HIDE DEF a
  <2> QED
    BY <2>1, <2>2 DEF IsEstimator
<1>11. EstimatorOK'
  BY <1>1, <1>2, <1>4, <1>7, <1>10 DEF Inv, EstimatorOK, Estimating
<1>12. AdjointOK'
  BY <1>1, <1>5, <1>6, <1>7, <1>10 DEF AdjointOK, IndicatorIsOfSolution
<1> QED
  BY <1>1, <1>8, <1>9, <1>11, <1>12 DEF Inv, Places, NormOK

\* The errors weigh the residual that was assembled with the adjoint's matrix.
LEMMA DualWeightedResidualInv ==
  ASSUME Inv, dual_weighted_residual
  PROVE  Inv'
<1>1. /\ pc = "weigh" /\ pc' = "restore"
      /\ cellwise_errors' = [residual |-> dg.right_hand_side,
                             adjoint |-> estimator.adjoint_fine]
      /\ UNCHANGED <<parameters, discretization, dg, functional, estimator,
                     residual_norm, cycle, ramp, estimated>>
  BY DEF dual_weighted_residual
<1>2. /\ parameters.goal
      /\ cellwise_errors' =
           [residual |-> Residual("residual", FineSolution, FineNodes),
            adjoint |-> [matrix |-> Matrix(FineSolution, FineNodes, 1, 0, None),
                         dIdW |-> <<FineSolution, FineNodes>>]]
  BY <1>1 DEF Inv, EstimatorOK, Estimating, AdjointOK
<1>3. ObjectOK'
  BY <1>1 DEF Inv, ObjectOK, SolutionOnDiscretization, Active
<1>4. Counting'
  BY <1>1 DEF Inv, Counting
<1>5. EstimatorOK'
  BY <1>1 DEF Inv, EstimatorOK, Estimating, FineSolution
<1>6. AdjointOK'
  BY <1>1, <1>2 DEF AdjointOK, IndicatorIsOfSolution, FineSolution, FineNodes
<1> QED
  BY <1>1, <1>3, <1>4, <1>5, <1>6 DEF Inv, Places, NormOK

\* The object is moved back to what the estimator saved.
LEMMA FineToCoarseInv ==
  ASSUME NoneIsNoSolution, Inv, fine_to_coarse
  PROVE  Inv'
<1>1. /\ pc = "restore" /\ pc' = "refine"
      /\ discretization' = estimator.coarse_fe_index
      /\ dg' = SetSolution(Reallocated(estimator.coarse_fe_index),
                           estimator.solution_coarse)
      /\ estimator' = [estimator EXCEPT !.state = "coarse"]
      /\ UNCHANGED <<parameters, functional, cellwise_errors, residual_norm,
                     cycle, ramp, estimated>>
  BY DEF fine_to_coarse
<1>2. /\ IsDG(dg) /\ IsSolution(estimated) /\ IsMesh(estimated.on)
      /\ estimator.solution_coarse = estimated
      /\ estimator.coarse_fe_index = estimated.on
      /\ IndicatorIsOfSolution
  BY <1>1 DEF Inv, ObjectOK, EstimatorOK, Estimating, AdjointOK
<1>3. /\ IsDG(dg') /\ dg'.solution = estimated
      /\ dg'.volume_nodes = DOMAIN estimated.on
  BY <1>1, <1>2, Reallocations
<1>4. discretization' = estimated.on
  BY <1>1, <1>2
<1>5. ObjectOK'
  BY <1>1, <1>2, <1>3, <1>4, IsSet DEF Inv, ObjectOK, SolutionOnDiscretization, Active
<1>6. Counting'
  BY <1>1 DEF Inv, Counting
<1>7. EstimatorOK'
  <2>1. /\ IsEstimator(estimator') /\ estimator'.state = "coarse"
        /\ estimator'.solution_coarse = estimator.solution_coarse
    <3>1. estimator' = [estimator EXCEPT !.state = "coarse"]
      BY <1>1
    <3>2. IsEstimator(estimator)
      BY DEF Inv, EstimatorOK
    <3> QED
      BY <3>1, <3>2 DEF IsEstimator
  <2> QED
    BY <1>1, <1>2, <1>3, <1>4, <2>1 DEF EstimatorOK, Estimating
<1>8. AdjointOK'
  BY <1>1, <1>2 DEF AdjointOK, IndicatorIsOfSolution
<1> QED
  BY <1>1, <1>5, <1>6, <1>7, <1>8 DEF Inv, Places, NormOK

\* Refinement interpolates the solution to the mesh it makes.
LEMMA RefineInv ==
  ASSUME NoneIsNoSolution, Inv, Refine
  PROVE  Inv'
<1>1. PICK flagged \in SUBSET Active, merged \in SUBSET Mergeable :
        \E raised \in Raised(flagged) :
          /\ \A c \in flagged \ raised : c[1] < MaxLevel
          /\ discretization' = Refined(raised, flagged \ raised, merged)
          /\ dg' = WithResidual(Interpolated(discretization', dg.solution))
  BY DEF Refine
<1>2. PICK raised \in Raised(flagged) :
        /\ \A c \in flagged \ raised : c[1] < MaxLevel
        /\ discretization' = Refined(raised, flagged \ raised, merged)
        /\ dg' = WithResidual(Interpolated(discretization', dg.solution))
  BY <1>1
<1>3. /\ pc = "refine" /\ pc' \in {"solve", "undefined"} /\ cycle' = cycle + 1
      /\ UNCHANGED <<parameters, functional, estimator, cellwise_errors,
                     residual_norm, ramp, estimated>>
  BY DEF Refine, Counted
<1>4. /\ IsDG(dg) /\ IsSolution(dg.solution) /\ IsMesh(discretization)
      /\ parameters \in AdaptationParameters
  BY DEF Inv, ObjectOK, Counting
<1>5. raised \subseteq Active
  <2>1. parameters.type \in {"h", "p", "hp"}
    BY <1>4, AdaptationAssumption
  <2> QED
    BY <2>1 DEF Raised
<1>6. IsMesh(discretization')
  BY <1>2, <1>4, <1>5, RefinedMesh
<1> DEFINE new == discretization'
           s == Prolonged(dg.solution, new)
           d == SetSolution(Reallocated(new), s)
<1>7. dg' = WithResidual(d)
  BY <1>2 DEF Interpolated
<1>8. IsDG(d) /\ d.solution = s /\ d.volume_nodes = DOMAIN new
  BY <1>4, Reallocations
<1>9. IsSolution(s) /\ s.on = new
  BY <1>4 DEF IsSolution, Prolonged
<1> HIDE DEF s, d
<1>10. /\ IsDG(dg') /\ dg'.solution = s /\ dg'.volume_nodes = DOMAIN new
  BY <1>7, <1>8, Residuals
<1>11. ObjectOK'
  BY <1>3, <1>6, <1>9, <1>10, IsSet DEF Inv, ObjectOK, SolutionOnDiscretization, Active
<1>12. Counting'
  <2>1. /\ cycle \in 0 .. parameters.cycles /\ cycle < parameters.cycles
        /\ ramp \in 0 .. (parameters.poly_degree + 1)
    BY <1>3 DEF Inv, Counting
  <2>2. parameters.cycles \in Nat
    BY <1>4, ParameterTypes
  <2>3. cycle + 1 \in 0 .. parameters.cycles
    BY <2>1, <2>2
  <2> QED
    BY <1>3, <1>4, <2>1, <2>3 DEF Counting
<1>13. EstimatorOK'
  BY <1>3 DEF Inv, EstimatorOK, Estimating
<1> QED
  BY <1>3, <1>11, <1>12, <1>13 DEF Inv, Places, NormOK, AdjointOK, IndicatorIsOfSolution

\* Every step keeps the invariant.
LEMMA NextInv ==
  NoneIsNoSolution /\ Inv /\ [Next]_vars => Inv'
<1> SUFFICES ASSUME NoneIsNoSolution, Inv, [Next]_vars PROVE Inv'
  OBVIOUS
<1>1. CASE UNCHANGED vars
  BY <1>1 DEF vars, Inv, Places, ObjectOK, SolutionOnDiscretization, Active, Counting,
              NormOK, EstimatorOK, Estimating, FineSolution, AdjointOK, FineNodes,
              IndicatorIsOfSolution
<1> QED
  BY <1>1, RampDegreeInv, SolveInv, CheckInv, AbortInv, EstimateByResidualInv,
     ReinitInv, CoarseToFineInv, FineGridAdjointInv, DualWeightedResidualInv,
     FineToCoarseInv, RefineInv DEF Next

\* The invariant of the specification.
LEMMA Invariance ==
  ASSUME NoneIsNoSolution
  PROVE  Spec => []Inv
<1>1. Init => Inv
  BY InitInv
<1>2. Inv /\ [Next]_vars => Inv'
  BY NextInv
<1> QED
  BY <1>1, <1>2, PTL DEF Spec

(***************************************************************************)
(* The degrees.                                                            *)
(***************************************************************************)
\* An elevated discretization has the degrees of the collections, and what a
\* goal-oriented estimate gives back to be refined is a degree below them.
DegreesOK ==
  /\ UpTo(discretization, LargestDegree)
  /\ UpTo(estimator.solution_coarse.on, LargestDegree)
  /\ pc \in {"adjoint", "weigh", "restore"} =>
       \A c \in DOMAIN estimated.on : estimated.on[c] < MaxDegree
  /\ pc = "refine" /\ parameters.goal => \A c \in Active : discretization[c] < MaxDegree

\* The largest degree never becomes less.
LEMMA Largest ==
  ASSUME Counting
  PROVE  /\ MaxDegree \in Nat /\ LargestDegree \in Nat /\ MaxDegree <= LargestDegree
         /\ cycle \in Nat
         /\ \A d : UpTo(d, MaxDegree) /\ IsMesh(d) => UpTo(d, LargestDegree)
<1>1. MaxDegree \in Nat /\ cycle \in Nat
  <2>1. cycle \in 0 .. parameters.cycles /\ parameters.cycles \in Nat
    BY ParameterTypes DEF Counting
  <2> QED
    BY <2>1, AdaptationAssumption
<1>2. LargestDegree \in Nat /\ MaxDegree <= LargestDegree
  BY <1>1 DEF LargestDegree
<1>3. ASSUME NEW d, UpTo(d, MaxDegree), IsMesh(d)
      PROVE  UpTo(d, LargestDegree)
  BY <1>1, <1>2, <1>3 DEF UpTo, IsMesh
<1> QED
  BY <1>1, <1>2, <1>3

\* A refined mesh has no degree that its cells did not have or were not given.
LEMMA RefinedDegrees ==
  ASSUME IsMesh(discretization), NEW merged \in SUBSET Mergeable,
         NEW raised \in SUBSET Active, NEW split \in SUBSET Active,
         NEW n \in Nat, UpTo(discretization, n),
         \A c \in raised : discretization[c] < n
  PROVE  UpTo(Refined(raised, split, merged), n)
<1> DEFINE kept == Active \ (split \cup UNION {Children(c) : c \in merged})
           added == UNION {Children(c) : c \in split}
           cells == kept \cup added \cup merged
           degree(c) ==
             IF c \in merged
             THEN CHOOSE p \in {discretization[x] : x \in Children(c)} :
                    \A x \in Children(c) : discretization[x] <= p
             ELSE IF c \in added THEN discretization[Parent(c)]
             ELSE IF c \in raised THEN discretization[c] + 1
             ELSE discretization[c]
<1>1. Refined(raised, split, merged) = [c \in cells |-> degree(c)]
  BY DEF Refined
<1>2. /\ Active \subseteq (0 .. MaxLevel) \X Nat
      /\ \A c \in Active : discretization[c] \in Nat /\ discretization[c] <= n
  BY DEF IsMesh, Active, UpTo
<1>3. ASSUME NEW c \in merged
      PROVE  degree(c) <= n
  <2>1. PICK x \in Active : x[1] > 0 /\ c = Parent(x) /\ Children(c) \subseteq Active
    BY DEF Mergeable
  <2> DEFINE y == <<c[1] + 1, 2 * c[2]>>
             z == <<c[1] + 1, 2 * c[2] + 1>>
             S == {discretization[w] : w \in Children(c)}
             P(p) == \A w \in Children(c) : discretization[w] <= p
  <2>2. Children(c) = {y, z} /\ y \in Active /\ z \in Active
    BY <2>1 DEF Children
  <2>3. /\ discretization[y] \in Nat /\ discretization[y] <= n
        /\ discretization[z] \in Nat /\ discretization[z] <= n
    BY <1>2, <2>2
  <2> HIDE DEF y, z
  <2>4. \E p \in S : P(p)
    <3>1. CASE discretization[y] <= discretization[z]
      BY <1>2, <2>2, <2>3, <3>1
    <3>2. CASE discretization[z] <= discretization[y]
      BY <1>2, <2>2, <2>3, <3>2
    <3> QED
      BY <1>2, <2>3, <3>1, <3>2
  <2>5. \A p \in S : p <= n
    BY <2>2, <2>3
  <2>6. degree(c) = CHOOSE p \in S : P(p)
    OBVIOUS
  <2> HIDE DEF S, P, degree
  <2> QED
    BY <2>4, <2>5, <2>6
<1>4. ASSUME NEW c \in added, c \notin merged
      PROVE  degree(c) <= n
  <2>1. PICK x \in split : c \in Children(x)
    OBVIOUS
  <2>2. x = <<x[1], x[2]>> /\ x[1] \in Nat /\ x[2] \in Nat /\ x \in Active
    BY <1>2, <2>1
  <2>3. Parent(c) = x
    <3> DEFINE i == x[1]
               j == x[2]
    <3>1. x = <<i, j>> /\ i \in Nat /\ j \in Nat
      BY <2>2
    <3>2. c \in Children(<<i, j>>)
      BY <2>1, <3>1
    <3> HIDE DEF i, j
    <3>3. Parent(c) = <<i, j>>
      BY <3>1, <3>2, Family
    <3> QED
      BY <3>1, <3>3
  <2>4. degree(c) = discretization[x]
    BY <1>4, <2>3
  <2> HIDE DEF degree, added
  <2> QED
    BY <1>2, <2>2, <2>4
<1>5. ASSUME NEW c \in kept, c \notin merged, c \notin added
      PROVE  degree(c) <= n
  <2>1. c \in Active
    OBVIOUS
  <2>2. degree(c) = IF c \in raised THEN discretization[c] + 1 ELSE discretization[c]
    BY <1>5
  <2>3. c \in raised => discretization[c] < n
    OBVIOUS
  <2> HIDE DEF degree, added, kept
  <2> QED
    BY <1>2, <2>1, <2>2, <2>3
<1>6. \A c \in cells : degree(c) <= n
  <2> HIDE DEF degree, kept, added
  <2> QED
    BY <1>3, <1>4, <1>5
<1> HIDE DEF cells, degree
<1> QED
  BY <1>1, <1>6 DEF UpTo

\* The degrees after a refinement.
LEMMA RefineDegrees ==
  ASSUME Inv, DegreesOK, Refine, Inv'
  PROVE  DegreesOK'
<1>1. PICK flagged \in SUBSET Active, merged \in SUBSET Mergeable :
        \E raised \in Raised(flagged) :
          discretization' = Refined(raised, flagged \ raised, merged)
  BY DEF Refine
<1>2. PICK raised \in Raised(flagged) :
        discretization' = Refined(raised, flagged \ raised, merged)
  BY <1>1
<1>3. /\ pc = "refine" /\ pc' \in {"solve", "undefined"} /\ cycle' = cycle + 1
      /\ parameters' = parameters /\ estimator' = estimator
  BY DEF Refine, Counted
<1>4. /\ IsMesh(discretization) /\ IsMesh(estimator.solution_coarse.on)
      /\ parameters.type \in {"h", "p", "hp"} /\ parameters.goal \in BOOLEAN
      /\ Counting /\ Counting'
  <2>1. Counting /\ Counting' /\ IsMesh(discretization)
        /\ IsMesh(estimator.solution_coarse.on)
    BY DEF Inv, ObjectOK, EstimatorOK
  <2>2. parameters \in AdaptationParameters
    BY <2>1 DEF Counting
  <2> QED
    BY <2>1, <2>2, AdaptationAssumption
<1>5. /\ MaxDegree \in Nat /\ LargestDegree \in Nat /\ cycle \in Nat
      /\ LargestDegree' \in Nat /\ LargestDegree <= LargestDegree'
  BY <1>3, <1>4, Largest DEF LargestDegree
<1>6. raised \subseteq Active
  BY <1>4 DEF Raised
<1>7. /\ UpTo(discretization, LargestDegree')
      /\ \A c \in raised : discretization[c] < LargestDegree'
  <2>0. \A c \in Active : discretization[c] \in Nat /\ discretization[c] <= LargestDegree
    BY <1>4 DEF DegreesOK, UpTo, IsMesh, Active
  <2>1. UpTo(discretization, LargestDegree')
    BY <1>5, <2>0 DEF UpTo, Active
  <2>2. CASE parameters.goal
    <3>1. \A c \in Active : discretization[c] < MaxDegree
      BY <1>3, <2>2 DEF DegreesOK
    <3>2. LargestDegree' = MaxDegree
      BY <1>3, <1>5, <2>2 DEF LargestDegree
    <3> QED
      BY <1>6, <2>1, <3>1, <3>2
  <2>3. CASE ~parameters.goal /\ parameters.type = "hp"
    <3>1. LargestDegree' = LargestDegree + 1
      BY <1>3, <1>5, <2>3 DEF LargestDegree
    <3> QED
      BY <1>5, <1>6, <2>0, <2>1, <3>1
  <2>4. CASE ~parameters.goal /\ parameters.type # "hp"
    <3>1. \A c \in raised : discretization[c] < MaxDegree
      BY <1>4, <2>4 DEF Raised
    <3>2. LargestDegree' = MaxDegree
      BY <1>3, <1>5, <2>4 DEF LargestDegree
    <3> QED
      BY <2>1, <3>1, <3>2
  <2> QED
    BY <1>4, <2>2, <2>3, <2>4
<1>8. UpTo(discretization', LargestDegree')
  BY <1>2, <1>4, <1>5, <1>6, <1>7, RefinedDegrees
<1>9. UpTo(estimator'.solution_coarse.on, LargestDegree')
  BY <1>3, <1>4, <1>5 DEF DegreesOK, UpTo, IsMesh
<1> QED
  BY <1>3, <1>8, <1>9 DEF DegreesOK

\* Every step keeps the degrees.
LEMMA DegreesStep ==
  ASSUME Inv, DegreesOK, [Next]_vars, Inv'
  PROVE  DegreesOK'
<1>0. /\ Counting /\ Counting'
      /\ dg.solution.on = discretization
      /\ IsMesh(discretization) /\ IsMesh(discretization')
      /\ IsMesh(estimator.solution_coarse.on)
  BY DEF Inv, ObjectOK, SolutionOnDiscretization, EstimatorOK
<1>1. CASE UNCHANGED vars
  BY <1>1 DEF vars, DegreesOK, LargestDegree, Active
<1>2. CASE Refine
  BY <1>2, RefineDegrees
<1>3. CASE RampDegree
  <2>1. /\ pc = "ramp" /\ pc' \in {"ramp", "solve"} /\ discretization' = Uniform(ramp)
        /\ UNCHANGED <<parameters, estimator, cycle>>
    BY <1>3 DEF RampDegree
  <2>2. ramp \in 0 .. MaxDegree
    <3>1. /\ ramp \in 0 .. parameters.poly_degree
          /\ parameters.poly_degree \in 0 .. MaxDegree
      BY <1>0, <2>1, ParameterTypes DEF Counting
    <3> QED
      BY <3>1, AdaptationAssumption
  <2>3. UpTo(discretization', MaxDegree)
    BY <2>1, <2>2 DEF Uniform, UpTo
  <2>4. UpTo(discretization', LargestDegree')
    <3>1. LargestDegree' = LargestDegree
      BY <2>1 DEF LargestDegree
    <3> QED
      BY <1>0, <2>3, <3>1, Largest
  <2> QED
    BY <2>1, <2>4 DEF DegreesOK, LargestDegree
<1>4. CASE Reinit
  <2>1. /\ estimator'.solution_coarse = dg.solution /\ pc' = "refine degree"
        /\ UNCHANGED <<parameters, discretization, cycle>>
    BY <1>4 DEF Reinit
  <2> QED
    BY <1>0, <2>1 DEF DegreesOK, LargestDegree
<1>5. CASE coarse_to_fine
  <2>1. /\ \A c \in Active : discretization[c] < MaxDegree
        /\ pc = "refine degree" /\ pc' = "adjoint"
        /\ discretization' = Elevated(discretization)
        /\ estimator' = [estimator EXCEPT !.state = "fine"]
        /\ UNCHANGED <<parameters, cycle, estimated>>
    BY <1>5 DEF coarse_to_fine
  <2>2. UpTo(discretization', MaxDegree)
    BY <1>0, <2>1, Meshes, AdaptationAssumption DEF Active
  <2>3. LargestDegree' = LargestDegree
    BY <2>1 DEF LargestDegree
  <2>4. UpTo(discretization', LargestDegree')
    BY <1>0, <2>2, <2>3, Largest
  <2>5. estimator'.solution_coarse = estimator.solution_coarse
    BY <2>1 DEF Inv, EstimatorOK, IsEstimator
  <2>6. discretization = estimated.on
    BY <2>1 DEF Inv, EstimatorOK
  <2> QED
    BY <2>1, <2>3, <2>4, <2>5, <2>6 DEF DegreesOK, Active
<1>6. CASE fine_grid_adjoint
  <2>1. /\ pc = "adjoint" /\ pc' = "weigh"
        /\ UNCHANGED <<parameters, discretization, cycle, estimated>>
    BY <1>6 DEF fine_grid_adjoint
  <2>2. estimator'.solution_coarse = estimator.solution_coarse
    BY <1>6 DEF fine_grid_adjoint, Inv, EstimatorOK, IsEstimator
  <2> QED
    BY <2>1, <2>2 DEF DegreesOK, LargestDegree
<1>7. CASE fine_to_coarse
  <2>1. /\ pc = "restore" /\ pc' = "refine"
        /\ discretization' = estimator.coarse_fe_index
        /\ estimator' = [estimator EXCEPT !.state = "coarse"]
        /\ UNCHANGED <<parameters, cycle, estimated>>
    BY <1>7 DEF fine_to_coarse
  <2>2. /\ estimator.coarse_fe_index = estimated.on
        /\ estimator.solution_coarse = estimated
    BY <2>1 DEF Inv, EstimatorOK, Estimating
  <2>3. estimator'.solution_coarse = estimator.solution_coarse
    BY <2>1 DEF Inv, EstimatorOK, IsEstimator
  <2> QED
    BY <2>1, <2>2, <2>3 DEF DegreesOK, LargestDegree, Active
<1>8. CASE EstimateByResidual
  <2>1. /\ ~parameters.goal /\ pc' = "refine"
        /\ UNCHANGED <<parameters, discretization, estimator, cycle>>
    BY <1>8 DEF EstimateByResidual
  <2> QED
    BY <2>1 DEF DegreesOK, LargestDegree
<1>9. CASE dual_weighted_residual
  <2>1. /\ pc = "weigh" /\ pc' = "restore"
        /\ UNCHANGED <<parameters, discretization, estimator, cycle, estimated>>
    BY <1>9 DEF dual_weighted_residual
  <2> QED
    BY <2>1 DEF DegreesOK, LargestDegree
<1>10. CASE Solve \/ Check \/ Finish \/ DegreeTooHigh \/ SensorAborts
  <2>1. /\ pc' \in {"check", "done", "aborted", "estimate"}
        /\ UNCHANGED <<parameters, discretization, estimator, cycle>>
    BY <1>10 DEF Solve, Check, Finish, DegreeTooHigh, SensorAborts
  <2> QED
    BY <2>1 DEF DegreesOK, LargestDegree
<1> QED
  BY <1>1, <1>2, <1>3, <1>4, <1>5, <1>6, <1>7, <1>8, <1>9, <1>10 DEF Next

(***************************************************************************)
(* The theorems.                                                           *)
(***************************************************************************)
\* Type correctness: no cell is of a level that does not exist, also while an
\* estimate has elevated the degrees, and none of a degree without an element but
\* in residual-based hp adaptation, which passes the largest by one a cycle at most.
THEOREM TypeCorrect ==
  ASSUME NoneIsNoSolution
  PROVE  Spec => []TypeOK
<1>1. Init => DegreesOK
  <2> SUFFICES ASSUME Init PROVE DegreesOK
    OBVIOUS
  <2>1. Inv
    BY InitInv
  <2>2. /\ discretization = [c \in Cells |-> parameters.poly_degree]
        /\ parameters \in AdaptationParameters
        /\ estimator.solution_coarse.on = discretization
        /\ pc \in {"ramp", "solve"}
    BY NewSolutions, Setters DEF Init, Solution, SetSolution, AllocatedDG
  <2>3. UpTo(discretization, MaxDegree)
    BY <2>2, ParameterTypes, AdaptationAssumption DEF UpTo
  <2>4. UpTo(discretization, LargestDegree)
    BY <2>1, <2>3, Largest DEF Inv, ObjectOK
  <2> QED
    BY <2>2, <2>4 DEF DegreesOK
<1>2. Inv /\ DegreesOK /\ [Next]_vars /\ Inv' => DegreesOK'
  BY DegreesStep
<1>3. Inv /\ DegreesOK => TypeOK
  <2> SUFFICES ASSUME Inv, DegreesOK PROVE TypeOK
    OBVIOUS
  <2>1. LargestDegree \in Nat
    BY Largest DEF Inv
  <2>2. /\ IsDiscretization(discretization)
        /\ IsDiscretization(estimator.solution_coarse.on)
    BY <2>1, MeshIsDiscretization DEF Inv, ObjectOK, EstimatorOK, DegreesOK
  <2> QED
    BY <2>2 DEF Inv, ObjectOK, SolutionOnDiscretization, Counting, NormOK, Norms,
       EstimatorOK, Places, TypeOK
<1> QED
  BY <1>1, <1>2, <1>3, Invariance, PTL DEF Spec

\* Through every reallocation the shared object holds a solution of its own degrees
\* of freedom, on its own mesh.
THEOREM SolutionCorrect ==
  ASSUME NoneIsNoSolution
  PROVE  Spec => []SolutionOnDiscretization
<1>1. Inv => SolutionOnDiscretization
  BY DEF Inv, ObjectOK
<1> QED
  BY <1>1, Invariance, PTL

\* The errors that decide the refinement are of the solution the estimate was asked
\* for, and their residual, Jacobian and functional of one and the same state.
THEOREM IndicatorCorrect ==
  ASSUME NoneIsNoSolution
  PROVE  Spec => []IndicatorIsOfSolution
<1>1. Inv => IndicatorIsOfSolution
  BY DEF Inv, AdjointOK
<1> QED
  BY <1>1, Invariance, PTL

\* An estimate gives back the solution and the discretization it was given.
THEOREM RestoreCorrect ==
  ASSUME NoneIsNoSolution
  PROVE  Spec => []EstimateRestores
<1>1. Inv => EstimateRestores
  BY DEF Inv, EstimatorOK, EstimateRestores
<1> QED
  BY <1>1, Invariance, PTL

\* The mesh is only adapted to a solution that converged, or whose residual is NaN.
THEOREM ConvergedCorrect ==
  ASSUME NoneIsNoSolution
  PROVE  Spec => []ConvergedWhenAdapted
<1>1. Inv => ConvergedWhenAdapted
  BY DEF Inv, NormOK, Norms, ConvergedWhenAdapted
<1> QED
  BY <1>1, Invariance, PTL

(***************************************************************************)
(* Every step brings a run closer to its end: a degree of the ramping or a *)
(* cycle more, of which TypeCorrect bounds the number, or a step further   *)
(* within the cycle.                                                       *)
(***************************************************************************)
\* The steps that are left in a cycle after place p.
Place(p) ==
  CASE p = "ramp" -> 9          [] p = "solve" -> 8   [] p = "check" -> 7
    [] p = "estimate" -> 6      [] p = "refine degree" -> 5
    [] p = "adjoint" -> 4       [] p = "weigh" -> 3
    [] p = "restore" -> 2       [] p = "refine" -> 1
    [] p \in {"done", "aborted", "undefined"} -> 0

Descends ==
  \/ ramp' = ramp + 1 /\ UNCHANGED cycle
  \/ cycle' = cycle + 1 /\ UNCHANGED ramp
  \/ UNCHANGED <<ramp, cycle>> /\ Place(pc') < Place(pc)

LEMMA PlaceOrder ==
  /\ Place("done") < Place("solve") /\ Place("check") < Place("solve")
  /\ Place("done") < Place("check") /\ Place("aborted") < Place("check")
  /\ Place("estimate") < Place("check")
  /\ Place("refine degree") < Place("estimate") /\ Place("refine") < Place("estimate")
  /\ Place("aborted") < Place("refine degree")
  /\ Place("adjoint") < Place("refine degree")
  /\ Place("weigh") < Place("adjoint") /\ Place("restore") < Place("weigh")
  /\ Place("refine") < Place("restore")
  /\ Place("aborted") < Place("refine")
  BY DEF Place

\* A run, of any number of cycles, comes closer to its end with every step, whatever
\* its solves return and its estimates flag.
THEOREM RunDescends == Spec => [][Descends]_vars
<1>1. ASSUME Next PROVE Descends
  <2>1. CASE RampDegree
    BY <2>1 DEF RampDegree, Descends
  <2>2. CASE Solve
    BY <2>2, PlaceOrder DEF Solve, Descends
  <2>3. CASE Check
    BY <2>3, PlaceOrder DEF Check, Descends
  <2>4. CASE Finish
    BY <2>4, PlaceOrder DEF Finish, Descends
  <2>5. CASE EstimateByResidual
    BY <2>5, PlaceOrder DEF EstimateByResidual, Descends
  <2>6. CASE Reinit
    BY <2>6, PlaceOrder DEF Reinit, Descends
  <2>7. CASE coarse_to_fine
    BY <2>7, PlaceOrder DEF coarse_to_fine, Descends
  <2>8. CASE DegreeTooHigh
    BY <2>8, PlaceOrder DEF DegreeTooHigh, Descends
  <2>9. CASE fine_grid_adjoint
    BY <2>9, PlaceOrder DEF fine_grid_adjoint, Descends
  <2>10. CASE dual_weighted_residual
    BY <2>10, PlaceOrder DEF dual_weighted_residual, Descends
  <2>11. CASE fine_to_coarse
    BY <2>11, PlaceOrder DEF fine_to_coarse, Descends
  <2>12. CASE Refine
    BY <2>12 DEF Refine, Counted, Descends
  <2>13. CASE SensorAborts
    BY <2>13, PlaceOrder DEF SensorAborts, Descends
  <2> QED
    BY <1>1, <2>1, <2>2, <2>3, <2>4, <2>5, <2>6, <2>7, <2>8, <2>9, <2>10, <2>11,
       <2>12, <2>13 DEF Next
<1>2. [Next]_vars => [Descends]_vars
  BY <1>1
<1> QED
  BY <1>2, PTL DEF Spec
=============================================================================
