--------------------- MODULE ReducedOrderODESolver_proofs ---------------------
(***************************************************************************)
(* The steady solve of a reduced-order model, for any number of trials,    *)
(* iterations and norms: its types, the residual that a step starts from   *)
(* and the bound on the one it leaves, that no step fails, and that each   *)
(* one comes closer to the end.  The invariant adds to the types           *)
(* what holds while a step searches, and that the first assembly is never  *)
(* taken for done, so that it evaluates the residual.                      *)
(***************************************************************************)
EXTENDS ReducedOrderODESolver, DGBase_proofs

\* A search has its line and its starting point; the third case tries once.
SearchOK ==
  pc = "search" =>
    /\ ray \in [Trials -> Solutions]
    /\ old_solution \in Solutions
    /\ case \in 1 .. 3
    /\ case = 3 => iline = 0
    /\ current_iteration < MaxIterations

NothingAssembled == pc = "call" => dg.key_dRdW[1] = None

Inv == TypeOK /\ SearchOK /\ NothingAssembled /\ ResidualIsOfSolution

(***************************************************************************)
(* The norms and the trials.                                               *)
(***************************************************************************)
\* A norm that does not exceed another does not exceed twice that one.
LEMMA TwiceExceeds ==
  ASSUME NEW a \in Nat \cup {NaN}, NEW b \in Nat \cup {NaN}, ~Exceeds(a, b)
  PROVE  ~Exceeds(a, Twice(b))
<1>1. CASE a = NaN \/ b = NaN
  BY <1>1 DEF Exceeds, Twice
<1>2. CASE a # NaN /\ b # NaN
  <2>1. a \in Nat /\ b \in Nat /\ a <= b
    BY <1>2 DEF Exceeds
  <2> QED
    BY <1>2, <2>1 DEF Exceeds, Twice
<1> QED
  BY <1>1, <1>2

\* Trials are numbers, of which 0, those that shorten the step and Back are some.
LEMMA TrialNumbers ==
  /\ 0 \in Trials /\ Back \in Trials /\ maxline - 1 \in Trials
  /\ \A k \in 0 .. maxline : k \in Trials
  BY ReducedOrderAssumption DEF Trials, Back

\* The object at another solution, with the residual there.
LEMMA TriedObject ==
  ASSUME NEW d \in DGType, NEW s \in Solutions
  PROVE  LET r == WithResidual(SetSolution(d, s))
         IN  /\ r \in DGType
             /\ r.right_hand_side = EvaluatedResidual(r.solution, r.volume_nodes)
<1>1. SetSolution(d, s) \in DGType
  BY DEF SetSolution, DGType
<1> QED
  BY <1>1, WithResidualType, ResidualKnown

(***************************************************************************)
(* The invariant.                                                          *)
(***************************************************************************)
\* The object as it is allocated.
LEMMA InitInv == Init => Inv
<1> SUFFICES ASSUME Init PROVE Inv
  OBVIOUS
<1>1. PICK n \in Nodes, s \in Solutions : dg = SetSolution(AllocatedDG(n), s)
  BY DEF Init
<1>2. dg \in DGType
  BY <1>1 DEF SetSolution, AllocatedDG, DGType, Residual, ResidualType, ZeroMatrix,
              Matrix, MatrixType
<1>3. dg.key_dRdW[1] = None
  BY <1>1 DEF SetSolution, AllocatedDG
<1>4. /\ MaxIterations \in Nat /\ maxline \in Nat
  BY ReducedOrderAssumption
<1> QED
  BY <1>2, <1>3, <1>4
     DEF Init, Inv, TypeOK, SearchOK, NothingAssembled, ResidualIsOfSolution,
         NoRay, NoNorms

\* The assembly before the first step evaluates the residual.
LEMMA CallInv == Inv /\ Call => Inv'
<1> SUFFICES ASSUME Inv, Call PROVE Inv'
  OBVIOUS
<1> USE DEF Inv, TypeOK
<1>1. PICK s \in Solutions : dg' = AssembleResidual(SetSolution(dg, s), "dRdW", 0)
  BY DEF Call
<1> DEFINE d == SetSolution(dg, s)
<1>2. d \in DGType /\ d.solution = s /\ d.key_dRdW[1] = None
  BY DEF SetSolution, DGType, Call, NothingAssembled
<1>3. s # None
  BY DGAssumption
<1>4. dg' = AssembleResidual(d, "dRdW", 0)
  BY <1>1
<1> HIDE DEF d
<1>5. "dRdW" \in Derivatives /\ 0 \in Int
  BY DEF Derivatives
<1>6. dg' \in DGType
  BY <1>2, <1>4, <1>5, AssembleType
<1>7. dg'.right_hand_side = EvaluatedResidual(dg'.solution, dg'.volume_nodes)
  <2>1. ~AlreadyAssembled(d, "dRdW", 0)
    BY <1>2, <1>3 DEF AlreadyAssembled
  <2>2. dg' = WithResidual(With_dRdW(d, 0))
    BY <1>4, <2>1 DEF AssembleResidual
  <2> QED
    BY <1>2, <2>2 DEF WithResidual, With_dRdW, DGType
<1> QED
  BY <1>6, <1>7 DEF Call, SearchOK, NothingAssembled, ResidualIsOfSolution,
                    step_vars

\* A step begins a search, with its first trial.
LEMMA StepInv == Inv /\ Step => Inv'
<1> SUFFICES ASSUME Inv, Step PROVE Inv'
  OBVIOUS
<1> DEFINE a == AssembleResidual(dg, "dRdW", 0)
           b == NegateSystemMatrix(a)
<1>1. a \in DGType
  BY AssembleType DEF Inv, TypeOK, Derivatives
<1> HIDE DEF a
<1>2. b \in DGType
  <2>1. a.system_matrix \in MatrixType
    BY <1>1 DEF DGType
  <2>2. Negated(a.system_matrix) \in MatrixType
    BY <2>1, InPlaceType
  <2> QED
    BY <1>1, <2>2 DEF NegateSystemMatrix, DGType
<1>3. dg' = WithResidual(SetSolution(b, ray'[0])) /\ ray'[0] \in Solutions
  BY TrialNumbers DEF Step, Try, a
<1> HIDE DEF b
<1>4. /\ dg' \in DGType
      /\ dg'.right_hand_side = EvaluatedResidual(dg'.solution, dg'.volume_nodes)
  BY <1>2, <1>3, TriedObject
<1>5. dg.solution \in Solutions
  BY DEF Inv, TypeOK, DGType
<1>6. 0 \in 0 .. maxline /\ 1 \in 0 .. 3 /\ 1 \in 1 .. 3
  BY ReducedOrderAssumption
<1>7. ray' \in [Trials -> Solutions] /\ projected' \in [Solutions -> Norms]
  BY DEF Step
<1>8. ray' \in [Trials -> Solutions \cup {None}]
      /\ projected' \in [Solutions -> Norms \cup {Unit}]
  BY <1>7
<1> QED
  BY <1>4, <1>5, <1>6, <1>7, <1>8
     DEF Inv, TypeOK, Step, SearchOK, NothingAssembled, ResidualIsOfSolution,
         Continues

\* A shorter step is another trial of the same search.
LEMMA ShortenInv == Inv /\ Shorten => Inv'
<1> SUFFICES ASSUME Inv, Shorten PROVE Inv'
  OBVIOUS
<1>1. iline' \in 0 .. maxline
  BY ReducedOrderAssumption DEF Inv, TypeOK, Shorten
<1>2. /\ dg' = WithResidual(SetSolution(dg, ray[iline']))
      /\ ray[iline'] \in Solutions
  BY <1>1, TrialNumbers DEF Shorten, Try, Inv, SearchOK
<1>3. /\ dg' \in DGType
      /\ dg'.right_hand_side = EvaluatedResidual(dg'.solution, dg'.volume_nodes)
  BY <1>2, TriedObject DEF Inv, TypeOK
<1> QED
  BY <1>1, <1>3 DEF Inv, TypeOK, Shorten, SearchOK, NothingAssembled,
                    ResidualIsOfSolution

\* A case is followed by the next: there are three, for the third tries once.
LEMMA NextCaseInv == Inv /\ NextCase => Inv'
<1> SUFFICES ASSUME Inv, NextCase PROVE Inv'
  OBVIOUS
<1>1. case' \in 1 .. 3 /\ iline' = 0 /\ 0 \in 0 .. maxline
  BY ReducedOrderAssumption DEF Inv, SearchOK, NextCase
<1> DEFINE k == IF case = 1 THEN maxline - 1 ELSE Back
<1>2. /\ dg' = WithResidual(SetSolution(dg, ray[k]))
      /\ ray[k] \in Solutions
  BY TrialNumbers DEF NextCase, Try, Inv, SearchOK
<1>3. /\ dg' \in DGType
      /\ dg'.right_hand_side = EvaluatedResidual(dg'.solution, dg'.volume_nodes)
  BY <1>2, TriedObject DEF Inv, TypeOK
<1> HIDE DEF k
<1> QED
  BY <1>1, <1>3 DEF Inv, TypeOK, NextCase, SearchOK, NothingAssembled,
                    ResidualIsOfSolution

\* An accepted trial ends the step.
LEMMA AcceptInv == Inv /\ Accept => Inv'
<1> SUFFICES ASSUME Inv, Accept PROVE Inv'
  OBVIOUS
<1>1. projected[dg.solution] \in Norms \cup {Unit}
  BY DEF Inv, TypeOK, DGType
<1>2. current_iteration' \in 0 .. MaxIterations
  BY ReducedOrderAssumption DEF Inv, TypeOK, Accept, SearchOK
<1> QED
  BY <1>1, <1>2, ReducedOrderAssumption
     DEF Inv, TypeOK, Accept, SearchOK, NothingAssembled, ResidualIsOfSolution,
         new_residual, NoRay, NoNorms

\* Every step of steady_state keeps the invariant.
LEMMA NextInv == Inv /\ [Next]_vars => Inv'
<1> SUFFICES ASSUME Inv, [Next]_vars PROVE Inv'
  OBVIOUS
<1>1. CASE Return
  BY <1>1 DEF Return, Inv, TypeOK, SearchOK, NothingAssembled,
              ResidualIsOfSolution, step_vars
<1>2. CASE UNCHANGED vars
  BY <1>2 DEF vars, step_vars, Inv, TypeOK, SearchOK, NothingAssembled,
              ResidualIsOfSolution
<1> QED
  BY <1>1, <1>2, CallInv, StepInv, ShortenInv, NextCaseInv, AcceptInv DEF Next

\* The invariant of the specification.
LEMMA Invariance == Spec => []Inv
  BY InitInv, NextInv, PTL DEF Spec

\* Only an accepted trial ends a search, and each case accepts only residuals of
\* at most twice the norm of the first.
LEMMA AcceptedResidual ==
  ASSUME Inv, [Next]_vars
  PROVE  [pc = "search" /\ pc' = "head" =>
            /\ residual_norm' = projected[dg'.solution]
            /\ ~Exceeds(residual_norm', Twice(projected[old_solution]))]_vars
<1> SUFFICES ASSUME Next, pc = "search", pc' = "head"
             PROVE  /\ residual_norm' = projected[dg'.solution]
                    /\ ~Exceeds(residual_norm', Twice(projected[old_solution]))
  OBVIOUS
<1>1. Accept
  BY DEF Next, Call, Step, Shorten, NextCase, Return
<1>2. /\ residual_norm' = projected[dg.solution]
      /\ dg' = dg
  BY <1>1 DEF Accept, new_residual
<1>3. /\ projected[dg.solution] \in Nat \cup {NaN}
      /\ projected[old_solution] \in Nat \cup {NaN}
  BY ReducedOrderAssumption DEF Inv, TypeOK, SearchOK, DGType
<1>4. ~Exceeds(projected[dg.solution],
               IF case = 1 THEN projected[old_solution]
                           ELSE Twice(projected[old_solution]))
  BY <1>1 DEF Accept, Rejects, new_residual, initial_residual
<1>5. ~Exceeds(projected[dg.solution], Twice(projected[old_solution]))
  BY <1>3, <1>4, TwiceExceeds
<1> QED
  BY <1>2, <1>5

(***************************************************************************)
(* The theorems.                                                           *)
(***************************************************************************)
\* steady_state of a reduced-order model keeps the types of what it works on: the
\* searches stay on their line, in three cases and within maxline trials.
THEOREM TypeCorrect == Spec => []TypeOK
  BY Invariance, PTL DEF Inv

\* A step starts from the residual of its solution, also when it finds the
\* Jacobian already assembled and evaluates nothing.
THEOREM ResidualCorrect == Spec => []ResidualIsOfSolution
  BY Invariance, PTL DEF Inv

\* A step leaves a residual of at most twice the norm that it started from.
THEOREM SearchCorrect == Spec => SearchBoundsResidual
<1>1. Inv /\ [Next]_vars =>
        [pc = "search" /\ pc' = "head" =>
           /\ residual_norm' = projected[dg'.solution]
           /\ ~Exceeds(residual_norm', Twice(projected[old_solution]))]_vars
  BY AcceptedResidual
<1> QED
  BY <1>1, Invariance, PTL DEF Spec, SearchBoundsResidual

(***************************************************************************)
(* A search ends in the third case at the latest: its only trial is the    *)
(* solution the step started from, in the norm that the step measures with.*)
(***************************************************************************)
\* The trial of the third case has the norm of the solution the step started from.
BackOK ==
  pc = "search" =>
    /\ projected[ray[Back]] = projected[old_solution]
    /\ case = 3 => dg.solution = ray[Back]

\* The search begins in the first case, and the third begins with its only trial.
LEMMA BackStep == Inv /\ Inv' /\ BackOK /\ [Next]_vars => BackOK'
<1> SUFFICES ASSUME Inv, Inv', BackOK, [Next]_vars, pc' = "search"
             PROVE  BackOK'
  BY DEF BackOK
<1>1. CASE Step
  BY <1>1 DEF Step, BackOK
<1>2. CASE Shorten
  <2>1. pc = "search" /\ case' = case /\ case # 3
    BY <1>2 DEF Shorten, Inv, TypeOK
  <2> QED
    BY <1>2, <2>1 DEF Shorten, BackOK
<1>3. CASE NextCase
  <2>1. /\ case \in {1, 2} /\ case' = case + 1
        /\ dg' = WithResidual(SetSolution(dg, ray[IF case = 1 THEN maxline - 1
                                                             ELSE Back]))
    <3>1. case \in 1 .. 3 /\ case' \in 1 .. 3 /\ case' = case + 1
      BY <1>3 DEF NextCase, Inv, SearchOK
    <3> QED
      BY <1>3, <3>1 DEF NextCase, Try
  <2>2. case' = 3 => dg'.solution = ray[Back]
    <3> SUFFICES ASSUME case' = 3 PROVE dg'.solution = ray[Back]
      OBVIOUS
    <3>1. dg' = WithResidual(SetSolution(dg, ray[Back]))
      BY <2>1
    <3>2. dg \in DGType
      BY DEF Inv, TypeOK
    <3> QED
      BY <3>1, <3>2 DEF WithResidual, SetSolution, DGType
  <2> QED
    BY <1>3, <2>2 DEF NextCase, BackOK
<1>4. CASE UNCHANGED vars
  BY <1>4 DEF vars, step_vars, BackOK
<1> QED
  BY <1>1, <1>2, <1>3, <1>4 DEF Next, Call, Accept, Return

\* A residual never exceeds twice itself.
LEMMA OwnTwice ==
  ASSUME NEW a \in Nat \cup {NaN}
  PROVE  ~Exceeds(a, Twice(a))
<1>1. ~Exceeds(a, a)
  BY ReducedOrderAssumption DEF Exceeds
<1> QED
  BY <1>1, TwiceExceeds

\* The third case accepts its only trial: the search "in the other direction" is
\* made at the old solution, and no step fails.
THEOREM ThirdCaseCorrect == Spec => []ThirdCaseAccepts
<1>1. Init => BackOK
  BY DEF Init, BackOK
<1>2. Inv /\ BackOK => ThirdCaseAccepts
  <2> SUFFICES ASSUME Inv, BackOK, pc = "search", case = 3
               PROVE  iline < maxline /\ ~Rejects
    BY DEF ThirdCaseAccepts
  <2>1. iline < maxline
    BY ReducedOrderAssumption DEF Inv, SearchOK
  <2>2. projected[old_solution] \in Nat \cup {NaN}
    BY ReducedOrderAssumption DEF Inv, TypeOK, SearchOK
  <2>3. new_residual = projected[old_solution]
    BY DEF BackOK, new_residual
  <2>4. ~Exceeds(new_residual, Twice(projected[old_solution]))
    BY <2>2, <2>3, OwnTwice
  <2> QED
    BY <2>1, <2>4 DEF Rejects, initial_residual
<1> QED
  BY <1>1, <1>2, BackStep, Invariance, PTL DEF Spec

(***************************************************************************)
(* Every step brings a solve closer to its end: an iteration more, a case  *)
(* of the search or a place further in the iteration, or a trial more.     *)
(* TypeCorrect bounds the iterations, the cases and the trials.            *)
(***************************************************************************)
\* The stages that are left in an iteration, at place p in case c of a search.
Stage(p, c) ==
  CASE p = "call" -> 5      [] p = "head" -> 4
    [] p = "search" -> 4 - c  [] p = "done" -> 0

Descends ==
  \/ current_iteration' = current_iteration + 1
  \/ UNCHANGED current_iteration /\ Stage(pc', case') < Stage(pc, case)
  \/ UNCHANGED <<current_iteration, pc, case>> /\ iline' = iline + 1

LEMMA StageValues ==
  ASSUME NEW c \in Int
  PROVE  /\ Stage("call", c) = 5 /\ Stage("head", c) = 4
         /\ Stage("search", c) = 4 - c /\ Stage("done", c) = 0
  BY DEF Stage

\* A solve comes closer to its end with every step, whatever its searches find.
THEOREM SolveDescends == Spec => [][Descends]_vars
<1>1. ASSUME Inv, Inv', Next PROVE Descends
  <2>1. case \in Int /\ case' \in Int
    BY <1>1 DEF Inv, TypeOK
  <2>2. CASE Call
    BY <2>1, <2>2, StageValues DEF Call, Descends
  <2>3. CASE Step
    <3>1. Stage(pc', case') = 4 - 1 /\ Stage(pc, case) = 4
      BY <2>1, <2>3, StageValues DEF Step
    <3> QED
      BY <2>3, <3>1 DEF Step, Descends
  <2>4. CASE Shorten
    BY <2>4 DEF Shorten, Descends
  <2>5. CASE NextCase
    <3>1. /\ Stage(pc', case') = 4 - case' /\ Stage(pc, case) = 4 - case
          /\ case' = case + 1
      BY <2>1, <2>5, StageValues DEF NextCase
    <3>2. Stage(pc', case') < Stage(pc, case)
      BY <2>1, <3>1
    <3> QED
      BY <2>5, <3>2 DEF NextCase, Descends
  <2>6. CASE Accept
    BY <2>6 DEF Accept, Descends
  <2>7. CASE Return
    BY <2>1, <2>7, StageValues DEF Return, Descends
  <2> QED
    BY <1>1, <2>2, <2>3, <2>4, <2>5, <2>6, <2>7 DEF Next
<1>2. Inv /\ Inv' /\ [Next]_vars => [Descends]_vars
  BY <1>1
<1> QED
  BY <1>2, Invariance, PTL DEF Spec
=============================================================================
