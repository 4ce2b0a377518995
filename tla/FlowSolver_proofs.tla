-------------------------- MODULE FlowSolver_proofs --------------------------
(***************************************************************************)
(* Interrupted at any point and restarted from its latest restart files,   *)
(* an unsteady run goes on from files that belong together, with a data    *)
(* table that has one row for each time the solution went through, and     *)
(* ends at the final time when that is asked for.                          *)
(*                                                                         *)
(* The three cannot be separated: a restart is right because the files     *)
(* were, and the files are because the memory was.  The heart of the       *)
(* invariant is that files are only ever written under a number that no    *)
(* complete parameter file has: iterations only grow, from the latest      *)
(* complete set on.                                                        *)
(*                                                                         *)
(* On this rest the output of a run (at requested times and in intervals), *)
(* the types of all variables, and the refinement of TimeMarch.            *)
(***************************************************************************)
EXTENDS FlowSolver, NaturalsInduction, WellFoundedInduction, TLAPS

Writing == pc \in {"write solution", "write table", "write prm"}

Interval == option.restart_every_x_steps

ParametersOK == option \in Options /\ step_at \in StepFunctions

\* What is in memory, also after a crash, when it is that of a new run.
MemoryInv ==
  /\ pc \in {"loop", "write solution", "write table", "write prm", "output",
             "done", "crashed"}
  /\ solution \in Seq(Times) \ {<<>>}
  /\ table = solution
  /\ current_time = solution[Len(solution)]
  /\ current_iteration = Len(solution) - 1
  /\ next_time_step = step_at[current_time]
  /\ fixed_index \in Nat \ {0}
  /\ HasFixedTimes => fixed_index <= Len(option.fixed_times)
  /\ option.end_exactly_at_final_time => current_time <= FinalTime

\* A complete parameter file comes with files of its time and iteration.
SavedInv ==
  \A i \in Written :
    /\ solution_file[i] \in Seq(Times) \ {<<>>}
    /\ table_file[i] = solution_file[i]
    /\ prm_file[i].time = solution_file[i][Len(solution_file[i])]
    /\ prm_file[i].iteration = Len(solution_file[i]) - 1
    /\ prm_file[i].iteration = i * Interval
    /\ option.end_exactly_at_final_time => prm_file[i].time <= FinalTime

\* Restart files by interval are never written: the first is due at the initial
\* time, which the loop does not look at.
IntervalInv ==
  option.restart_every_dt > 0 =>
    Written = {} /\ restart_desired_time = 0 /\ ~Writing

\* No complete set is ahead of the run, and the number that is being written is
\* that of none.
NumberInv ==
  /\ pc # "crashed" => \A i \in Written : prm_file[i].iteration <= current_iteration
  /\ Writing =>
       /\ current_iteration = restart_number * Interval
       /\ restart_number \notin Written
  /\ pc \in {"write table", "write prm"} /\ restart_number \in FileNumbers =>
       solution_file[restart_number] = solution
  /\ pc = "write prm" /\ restart_number \in FileNumbers =>
       table_file[restart_number] = table

DomainInv ==
  /\ DOMAIN solution_file = FileNumbers
  /\ DOMAIN table_file = FileNumbers
  /\ DOMAIN prm_file = FileNumbers

FilesInv == SavedInv /\ IntervalInv /\ NumberInv /\ DomainInv

Inv == ParametersOK /\ MemoryInv /\ FilesInv

(***************************************************************************)
(* Lemmas about the operators.                                             *)
(***************************************************************************)
\* The types of the parameters that the proof needs.
LEMMA OptionTypes ==
  ASSUME ParametersOK
  PROVE  /\ option.fixed_times \in Seq(Times)
         /\ Interval \in Nat \ {0}
         /\ option.restart_every_dt \in Nat
         /\ option.end_exactly_at_final_time \in BOOLEAN
         /\ \A t \in Times : step_at[t] \in Nat \ {0}
         /\ \A t \in Times : t < FinalTime => t + step_at[t] <= Horizon
<1>1. option \in OptionType
  BY FlowSolverAssumption DEF ParametersOK
<1>2. step_at \in [Times -> Nat \ {0}]
  BY FlowSolverAssumption DEF ParametersOK
<1>3. \A t \in Times : t < FinalTime => t + step_at[t] <= Horizon
  BY FlowSolverAssumption DEF ParametersOK
<1> QED
  BY <1>1, <1>2, <1>3 DEF OptionType, Interval

\* A set of positions has a first one.
LEMMA FirstPosition ==
  ASSUME NEW S \in SUBSET Nat, S # {}
  PROVE  \E k \in S : \A j \in S : k <= j
<1>1. PICK k \in S : \A j \in S : ~ (<<j, k>> \in OpToRel(<, Nat))
  BY NatLessThanWellFounded, WFMin
<1>2. \A j \in S : ~ (j < k)
  BY <1>1 DEF OpToRel
<1> QED
  BY <1>2

\* The index that is found after a restart is that of a requested time.
LEMMA FixedIndexType ==
  ASSUME ParametersOK, NEW t \in Times
  PROVE  /\ FirstFixedIndexAfter(t) \in Nat \ {0}
         /\ HasFixedTimes => FirstFixedIndexAfter(t) <= Len(option.fixed_times)
<1> DEFINE f == option.fixed_times
           ahead == {k \in 1 .. Len(f) : t < f[k]}
<1>1. f \in Seq(Times)
  BY OptionTypes
<1>2. CASE ahead = {}
  <2>1. FirstFixedIndexAfter(t) = 1
    BY <1>2 DEF FirstFixedIndexAfter
  <2>2. f # <<>> => 1 <= Len(f)
    BY <1>1
  <2>3. HasFixedTimes => 1 <= Len(option.fixed_times)
    BY <2>2 DEF HasFixedTimes
  <2> QED
    BY <2>1, <2>3
<1>3. CASE ahead # {}
  <2>0. ahead \in SUBSET Nat
    BY <1>1
  <2>1. \E k \in ahead : \A j \in ahead : k <= j
    <3> HIDE DEF ahead
    <3> QED
      BY <1>3, <2>0, FirstPosition
  <2>2. FirstFixedIndexAfter(t) \in ahead
    BY <1>3, <2>1 DEF FirstFixedIndexAfter
  <2> QED
    BY <1>1, <2>2
<1> QED
  BY <1>2, <1>3

\* The current time is a time.
LEMMA LastElement ==
  ASSUME NEW S, NEW s \in Seq(S) \ {<<>>}
  PROVE  Len(s) \in Nat \ {0} /\ s[Len(s)] \in S
<1>1. Len(s) \in Nat /\ Len(s) # 0
  OBVIOUS
<1> QED
  BY <1>1

\* A step goes forward, not past the horizon, and not past the final time when the
\* run is to end there.
LEMMA StepBounds ==
  ASSUME ParametersOK, MemoryInv, current_time < FinalTime
  PROVE  /\ time_step \in Nat \ {0}
         /\ current_time + time_step \in Times
         /\ option.end_exactly_at_final_time =>
              current_time + time_step <= FinalTime
<1>1. /\ current_time \in Times
      /\ next_time_step \in Nat \ {0}
      /\ current_time + next_time_step <= Horizon
  <2>1. current_time \in Times /\ next_time_step = step_at[current_time]
    BY LastElement DEF MemoryInv
  <2> QED
    BY <2>1, OptionTypes
<1>2. HasFixedTimes => desired_fixed_time \in Times
  <2> SUFFICES ASSUME HasFixedTimes
               PROVE  desired_fixed_time \in Times
    OBVIOUS
  <2>0. /\ fixed_index \in Nat \ {0}
        /\ fixed_index <= Len(option.fixed_times)
    BY DEF MemoryInv
  <2>1. fixed_index \in 1 .. Len(option.fixed_times)
    BY <2>0, OptionTypes
  <2> QED
    BY <2>1, OptionTypes DEF desired_fixed_time
<1>3. FinalTime \in Nat /\ Horizon \in Nat
  BY FlowSolverAssumption
<1> QED
  BY <1>1, <1>2, <1>3, OptionTypes DEF time_step, Times

\* An iteration that is a multiple of an interval is found from its number.
LEMMA NumberOfMultiple ==
  ASSUME NEW n \in Nat, NEW x \in Nat \ {0}, n % x = 0
  PROVE  n = (n \div x) * x
  BY Z3

\* Numbers and the iterations they stand for are in the same order.
LEMMA MultiplesInOrder ==
  ASSUME NEW i \in Nat, NEW j \in Nat, NEW x \in Nat, j <= i
  PROVE  j * x <= i * x
<1>1. (i - j) \in Nat
  OBVIOUS
<1>2. (i - j) * x \in Nat
  BY <1>1
<1>3. (i - j) * x = i * x - j * x
  BY Z3
<1> QED
  BY <1>2, <1>3

(***************************************************************************)
(* The invariant.                                                          *)
(***************************************************************************)
\* A run from the initial condition establishes the invariant.
LEMMA InitInv == Init => Inv
<1> SUFFICES ASSUME Init
             PROVE  Inv
  OBVIOUS
<1>1. ParametersOK
  BY DEF Init, ParametersOK
<1>2. MemoryInv
  <2>1. <<0>> \in Seq(Times) \ {<<>>} /\ Len(<<0>>) = 1
    BY FlowSolverAssumption DEF Times
  <2>2. HasFixedTimes => 1 <= Len(option.fixed_times)
    BY <1>1, OptionTypes DEF HasFixedTimes
  <2> QED
    BY <2>1, <2>2, FlowSolverAssumption DEF Init, MemoryInv
<1>3. Written = {}
  BY DEF Init, Written
<1> QED
  BY <1>1, <1>2, <1>3
     DEF Inv, FilesInv, SavedInv, IntervalInv, NumberInv, DomainInv, Writing, Init

\* The iterations that are saved are numbers.
LEMMA SavedIterations ==
  ASSUME SavedInv
  PROVE  \A i \in Written : prm_file[i].iteration \in Nat
<1> SUFFICES ASSUME NEW i \in Written
             PROVE  prm_file[i].iteration \in Nat
  OBVIOUS
<1>1. /\ solution_file[i] \in Seq(Times) \ {<<>>}
      /\ prm_file[i].iteration = Len(solution_file[i]) - 1
  BY DEF SavedInv
<1>2. Len(solution_file[i]) \in Nat \ {0}
  BY <1>1, LastElement
<1> QED
  BY <1>1, <1>2

\* The time and the iteration are numbers.
LEMMA MemoryTypes ==
  ASSUME MemoryInv
  PROVE  current_time \in Times /\ current_iteration \in Nat
<1>1. Len(solution) \in Nat \ {0} /\ solution[Len(solution)] \in Times
  BY LastElement DEF MemoryInv
<1>2. /\ current_time = solution[Len(solution)]
      /\ current_iteration = Len(solution) - 1
  BY DEF MemoryInv
<1> QED
  BY <1>1, <1>2

\* So are those after a step.
LEMMA NextMemoryTypes ==
  ASSUME MemoryInv'
  PROVE  current_time' \in Times /\ current_iteration' \in Nat
<1>1. Len(solution') \in Nat \ {0} /\ solution'[Len(solution')] \in Times
  BY LastElement DEF MemoryInv
<1>2. /\ current_time' = solution'[Len(solution')]
      /\ current_iteration' = Len(solution') - 1
  BY DEF MemoryInv
<1> QED
  BY <1>1, <1>2

\* What is saved is not ahead of a run that has not gone back.
LEMMA SavedBehind ==
  ASSUME FilesInv, MemoryInv, MemoryInv', pc # "crashed",
         current_iteration <= current_iteration'
  PROVE  \A i \in Written : /\ prm_file[i].iteration \in Nat
                            /\ prm_file[i].iteration <= current_iteration
                            /\ prm_file[i].iteration <= current_iteration'
<1> SUFFICES ASSUME NEW i \in Written
             PROVE  /\ prm_file[i].iteration \in Nat
                    /\ prm_file[i].iteration <= current_iteration
                    /\ prm_file[i].iteration <= current_iteration'
  OBVIOUS
<1>1. prm_file[i].iteration \in Nat
  BY SavedIterations DEF FilesInv
<1>2. prm_file[i].iteration <= current_iteration
  BY DEF FilesInv, NumberInv
<1>3. current_iteration \in Nat /\ current_iteration' \in Nat
  BY MemoryTypes, NextMemoryTypes
<1> QED
  BY <1>1, <1>2, <1>3

\* A step that leaves the restart files and their parameters alone, and does not
\* lead into writing or out of a crash, keeps the invariant of the files.
LEMMA FilesKept ==
  ASSUME FilesInv, MemoryInv, MemoryInv', UNCHANGED <<parameters, restart_files>>,
         restart_desired_time' = restart_desired_time,
         ~Writing', pc # "crashed", current_iteration <= current_iteration'
  PROVE  FilesInv'
<1>1. Written' = Written
  BY DEF Written, restart_files
<1>2. SavedInv' /\ IntervalInv' /\ DomainInv'
  BY <1>1 DEF FilesInv, SavedInv, IntervalInv, DomainInv, parameters, restart_files,
              Interval
<1>3. \A i \in Written' : prm_file'[i].iteration <= current_iteration'
  BY <1>1, SavedBehind DEF restart_files
<1>4. NumberInv'
  BY <1>3 DEF NumberInv, Writing
<1> QED
  BY <1>2, <1>4 DEF FilesInv

\* A pass of the loop adds one time to the solution and one row to the table.
LEMMA AdvanceMemory ==
  ASSUME Inv, Advance
  PROVE  /\ MemoryInv'
         /\ current_time' > 0
         /\ current_iteration' = current_iteration + 1
<1>1. /\ ParametersOK /\ MemoryInv
      /\ current_time < FinalTime
      /\ current_time' = current_time + time_step
      /\ current_iteration' = current_iteration + 1
      /\ solution' = Append(solution, current_time')
      /\ table' = Append(table, current_time')
      /\ next_time_step' = step_at[current_time']
      /\ option' = option /\ step_at' = step_at /\ fixed_index' = fixed_index
      /\ pc' \in {"write solution", "output"}
  BY DEF Inv, Advance, parameters
<1>2. /\ time_step \in Nat \ {0}
      /\ current_time' \in Times
      /\ option.end_exactly_at_final_time => current_time' <= FinalTime
  BY <1>1, StepBounds
<1>3. solution \in Seq(Times) /\ table = solution
  BY <1>1 DEF MemoryInv
<1>4. /\ solution' \in Seq(Times) \ {<<>>}
      /\ Len(solution') = Len(solution) + 1
      /\ solution'[Len(solution')] = current_time'
  <2> DEFINE s == Append(solution, current_time')
  <2>1. /\ s \in Seq(Times)
        /\ Len(s) = Len(solution) + 1
        /\ s[Len(s)] = current_time'
    BY <1>2, <1>3
  <2>2. Len(solution) \in Nat
    BY <1>3
  <2>3. s # <<>>
    BY <2>1, <2>2
  <2>4. solution' = s
    BY <1>1
  <2> HIDE DEF s
  <2> QED
    BY <2>1, <2>3, <2>4
<1>5. current_iteration' = Len(solution') - 1
  <2>1. Len(solution) \in Nat
    BY <1>3
  <2>2. current_iteration = Len(solution) - 1
    BY <1>1 DEF MemoryInv
  <2>3. current_iteration' = current_iteration + 1
    BY <1>1
  <2> QED
    BY <1>4, <2>1, <2>2, <2>3
<1>6. current_time' > 0
  <2>1. current_time \in Nat
    <3>1. current_time \in 0 .. Horizon
      BY <1>1, MemoryTypes DEF Times
    <3> QED
      BY <3>1, FlowSolverAssumption
  <2>2. current_time' = current_time + time_step
    BY <1>1
  <2>3. time_step \in Nat \ {0}
    BY <1>2
  <2> QED
    BY <2>1, <2>2, <2>3
<1> QED
  BY <1>1, <1>2, <1>3, <1>4, <1>5, <1>6 DEF MemoryInv, HasFixedTimes

\* The number under which the files of an iteration are written is that of no
\* complete set: those are of earlier iterations.
LEMMA AdvanceInv ==
  ASSUME Inv, Advance
  PROVE  Inv'
<1>1. /\ ParametersOK /\ MemoryInv /\ FilesInv
      /\ pc = "loop"
      /\ option' = option /\ step_at' = step_at
      /\ restart_desired_time' = restart_desired_time
      /\ UNCHANGED restart_files
      /\ pc' = IF WritesRestart(current_time', current_iteration', next_time_step')
               THEN "write solution" ELSE "output"
  BY DEF Inv, Advance, parameters
<1>2. ParametersOK'
  BY <1>1 DEF ParametersOK
<1>3. /\ MemoryInv'
      /\ current_time' > 0
      /\ current_iteration' = current_iteration + 1
  BY AdvanceMemory
<1>4. current_iteration \in Nat /\ current_iteration' \in Nat
  <2>1. current_iteration \in Nat
    BY <1>1, MemoryTypes
  <2> QED
    BY <1>3, <2>1
<1>5. \A i \in Written : /\ prm_file[i].iteration \in Nat
                         /\ prm_file[i].iteration <= current_iteration
  <2>1. current_iteration <= current_iteration'
    BY <1>3, <1>4
  <2> QED
    BY <1>1, <1>3, <2>1, SavedBehind
<1>6. CASE ~Writing'
  <2>1. current_iteration <= current_iteration'
    BY <1>3, <1>4
  <2>2. FilesInv'
    BY <1>1, <1>3, <1>6, <2>1, FilesKept DEF parameters
  <2> QED
    BY <1>2, <1>3, <2>2 DEF Inv
<1>7. CASE Writing'
  <2>1. /\ pc' = "write solution"
        /\ WritesRestart(current_time', current_iteration', next_time_step')
    BY <1>1, <1>7 DEF Writing
  <2>2. option.restart_every_dt = 0
    <3>1. option.restart_every_dt \in Nat
      BY <1>1, OptionTypes
    <3>2. ASSUME option.restart_every_dt > 0
          PROVE  FALSE
      <4>1. restart_desired_time = 0
        BY <1>1, <3>2 DEF FilesInv, IntervalInv
      <4>2. IsOutputTime(current_time', next_time_step', 0)
        BY <2>1, <3>2, <4>1 DEF WritesRestart
      <4>3. current_time' <= 0
        BY <4>2 DEF IsOutputTime
      <4>4. current_time' \in Times
        BY <1>3, NextMemoryTypes
      <4> QED
        BY <1>3, <4>3, <4>4 DEF Times
    <3> QED
      BY <3>1, <3>2
  <2>3. current_iteration' % Interval = 0
    <3>1. ~(option.restart_every_dt > 0)
      BY <2>2
    <3> QED
      BY <2>1, <3>1 DEF WritesRestart, Interval
  <2>4. Interval \in Nat \ {0} /\ Interval' = Interval
    BY <1>1, OptionTypes DEF Interval
  <2>5. restart_number' = current_iteration' \div Interval
    <3>1. ~(option.restart_every_dt > 0)
      BY <2>2
    <3> QED
      BY <1>1, <3>1 DEF restart_number, Interval
  <2>6. current_iteration' = restart_number' * Interval
    BY <1>4, <2>3, <2>4, <2>5, NumberOfMultiple
  <2>7. Written' = Written
    BY <1>1 DEF Written, restart_files
  <2>8. restart_number' \notin Written
    <3> SUFFICES ASSUME restart_number' \in Written
                 PROVE  FALSE
      OBVIOUS
    <3>1. prm_file[restart_number'].iteration = current_iteration'
      BY <1>1, <2>6 DEF FilesInv, SavedInv
    <3>2. prm_file[restart_number'].iteration <= current_iteration
      BY <1>5
    <3> QED
      BY <1>3, <1>4, <3>1, <3>2
  <2>9. \A i \in Written : prm_file[i].iteration <= current_iteration'
    BY <1>3, <1>4, <1>5
  <2>10. NumberInv'
    <3>1. prm_file' = prm_file
      BY <1>1 DEF restart_files
    <3> QED
      BY <2>1, <2>4, <2>6, <2>7, <2>8, <2>9, <3>1 DEF NumberInv
  <2>11. SavedInv' /\ DomainInv'
    BY <1>1, <2>7 DEF FilesInv, SavedInv, DomainInv, restart_files, Interval
  <2>12. IntervalInv'
    <3>1. option'.restart_every_dt = 0
      BY <1>1, <2>2
    <3>2. ~(option'.restart_every_dt > 0)
      BY <3>1
    <3> QED
      BY <3>2 DEF IntervalInv
  <2> QED
    BY <1>2, <1>3, <2>10, <2>11, <2>12 DEF Inv, FilesInv
<1> QED
  BY <1>6, <1>7

\* A step that leaves the memory alone, whatever else it does.
LEMMA MemoryKept ==
  ASSUME MemoryInv, UNCHANGED <<option, step_at>>,
         UNCHANGED <<current_time, current_iteration, next_time_step, solution,
                     table>>,
         fixed_index' \in Nat \ {0},
         HasFixedTimes => fixed_index' <= Len(option.fixed_times),
         pc' \in {"loop", "write solution", "write table", "write prm", "output",
                 "done", "crashed"}
  PROVE  MemoryInv'
  BY DEF MemoryInv, HasFixedTimes

\* The solution is written under a number that no complete set has.
LEMMA WriteSolutionInv ==
  ASSUME Inv, WriteSolution
  PROVE  Inv'
<1>1. /\ ParametersOK /\ MemoryInv /\ FilesInv
      /\ pc = "write solution" /\ pc' = "write table"
      /\ solution_file' = [solution_file EXCEPT ![restart_number] = solution]
      /\ UNCHANGED <<option, step_at, memory, table_file, prm_file>>
  BY DEF Inv, WriteSolution, parameters
<1>2. ParametersOK' /\ MemoryInv'
  BY <1>1, MemoryKept DEF ParametersOK, memory, MemoryInv
<1>3. /\ Written' = Written /\ restart_number' = restart_number
      /\ Interval' = Interval /\ Writing
  BY <1>1 DEF Written, restart_number, Interval, memory, Writing
<1>4. restart_number \notin Written
  BY <1>1, <1>3 DEF FilesInv, NumberInv
<1>5. /\ DOMAIN solution_file = FileNumbers
      /\ \A i \in Written : i \in FileNumbers
  BY <1>1 DEF FilesInv, DomainInv, Written
<1>6. \A i \in Written : solution_file'[i] = solution_file[i]
  BY <1>1, <1>4, <1>5
<1>7. SavedInv'
  BY <1>1, <1>3, <1>6 DEF FilesInv, SavedInv
<1>8. IntervalInv' /\ DomainInv'
  BY <1>1, <1>3 DEF FilesInv, IntervalInv, DomainInv
<1>9. NumberInv'
  <2>1. restart_number \in FileNumbers => solution_file'[restart_number] = solution
    BY <1>1, <1>5
  <2>2. /\ current_iteration' = current_iteration /\ solution' = solution
        /\ prm_file' = prm_file
    BY <1>1 DEF memory
  <2> QED
    BY <1>1, <1>3, <2>1, <2>2 DEF FilesInv, NumberInv
<1> QED
  BY <1>2, <1>7, <1>8, <1>9 DEF Inv, FilesInv

\* So is the table, after the solution.
LEMMA WriteTableInv ==
  ASSUME Inv, WriteTable
  PROVE  Inv'
<1>1. /\ ParametersOK /\ MemoryInv /\ FilesInv
      /\ pc = "write table" /\ pc' = "write prm"
      /\ table_file' = [table_file EXCEPT ![restart_number] = table]
      /\ UNCHANGED <<option, step_at, memory, solution_file, prm_file>>
  BY DEF Inv, WriteTable, parameters
<1>2. ParametersOK' /\ MemoryInv'
  BY <1>1, MemoryKept DEF ParametersOK, memory, MemoryInv
<1>3. /\ Written' = Written /\ restart_number' = restart_number
      /\ Interval' = Interval /\ Writing
  BY <1>1 DEF Written, restart_number, Interval, memory, Writing
<1>4. restart_number \notin Written
  BY <1>1, <1>3 DEF FilesInv, NumberInv
<1>5. /\ DOMAIN table_file = FileNumbers
      /\ \A i \in Written : i \in FileNumbers
  BY <1>1 DEF FilesInv, DomainInv, Written
<1>6. \A i \in Written : table_file'[i] = table_file[i]
  BY <1>1, <1>4, <1>5
<1>7. SavedInv'
  BY <1>1, <1>3, <1>6 DEF FilesInv, SavedInv
<1>8. IntervalInv' /\ DomainInv'
  BY <1>1, <1>3 DEF FilesInv, IntervalInv, DomainInv
<1>9. NumberInv'
  <2>1. restart_number \in FileNumbers => table_file'[restart_number] = table
    BY <1>1, <1>5
  <2>2. /\ current_iteration' = current_iteration
        /\ solution' = solution /\ table' = table
        /\ prm_file' = prm_file /\ solution_file' = solution_file
    BY <1>1 DEF memory
  <2> QED
    BY <1>1, <1>3, <2>1, <2>2 DEF FilesInv, NumberInv
<1> QED
  BY <1>2, <1>7, <1>8, <1>9 DEF Inv, FilesInv

\* The parameter file makes a complete set of the three.
LEMMA WriteParametersInv ==
  ASSUME Inv, WriteParameters
  PROVE  Inv'
<1> DEFINE r == [time |-> current_time, iteration |-> current_iteration,
                 desired_time |-> desired_time, time_step |-> next_time_step]
<1>1. /\ ParametersOK /\ MemoryInv /\ FilesInv
      /\ pc = "write prm" /\ pc' = "output"
      /\ prm_file' = [prm_file EXCEPT ![restart_number] = r]
      /\ UNCHANGED <<option, step_at, current_time, current_iteration,
                     next_time_step, solution, table, fixed_index, solution_file,
                     table_file>>
  BY DEF Inv, WriteParameters, parameters
<1>2. r.time = current_time /\ r.iteration = current_iteration
  OBVIOUS
<1> HIDE DEF r
<1>3. ParametersOK' /\ MemoryInv'
  BY <1>1, MemoryKept DEF ParametersOK, MemoryInv
<1>4. /\ Writing /\ ~Writing' /\ Interval' = Interval
      /\ DOMAIN prm_file = FileNumbers
  BY <1>1 DEF Interval, Writing, FilesInv, DomainInv
<1>5. /\ \A i \in Written' : i \in Written \/ i = restart_number
      /\ \A i \in Written' : i \in FileNumbers
      /\ \A i \in Written' : prm_file'[i] = IF i = restart_number THEN r ELSE prm_file[i]
  BY <1>1, <1>4 DEF Written
<1>6. restart_number \in FileNumbers =>
        /\ solution_file[restart_number] = solution
        /\ table_file[restart_number] = table
  BY <1>1 DEF FilesInv, NumberInv
<1>7. current_iteration = restart_number * Interval
  BY <1>1, <1>4 DEF FilesInv, NumberInv
<1>8. SavedInv'
  <2> SUFFICES ASSUME NEW i \in Written'
               PROVE  /\ solution_file[i] \in Seq(Times) \ {<<>>}
                      /\ table_file[i] = solution_file[i]
                      /\ prm_file'[i].time = solution_file[i][Len(solution_file[i])]
                      /\ prm_file'[i].iteration = Len(solution_file[i]) - 1
                      /\ prm_file'[i].iteration = i * Interval
                      /\ option.end_exactly_at_final_time =>
                           prm_file'[i].time <= FinalTime
    BY <1>1, <1>4 DEF SavedInv
  <2>1. CASE i = restart_number
    BY <1>1, <1>2, <1>5, <1>6, <1>7, <2>1 DEF MemoryInv
  <2>2. CASE i # restart_number
    BY <1>1, <1>5, <2>2 DEF FilesInv, SavedInv
  <2> QED
    BY <2>1, <2>2
<1>9. IntervalInv' /\ DomainInv'
  BY <1>1, <1>4 DEF FilesInv, IntervalInv, DomainInv
<1>10. NumberInv'
  <2>1. current_iteration \in Nat
    BY <1>1, MemoryTypes
  <2>2. \A i \in Written' : prm_file'[i].iteration <= current_iteration
    <3> SUFFICES ASSUME NEW i \in Written'
                 PROVE  prm_file'[i].iteration <= current_iteration
      OBVIOUS
    <3>1. CASE i = restart_number
      BY <1>2, <1>5, <2>1, <3>1
    <3>2. CASE i # restart_number
      BY <1>1, <1>5, <3>2 DEF FilesInv, NumberInv
    <3> QED
      BY <3>1, <3>2
  <2> QED
    BY <1>1, <1>4, <2>2 DEF NumberInv, Writing
<1> QED
  BY <1>3, <1>8, <1>9, <1>10 DEF Inv, FilesInv

\* Solution output and the end of the run touch no restart file.
LEMMA OutputInv ==
  ASSUME Inv, Output \/ Finish
  PROVE  Inv'
<1>1. /\ ParametersOK /\ MemoryInv /\ FilesInv
      /\ pc \in {"output", "loop"} /\ pc' \in {"loop", "done"}
      /\ UNCHANGED <<option, step_at, current_time, current_iteration,
                     next_time_step, solution, table, restart_desired_time,
                     solution_file, table_file, prm_file>>
  BY DEF Inv, Output, Finish, parameters, memory, restart_files
<1>2. /\ fixed_index' \in Nat \ {0}
      /\ HasFixedTimes => fixed_index' <= Len(option.fixed_times)
  <2>1. /\ fixed_index \in Nat \ {0}
        /\ HasFixedTimes => fixed_index <= Len(option.fixed_times)
        /\ Len(option.fixed_times) \in Nat
    <3>1. option.fixed_times \in Seq(Times)
      BY <1>1, OptionTypes
    <3>2. Len(option.fixed_times) \in Nat
      BY <3>1
    <3> QED
      BY <1>1, <3>2 DEF MemoryInv
  <2>2. \/ fixed_index' = fixed_index
        \/ /\ fixed_index' = fixed_index + 1
           /\ fixed_index < Len(option.fixed_times)
    BY DEF Output, Finish, memory
  <2> QED
    BY <2>1, <2>2
<1>3. ParametersOK' /\ MemoryInv'
  BY <1>1, <1>2, MemoryKept DEF ParametersOK
<1>4. FilesInv'
  <2>1. current_iteration <= current_iteration'
    BY <1>1, MemoryTypes
  <2> QED
    BY <1>1, <1>3, <2>1, FilesKept DEF Writing, parameters, restart_files
<1> QED
  BY <1>3, <1>4 DEF Inv

\* A crash tears no file of a complete set.
LEMMA CrashInv ==
  ASSUME Inv, Crash
  PROVE  Inv'
<1>1. /\ ParametersOK /\ MemoryInv /\ FilesInv
      /\ pc' = "crashed"
      /\ option' = option /\ step_at' = step_at
      /\ current_time' = 0 /\ current_iteration' = 0
      /\ next_time_step' = step_at[0]
      /\ solution' = <<0>> /\ table' = <<0>>
      /\ restart_desired_time' = 0 /\ fixed_index' = 1
  BY DEF Inv, Crash, parameters
<1>2. ParametersOK'
  BY <1>1 DEF ParametersOK
<1>3. MemoryInv'
  <2>1. <<0>> \in Seq(Times) \ {<<>>} /\ Len(<<0>>) = 1
    BY FlowSolverAssumption DEF Times
  <2>2. HasFixedTimes => 1 <= Len(option.fixed_times)
    <3>1. option.fixed_times \in Seq(Times)
      BY <1>1, OptionTypes
    <3> QED
      BY <3>1 DEF HasFixedTimes
  <2>3. 0 <= FinalTime
    BY FlowSolverAssumption
  <2>4. solution' = <<0>> /\ solution'[Len(solution')] = 0 /\ Len(solution') - 1 = 0
    BY <1>1, <2>1
  <2>5. HasFixedTimes' = HasFixedTimes /\ 1 \in Nat \ {0}
    BY <1>1 DEF HasFixedTimes
  <2>6. /\ solution' \in Seq(Times) \ {<<>>}
        /\ table' = solution'
        /\ current_time' = solution'[Len(solution')]
        /\ current_iteration' = Len(solution') - 1
        /\ next_time_step' = step_at'[current_time']
    BY <1>1, <2>1, <2>4
  <2>7. /\ fixed_index' \in Nat \ {0}
        /\ HasFixedTimes' => fixed_index' <= Len(option'.fixed_times)
        /\ current_time' <= FinalTime
    BY <1>1, <2>2, <2>3, <2>5
  <2> QED
    BY <1>1, <2>6, <2>7 DEF MemoryInv
<1>4. Writing => restart_number \notin Written
  BY <1>1 DEF FilesInv, NumberInv
<1>5. /\ \/ solution_file' = solution_file
         \/ Writing /\ solution_file' = [solution_file EXCEPT ![restart_number] = Torn]
      /\ \/ table_file' = table_file
         \/ Writing /\ table_file' = [table_file EXCEPT ![restart_number] = Torn]
      /\ \/ prm_file' = prm_file
         \/ Writing /\ prm_file' = [prm_file EXCEPT ![restart_number] = Torn]
  BY DEF Crash, MayTear, Writing
<1>6. DomainInv /\ SavedInv /\ IntervalInv
  BY <1>1 DEF FilesInv
<1>7. DomainInv'
  BY <1>5, <1>6 DEF DomainInv
<1>8. \A i \in Written' :
        /\ i \in Written
        /\ solution_file'[i] = solution_file[i]
        /\ table_file'[i] = table_file[i]
        /\ prm_file'[i] = prm_file[i]
  <2> SUFFICES ASSUME NEW i \in Written'
               PROVE  /\ i \in Written
                      /\ solution_file'[i] = solution_file[i]
                      /\ table_file'[i] = table_file[i]
                      /\ prm_file'[i] = prm_file[i]
    OBVIOUS
  <2>1. i \in FileNumbers /\ prm_file'[i] \notin {None, Torn}
    BY DEF Written
  <2>2. prm_file'[i] = prm_file[i]
    BY <1>5, <1>6, <2>1 DEF DomainInv
  <2>3. i \in Written
    BY <2>1, <2>2 DEF Written
  <2>4. Writing => i # restart_number
    BY <1>4, <2>3
  <2> QED
    BY <1>5, <1>6, <2>1, <2>2, <2>3, <2>4 DEF DomainInv
<1>9. SavedInv'
  BY <1>1, <1>6, <1>8 DEF SavedInv, Interval
<1>10. IntervalInv'
  BY <1>1, <1>6, <1>8 DEF IntervalInv, Writing
<1>11. NumberInv'
  BY <1>1 DEF NumberInv, Writing
<1> QED
  BY <1>2, <1>3, <1>7, <1>9, <1>10, <1>11 DEF Inv, FilesInv

\* A run that starts again from the initial condition finds no complete set.
LEMMA StartAgainInv ==
  ASSUME Inv, StartAgain, LatestOnly
  PROVE  Inv'
<1>1. /\ ParametersOK /\ MemoryInv /\ FilesInv
      /\ pc' = "loop" /\ Written = {}
      /\ UNCHANGED <<option, step_at, current_time, current_iteration,
                     next_time_step, solution, table, fixed_index,
                     restart_desired_time, solution_file, table_file, prm_file>>
  BY DEF Inv, StartAgain, parameters, restart_files
<1>2. ParametersOK' /\ MemoryInv'
  BY <1>1, MemoryKept DEF ParametersOK, MemoryInv
<1>3. Written' = {}
  BY <1>1 DEF Written
<1>4. SavedInv' /\ NumberInv'
  BY <1>1, <1>3 DEF SavedInv, NumberInv, Writing
<1>5. IntervalInv' /\ DomainInv'
  BY <1>1, <1>3 DEF FilesInv, IntervalInv, DomainInv, Writing
<1> QED
  BY <1>2, <1>4, <1>5 DEF Inv, FilesInv

\* A run that is restarted from the latest complete set is where that set was
\* written, and no complete set is ahead of it.
LEMMA RestartInv ==
  ASSUME Inv, NEW i \in RestartNumbers, Restart(i), LatestOnly
  PROVE  Inv'
<1>1. /\ ParametersOK /\ MemoryInv /\ FilesInv
      /\ pc' = "loop"
      /\ current_time' = prm_file[i].time
      /\ current_iteration' = prm_file[i].iteration
      /\ next_time_step' = step_at[solution_file[i][Len(solution_file[i])]]
      /\ solution' = solution_file[i]
      /\ table' = table_file[i]
      /\ fixed_index' = FirstFixedIndexAfter(current_time')
      /\ UNCHANGED <<option, step_at, solution_file, table_file, prm_file>>
  BY DEF Inv, Restart, parameters, restart_files
<1>2. i \in Written /\ \A j \in Written : j <= i
  BY DEF RestartNumbers
<1>3. /\ solution_file[i] \in Seq(Times) \ {<<>>}
      /\ table_file[i] = solution_file[i]
      /\ prm_file[i].time = solution_file[i][Len(solution_file[i])]
      /\ prm_file[i].iteration = Len(solution_file[i]) - 1
      /\ option.end_exactly_at_final_time => prm_file[i].time <= FinalTime
  BY <1>1, <1>2 DEF FilesInv, SavedInv
<1>4. current_time' \in Times
  BY <1>1, <1>3, LastElement
<1>5. ParametersOK'
  BY <1>1 DEF ParametersOK
<1>6. MemoryInv'
  <2>1. /\ fixed_index' \in Nat \ {0}
        /\ HasFixedTimes => fixed_index' <= Len(option.fixed_times)
    BY <1>1, <1>4, FixedIndexType
  <2> QED
    BY <1>1, <1>3, <2>1 DEF MemoryInv, HasFixedTimes
<1>7. Written' = Written /\ Interval' = Interval
  BY <1>1 DEF Written, Interval
<1>8. SavedInv' /\ DomainInv'
  BY <1>1, <1>7 DEF FilesInv, SavedInv, DomainInv
<1>9. IntervalInv'
  BY <1>1, <1>2 DEF FilesInv, IntervalInv
<1>10. NumberInv'
  <2>1. \A j \in Written : prm_file[j].iteration <= prm_file[i].iteration
    <3> SUFFICES ASSUME NEW j \in Written
                 PROVE  prm_file[j].iteration <= prm_file[i].iteration
      OBVIOUS
    <3>1. i \in Nat /\ j \in Nat /\ j <= i
      BY <1>2, FlowSolverAssumption DEF Written, FileNumbers
    <3>2. Interval \in Nat
      BY <1>1, OptionTypes
    <3>3. /\ prm_file[i].iteration = i * Interval
          /\ prm_file[j].iteration = j * Interval
      BY <1>1, <1>2 DEF FilesInv, SavedInv
    <3> QED
      BY <3>1, <3>2, <3>3, MultiplesInOrder
  <2> QED
    BY <1>1, <1>7, <2>1 DEF NumberInv, Writing
<1> QED
  BY <1>5, <1>6, <1>8, <1>9, <1>10 DEF Inv, FilesInv

\* Every step keeps the invariant, if runs are restarted from the latest files.
LEMMA InvStep ==
  ASSUME Inv, [Next]_vars, LatestOnly \/ pc # "crashed"
  PROVE  Inv'
<1>1. CASE Advance
  BY <1>1, AdvanceInv
<1>2. CASE WriteSolution
  BY <1>2, WriteSolutionInv
<1>3. CASE WriteTable
  BY <1>3, WriteTableInv
<1>4. CASE WriteParameters
  BY <1>4, WriteParametersInv
<1>5. CASE Output \/ Finish
  BY <1>5, OutputInv
<1>6. CASE Crash
  BY <1>6, CrashInv
<1>7. CASE StartAgain
  <2>1. LatestOnly
    BY <1>7 DEF StartAgain
  <2> QED
    BY <1>7, <2>1, StartAgainInv
<1>8. ASSUME NEW i \in RestartNumbers, Restart(i)
      PROVE  Inv'
  <2>1. LatestOnly
    BY <1>8 DEF Restart
  <2> QED
    BY <1>8, <2>1, RestartInv
<1>9. CASE UNCHANGED vars
  BY <1>9 DEF vars, parameters, memory, restart_files, Inv, ParametersOK, MemoryInv,
              FilesInv, SavedInv, IntervalInv, NumberInv, DomainInv, Written,
              Writing, Interval, restart_number, HasFixedTimes
<1> QED
  BY <1>1, <1>2, <1>3, <1>4, <1>5, <1>6, <1>7, <1>8, <1>9 DEF Next, Loop

\* The invariant.
LEMMA Invariant ==
  ASSUME LatestOnly
  PROVE  Spec => []Inv
<1>1. Inv /\ [Next]_vars => Inv'
  BY InvStep
<1> QED
  BY <1>1, InitInv, PTL DEF Spec

(***************************************************************************)
(* What a step does to the complete sets, and what it leaves alone.        *)
(***************************************************************************)
\* Only one number of each restart file is ever written to, and that while writing.
Puts(file, v) == Writing /\ file' = [file EXCEPT ![restart_number] = v]

LEMMA FilesAfter ==
  ASSUME [Next]_vars
  PROVE  /\ \/ solution_file' = solution_file
            \/ \E v : Puts(solution_file, v)
         /\ \/ prm_file' = prm_file
            \/ Puts(prm_file, Torn)
            \/ WriteParameters
<1>1. CASE WriteSolution
  <2>1. Puts(solution_file, solution) /\ prm_file' = prm_file
    BY <1>1 DEF WriteSolution, Puts, Writing
  <2> QED
    BY <2>1
<1>2. CASE WriteTable
  BY <1>2 DEF WriteTable
<1>3. CASE WriteParameters
  BY <1>3 DEF WriteParameters
<1>4. CASE Crash
  <2>1. solution_file' = solution_file \/ Puts(solution_file, Torn)
    BY <1>4 DEF Crash, MayTear, Puts, Writing
  <2>2. prm_file' = prm_file \/ Puts(prm_file, Torn)
    BY <1>4 DEF Crash, MayTear, Puts, Writing
  <2> QED
    BY <2>1, <2>2
<1>5. CASE UNCHANGED restart_files
  BY <1>5 DEF restart_files
<1>6. CASE Advance \/ Output \/ Finish \/ StartAgain
  BY <1>5, <1>6 DEF Advance, Output, Finish, StartAgain
<1>7. CASE \E i \in RestartNumbers : Restart(i)
  BY <1>5, <1>7 DEF Restart
<1>8. CASE UNCHANGED vars
  BY <1>5, <1>8 DEF vars
<1> QED
  BY <1>1, <1>2, <1>3, <1>4, <1>6, <1>7, <1>8 DEF Next, Loop

\* What is complete stays: its number is not written to.
LEMMA SavedSame ==
  ASSUME Inv, [Next]_vars, NEW i \in Written
  PROVE  /\ i \in Written'
         /\ prm_file'[i] = prm_file[i]
         /\ solution_file'[i] = solution_file[i]
<1>1. Writing => i # restart_number
  BY DEF Inv, FilesInv, NumberInv
<1>2. /\ DOMAIN solution_file = FileNumbers /\ DOMAIN prm_file = FileNumbers
      /\ i \in FileNumbers /\ prm_file[i] \notin {None, Torn}
  BY DEF Inv, FilesInv, DomainInv, Written
<1>3. solution_file'[i] = solution_file[i]
  BY <1>1, <1>2, FilesAfter DEF Puts
<1>4. prm_file'[i] = prm_file[i]
  <2>1. CASE WriteParameters
    <3>1. Writing
      BY <2>1 DEF WriteParameters, Writing
    <3> QED
      BY <1>1, <1>2, <2>1, <3>1 DEF WriteParameters
  <2>2. CASE prm_file' = prm_file \/ Puts(prm_file, Torn)
    BY <1>1, <1>2, <2>2 DEF Puts
  <2> QED
    BY <2>1, <2>2, FilesAfter
<1> QED
  BY <1>2, <1>3, <1>4 DEF Written

\* A set is completed by its parameter file, and is of the solution in memory.
LEMMA SavedNew ==
  ASSUME Inv, [Next]_vars, NEW i \in Written', i \notin Written
  PROVE  /\ WriteParameters /\ i = restart_number
         /\ prm_file'[i] = [time |-> current_time, iteration |-> current_iteration,
                            desired_time |-> desired_time,
                            time_step |-> next_time_step]
         /\ solution_file'[i] = solution
<1> DEFINE r == [time |-> current_time, iteration |-> current_iteration,
                 desired_time |-> desired_time, time_step |-> next_time_step]
<1>1. i \in FileNumbers /\ prm_file'[i] \notin {None, Torn}
  BY DEF Written
<1>2. DOMAIN prm_file = FileNumbers
  BY DEF Inv, FilesInv, DomainInv
<1>3. prm_file'[i] # prm_file[i]
  BY <1>1 DEF Written
<1>4. WriteParameters
  BY <1>1, <1>2, <1>3, FilesAfter DEF Puts
<1>5. /\ prm_file' = [prm_file EXCEPT ![restart_number] = r]
      /\ solution_file' = solution_file /\ pc = "write prm"
  BY <1>4 DEF WriteParameters
<1> HIDE DEF r
<1>6. i = restart_number /\ prm_file'[i] = r
  BY <1>1, <1>2, <1>3, <1>5
<1>7. solution_file[i] = solution
  BY <1>1, <1>5, <1>6 DEF Inv, FilesInv, NumberInv
<1> QED
  BY <1>4, <1>5, <1>6, <1>7 DEF r

\* Between two passes of the loop; otherwise the pass has yet to make its output.
BetweenPasses == pc \in {"loop", "done"}

\* The steps that move neither the run nor its output.
LEMMA QuietSteps ==
  ASSUME \/ WriteSolution \/ WriteTable \/ WriteParameters \/ Finish
         \/ UNCHANGED vars
  PROVE  /\ UNCHANGED <<option, step_at, current_time, current_iteration,
                        next_time_step, solution, desired_time, fixed_index,
                        vtk_file, crashes>>
         /\ BetweenPasses' <=> BetweenPasses
         /\ pc' = "crashed" <=> pc = "crashed"
         /\ pc' = "output" => WriteParameters \/ UNCHANGED vars
<1>1. CASE WriteSolution \/ WriteTable
  BY <1>1 DEF WriteSolution, WriteTable, parameters, memory, BetweenPasses
<1>2. CASE WriteParameters
  BY <1>2 DEF WriteParameters, parameters, BetweenPasses
<1>3. CASE Finish
  BY <1>3 DEF Finish, parameters, memory, BetweenPasses
<1>4. CASE UNCHANGED vars
  BY <1>4 DEF vars, parameters, memory, BetweenPasses
<1> QED
  BY <1>1, <1>2, <1>3, <1>4

(***************************************************************************)
(* Numbers of files.                                                       *)
(***************************************************************************)
\* A quotient of natural numbers is not above the dividend.
LEMMA QuotientBelow ==
  ASSUME NEW n \in Nat, NEW x \in Nat \ {0}
  PROVE  n \div x \in Nat /\ n \div x <= n
  BY Z3

\* A multiple of an interval is rounded to its number.
LEMMA RoundOfMultiple ==
  ASSUME NEW m \in Nat, NEW d \in Nat \ {0}
  PROVE  Round(m * d, d) = m
  BY Z3 DEF Round

\* The next multiple, and the order of two.
LEMMA NextMultiple ==
  ASSUME NEW m \in Nat, NEW d \in Nat \ {0}
  PROVE  m * d \in Nat /\ m <= m * d /\ (m + 1) * d = m * d + d
  BY Z3

LEMMA MultiplesBelow ==
  ASSUME NEW m \in Nat, NEW n \in Nat, NEW d \in Nat \ {0}, n * d < m * d
  PROVE  n + 1 <= m
  BY Z3

\* The types of the parameters of the solution output.
LEMMA OutputTypes ==
  ASSUME ParametersOK
  PROVE  /\ option.every_x_steps \in Nat /\ option.every_dt \in Nat
         /\ option.exact_fixed_times \in BOOLEAN
         /\ option.fixed_times \in Seq(Times)
         /\ Len(option.fixed_times) \in Nat /\ Len(option.fixed_times) <= Horizon
         /\ \A k \in 1 .. Len(option.fixed_times) : option.fixed_times[k] \in Nat
<1>1. option \in OptionType /\ Len(option.fixed_times) <= Horizon
  BY FlowSolverAssumption DEF ParametersOK
<1>2. option.fixed_times \in Seq(Times) /\ Times \subseteq Nat
  BY <1>1, FlowSolverAssumption DEF OptionType, Times
<1>3. /\ Len(option.fixed_times) \in Nat
      /\ \A k \in 1 .. Len(option.fixed_times) : option.fixed_times[k] \in Times
  BY <1>2
<1> QED
  BY <1>1, <1>2, <1>3 DEF OptionType

\* Times and steps are numbers, and a step that is taken stays below the horizon.
LEMMA TimesAreNumbers ==
  ASSUME ParametersOK, MemoryInv
  PROVE  /\ current_time \in Nat /\ current_time <= Horizon
         /\ current_iteration \in Nat
         /\ next_time_step \in Nat \ {0} /\ next_time_step = step_at[current_time]
         /\ current_time < FinalTime => current_time + next_time_step <= Horizon
         /\ FinalTime \in Nat /\ Horizon \in Nat
<1>1. /\ current_time \in Times /\ current_iteration \in Nat
      /\ next_time_step = step_at[current_time]
  BY MemoryTypes DEF MemoryInv
<1>2. next_time_step \in Nat \ {0}
  BY <1>1, OptionTypes
<1>3. current_time < FinalTime => current_time + next_time_step <= Horizon
  BY <1>1, OptionTypes
<1> QED
  BY <1>1, <1>2, <1>3, FlowSolverAssumption DEF Times

\* A step takes a tick at least, so that no iteration is ahead of its time; and a
\* crash leaves what a new run has in memory.
CountInv ==
  /\ current_iteration <= current_time
  /\ \A i \in Written : prm_file[i].iteration <= prm_file[i].time

CrashedInv ==
  pc = "crashed" => solution = <<0>> /\ fixed_index = 1 /\ crashes > 0

TypesInv ==
  /\ desired_time \in Nat
  /\ restart_desired_time \in Nat
  /\ DOMAIN vtk_file = FileNumbers
  /\ crashes \in 0 .. MaxCrashes
  /\ \A i \in Written : prm_file[i].desired_time \in Nat

Multiples == {m * option.every_dt : m \in 1 .. Horizon}

\* Until the last step has been taken, the desired time is a multiple of the interval
\* whose number is that of a file.
DesiredInv ==
  OutputsByInterval =>
    /\ /\ pc # "crashed"
       /\ BetweenPasses => current_time < FinalTime
       => desired_time \in Multiples
    /\ \A i \in Written : prm_file[i].desired_time \in Multiples

\* Iterations do not get ahead of their times.
LEMMA CountStep ==
  ASSUME Inv, CountInv, [Next]_vars
  PROVE  CountInv'
<1>0. ParametersOK /\ MemoryInv
  BY DEF Inv
<1>1. current_iteration' <= current_time'
  <2>1. CASE Advance
    <3>1. /\ current_time \in Nat /\ current_iteration \in Nat
          /\ current_iteration <= current_time
      BY <1>0, TimesAreNumbers DEF CountInv
    <3>2. time_step \in Nat \ {0}
      BY <1>0, <2>1, StepBounds DEF Advance
    <3>3. /\ current_time' = current_time + time_step
          /\ current_iteration' = current_iteration + 1
      BY <2>1 DEF Advance
    <3> HIDE DEF time_step
    <3> QED
      BY <3>1, <3>2, <3>3
  <2>2. CASE UNCHANGED <<current_time, current_iteration>>
    BY <2>2 DEF CountInv
  <2>3. CASE Output \/ StartAgain
    BY <2>2, <2>3 DEF Output, StartAgain
  <2>4. CASE Crash
    <3>1. current_iteration' = 0 /\ current_time' = 0
      BY <2>4 DEF Crash
    <3> QED
      BY <3>1
  <2>5. ASSUME NEW i \in RestartNumbers, Restart(i)
        PROVE  current_iteration' <= current_time'
    <3>1. i \in Written
      BY DEF RestartNumbers, Written
    <3> QED
      BY <2>5, <3>1 DEF Restart, CountInv
  <2> QED
    BY <2>1, <2>2, <2>3, <2>4, <2>5, QuietSteps DEF Next, Loop
<1>2. ASSUME NEW i \in Written'
      PROVE  prm_file'[i].iteration <= prm_file'[i].time
  <2>1. CASE i \in Written
    BY <2>1, SavedSame DEF CountInv
  <2>2. CASE i \notin Written
    BY <2>2, SavedNew DEF CountInv
  <2> QED
    BY <2>1, <2>2
<1> QED
  BY <1>1, <1>2 DEF CountInv

\* Only a crash empties the memory.
LEMMA CrashedStep ==
  ASSUME CrashedInv, TypesInv, [Next]_vars
  PROVE  CrashedInv'
<1>1. CASE Crash
  <2>1. solution' = <<0>> /\ fixed_index' = 1 /\ crashes' = crashes + 1
    BY <1>1 DEF Crash
  <2>2. crashes \in Nat
    BY FlowSolverAssumption DEF TypesInv
  <2> QED
    BY <2>1, <2>2 DEF CrashedInv
<1>2. CASE WriteSolution \/ WriteTable \/ WriteParameters \/ Finish \/ UNCHANGED vars
  BY <1>2, QuietSteps DEF CrashedInv
<1>3. CASE Advance \/ Output \/ StartAgain \/ \E i \in RestartNumbers : Restart(i)
  BY <1>3 DEF Advance, Output, StartAgain, Restart, CrashedInv
<1> QED
  BY <1>1, <1>2, <1>3 DEF Next, Loop

\* The types of what decides the output.
LEMMA TypesStep ==
  ASSUME Inv, Inv', TypesInv, [Next]_vars
  PROVE  TypesInv'
<1>0. ParametersOK /\ MemoryInv /\ MemoryInv'
  BY DEF Inv
<1>1. \A i \in Written' : prm_file'[i].desired_time \in Nat
  <2> SUFFICES ASSUME NEW i \in Written'
               PROVE  prm_file'[i].desired_time \in Nat
    OBVIOUS
  <2>1. CASE i \in Written
    BY <2>1, SavedSame DEF TypesInv
  <2>2. CASE i \notin Written
    BY <2>2, SavedNew DEF TypesInv
  <2> QED
    BY <2>1, <2>2
<1>2. desired_time' \in Nat
  <2>1. option.every_dt \in Nat
    BY <1>0, OutputTypes
  <2>2. CASE UNCHANGED desired_time
    BY <2>2 DEF TypesInv
  <2>3. CASE Output
    <3>1. desired_time' \in {desired_time, desired_time + option.every_dt}
      BY <2>3 DEF Output
    <3> QED
      BY <2>1, <3>1 DEF TypesInv
  <2>4. CASE StartAgain \/ Crash
    <3>1. desired_time' \in {0, option.every_dt}
      BY <2>4 DEF StartAgain, Crash
    <3> QED
      BY <2>1, <3>1
  <2>5. ASSUME NEW i \in RestartNumbers, Restart(i)
        PROVE  desired_time' \in Nat
    <3>1. i \in Written
      BY DEF RestartNumbers, Written
    <3> QED
      BY <2>5, <3>1 DEF Restart, TypesInv
  <2> QED
    BY <2>2, <2>3, <2>4, <2>5, QuietSteps DEF Next, Loop, Advance
<1>3. restart_desired_time' \in Nat
  <2>1. option.restart_every_dt \in Nat
    BY <1>0, OptionTypes
  <2>2. CASE WriteParameters
    <3>1. restart_desired_time' = restart_desired_time + option.restart_every_dt
      BY <2>2 DEF WriteParameters
    <3> QED
      BY <2>1, <3>1 DEF TypesInv
  <2>3. CASE Crash
    BY <2>3 DEF Crash
  <2>4. ASSUME NEW i \in RestartNumbers, Restart(i)
        PROVE  restart_desired_time' \in Nat
    <3>1. restart_desired_time' = current_time'
      BY <2>4 DEF Restart
    <3>2. current_time' \in Times
      BY <1>0, NextMemoryTypes
    <3> QED
      BY <3>1, <3>2, FlowSolverAssumption DEF Times
  <2>5. CASE UNCHANGED restart_desired_time
    BY <2>5 DEF TypesInv
  <2> QED
    BY <2>2, <2>3, <2>4, <2>5
       DEF Next, Loop, Advance, WriteSolution, WriteTable, Output, Finish, StartAgain,
           memory, vars
<1>4. DOMAIN vtk_file' = FileNumbers
  <2>1. CASE Output \/ StartAgain
    <3>1. \E f : vtk_file' = [i \in FileNumbers |-> f[i]]
      BY <2>1 DEF Output, StartAgain, InitialOutput
    <3> QED
      BY <3>1
  <2>2. CASE UNCHANGED vtk_file
    BY <2>2 DEF TypesInv
  <2> QED
    BY <2>1, <2>2, QuietSteps DEF Next, Loop, Advance, Crash, Restart
<1>5. crashes' \in 0 .. MaxCrashes
  <2>1. CASE Crash
    <3>1. crashes < MaxCrashes /\ crashes' = crashes + 1
      BY <2>1 DEF Crash
    <3> QED
      BY <3>1, FlowSolverAssumption DEF TypesInv
  <2>2. CASE UNCHANGED crashes
    BY <2>2 DEF TypesInv
  <2> QED
    BY <2>1, <2>2, QuietSteps DEF Next, Loop, Advance, Output, StartAgain, Restart
<1> QED
  BY <1>1, <1>2, <1>3, <1>4, <1>5 DEF TypesInv

\* The solution that is due by interval is due before the next step ends.
LEMMA OutputByInterval ==
  ASSUME ParametersOK, OutputsByInterval, OutputNumber # {}
  PROVE  /\ IsOutputTime(current_time, next_time_step, desired_time)
         /\ OutputNumber = {Round(desired_time, option.every_dt)}
<1>1. ~OutputsBySteps /\ ~OutputsAtFixedTimes
  BY DEF OutputsByInterval, OutputsAtFixedTimes
<1> HIDE DEF OutputsBySteps, OutputsByInterval, OutputsAtFixedTimes
<1> QED
  BY <1>1 DEF OutputNumber

\* As long as there is a step to take the number of the next output is that of a file.
LEMMA DesiredStep ==
  ASSUME Inv, Inv', DesiredInv, [Next]_vars
  PROVE  DesiredInv'
<1>0. ParametersOK /\ MemoryInv /\ ParametersOK' /\ MemoryInv'
  BY DEF Inv
<1>1. option' = option /\ step_at' = step_at
  BY QuietSteps DEF Next, Loop, Advance, Output, Crash, StartAgain, Restart, parameters
<1> SUFFICES ASSUME OutputsByInterval
             PROVE  /\ /\ pc' # "crashed"
                       /\ BetweenPasses' => current_time' < FinalTime
                       => desired_time' \in Multiples
                    /\ \A i \in Written' : prm_file'[i].desired_time \in Multiples
  BY <1>1 DEF DesiredInv, Multiples, OutputsByInterval, OutputsBySteps
<1>2. option.every_dt \in Nat \ {0}
  BY <1>0, OutputTypes DEF OutputsByInterval
<1>3. ASSUME current_time < FinalTime
      PROVE  option.every_dt \in Multiples
  <2>1. 1 \in 1 .. Horizon /\ 1 * option.every_dt = option.every_dt
    BY <1>0, <1>2, <1>3, TimesAreNumbers
  <2> QED
    BY <2>1 DEF Multiples
<1>4. ASSUME NEW i \in Written'
      PROVE  prm_file'[i].desired_time \in Multiples
  <2>1. CASE i \in Written
    BY <2>1, SavedSame DEF DesiredInv
  <2>2. CASE i \notin Written
    <3>1. WriteParameters /\ prm_file'[i].desired_time = desired_time
      BY <2>2, SavedNew
    <3>2. pc # "crashed" /\ ~BetweenPasses
      BY <3>1 DEF WriteParameters, BetweenPasses
    <3> QED
      BY <3>1, <3>2 DEF DesiredInv
  <2> QED
    BY <2>1, <2>2
<1>5. ASSUME pc' # "crashed", BetweenPasses' => current_time' < FinalTime
      PROVE  desired_time' \in Multiples
  <2>1. CASE Advance
    <3>1. pc # "crashed" /\ current_time < FinalTime /\ desired_time' = desired_time
      BY <2>1 DEF Advance
    <3> QED
      BY <3>1 DEF DesiredInv
  <2>2. CASE WriteSolution \/ WriteTable \/ WriteParameters \/ Finish \/ UNCHANGED vars
    BY <1>5, <2>2, QuietSteps DEF DesiredInv
  <2>3. CASE Output
    <3>1. /\ pc # "crashed" /\ ~BetweenPasses /\ BetweenPasses'
          /\ current_time' = current_time
          /\ desired_time' = IF OutputNumber # {} THEN desired_time + option.every_dt
                                                  ELSE desired_time
      BY <2>3 DEF Output, BetweenPasses
    <3>2. PICK m \in 1 .. Horizon : desired_time = m * option.every_dt
      BY <3>1 DEF DesiredInv, Multiples
    <3>3. CASE OutputNumber = {}
      BY <3>1, <3>2, <3>3 DEF Multiples
    <3>4. CASE OutputNumber # {}
      <4>1. desired_time < current_time + next_time_step
        BY <1>0, <1>2, <3>2, <3>4, OutputByInterval, TimesAreNumbers, NextMultiple
           DEF IsOutputTime
      <4>2. /\ m \in Nat /\ desired_time \in Nat /\ m <= desired_time
            /\ (m + 1) * option.every_dt = desired_time + option.every_dt
        BY <1>0, <1>2, <3>2, TimesAreNumbers, NextMultiple
      <4>3. current_time + next_time_step <= Horizon
        BY <1>0, <1>5, <3>1, TimesAreNumbers
      <4>4. m + 1 \in 1 .. Horizon
        BY <1>0, <4>1, <4>2, <4>3, TimesAreNumbers
      <4> QED
        BY <3>1, <3>4, <4>2, <4>4 DEF Multiples
    <3> QED
      BY <3>3, <3>4
  <2>4. CASE StartAgain
    <3>1. /\ desired_time' = option.every_dt /\ current_time' = current_time
          /\ BetweenPasses'
      BY <2>4 DEF StartAgain, BetweenPasses
    <3> QED
      BY <1>3, <1>5, <3>1
  <2>5. ASSUME NEW i \in RestartNumbers, Restart(i)
        PROVE  desired_time' \in Multiples
    <3>1. i \in Written
      BY DEF RestartNumbers, Written
    <3> QED
      BY <2>5, <3>1 DEF Restart, DesiredInv
  <2>6. ~Crash
    BY <1>5 DEF Crash
  <2> QED
    BY <2>1, <2>2, <2>3, <2>4, <2>5, <2>6 DEF Next, Loop
<1> QED
  BY <1>4, <1>5

\* What decides the types of the files.
FilesTypeInv == TypesInv /\ CountInv /\ CrashedInv /\ DesiredInv

\* A new run has it.
LEMMA FilesTypeInit ==
  ASSUME Init
  PROVE  FilesTypeInv
<1>0. Inv /\ ParametersOK /\ MemoryInv
  BY InitInv DEF Inv
<1>1. Written = {}
  BY DEF Init, Written
<1>2. /\ option.every_dt \in Nat
      /\ desired_time = IF OutputsByInterval THEN option.every_dt ELSE 0
  BY <1>0, OutputTypes DEF Init
<1>3. TypesInv
  <2>1. DOMAIN vtk_file = FileNumbers
    BY DEF Init, InitialOutput
  <2>2. crashes = 0 /\ restart_desired_time = 0
    BY DEF Init
  <2> QED
    BY <1>1, <1>2, <2>1, <2>2, FlowSolverAssumption DEF TypesInv
<1>4. CountInv /\ CrashedInv
  BY <1>1 DEF Init, CountInv, CrashedInv
<1>5. DesiredInv
  <2> SUFFICES ASSUME OutputsByInterval, current_time < FinalTime
               PROVE  desired_time \in Multiples
    <3>1. BetweenPasses
      BY DEF Init, BetweenPasses
    <3> QED
      BY <1>1, <3>1 DEF DesiredInv
  <2>1. 1 \in 1 .. Horizon /\ 1 * option.every_dt = option.every_dt
    BY <1>0, <1>2, TimesAreNumbers
  <2> QED
    BY <1>2, <2>1 DEF Multiples
<1> QED
  BY <1>3, <1>4, <1>5 DEF FilesTypeInv

\* Restart files have the number of a file.
LEMMA RestartNumberType ==
  ASSUME Inv, CountInv, Writing
  PROVE  restart_number \in FileNumbers
<1>0. ParametersOK /\ MemoryInv
  BY DEF Inv
<1>1. Interval \in Nat \ {0} /\ option.restart_every_dt \in Nat
  BY <1>0, OptionTypes
<1>2. ~(option.restart_every_dt > 0)
  BY DEF Inv, FilesInv, IntervalInv
<1>3. restart_number = current_iteration \div Interval
  BY <1>2 DEF restart_number, Interval
<1>4. /\ current_iteration \in Nat /\ current_iteration <= current_time
      /\ current_time \in Nat /\ current_time <= Horizon /\ Horizon \in Nat
  BY <1>0, TimesAreNumbers DEF CountInv
<1>5. /\ current_iteration \div Interval \in Nat
      /\ current_iteration \div Interval <= current_iteration
  BY <1>1, <1>4, QuotientBelow
<1> QED
  BY <1>3, <1>4, <1>5 DEF FileNumbers

\* So do solution files.
LEMMA OutputNumberType ==
  ASSUME Inv, CountInv, DesiredInv, pc = "output"
  PROVE  OutputNumber \subseteq FileNumbers
<1>0. ParametersOK /\ MemoryInv
  BY DEF Inv
<1>1. /\ current_iteration \in Nat /\ current_iteration <= current_time
      /\ current_time \in Nat /\ current_time <= Horizon /\ Horizon \in Nat
  BY <1>0, TimesAreNumbers DEF CountInv
<1>2. option.every_x_steps \in Nat /\ option.every_dt \in Nat
  BY <1>0, OutputTypes
<1>3. CASE OutputsBySteps
  <2>1. /\ current_iteration \div option.every_x_steps \in Nat
        /\ current_iteration \div option.every_x_steps <= current_iteration
    BY <1>1, <1>2, <1>3, QuotientBelow DEF OutputsBySteps
  <2>2. current_iteration \div option.every_x_steps \in FileNumbers
    BY <1>1, <2>1 DEF FileNumbers
  <2>3. OutputNumber \subseteq {current_iteration \div option.every_x_steps}
    BY <1>3 DEF OutputNumber, OutputsByInterval, OutputsAtFixedTimes
  <2> QED
    BY <2>2, <2>3
<1>4. CASE OutputsByInterval
  <2>1. PICK m \in 1 .. Horizon : desired_time = m * option.every_dt
    BY <1>4 DEF DesiredInv, Multiples, BetweenPasses
  <2>2. Round(desired_time, option.every_dt) = m
    BY <1>1, <1>2, <1>4, <2>1, RoundOfMultiple DEF OutputsByInterval
  <2>3. OutputNumber \subseteq {m}
    BY <1>0, <1>4, <2>2, OutputByInterval
  <2> QED
    BY <1>1, <2>3 DEF FileNumbers
<1>5. CASE OutputsAtFixedTimes
  <2>1. OutputNumber \subseteq {fixed_index}
    BY <1>5 DEF OutputNumber, OutputsAtFixedTimes, OutputsByInterval
  <2>2. /\ fixed_index \in Nat /\ fixed_index <= Len(option.fixed_times)
        /\ Len(option.fixed_times) \in Nat /\ Len(option.fixed_times) <= Horizon
    BY <1>0, <1>5, OutputTypes DEF MemoryInv, OutputsAtFixedTimes
  <2>3. fixed_index \in FileNumbers
    BY <1>1, <2>2 DEF FileNumbers
  <2> QED
    BY <2>1, <2>3
<1>6. CASE ~OutputsBySteps /\ ~OutputsByInterval /\ ~OutputsAtFixedTimes
  BY <1>6 DEF OutputNumber
<1> QED
  BY <1>3, <1>4, <1>5, <1>6

\* What decides the types of the files is an invariant.
LEMMA FilesTypeInvariant ==
  ASSUME LatestOnly
  PROVE  Spec => [](Inv /\ FilesTypeInv)
<1>1. Init => FilesTypeInv
  BY FilesTypeInit
<1>2. Inv /\ Inv' /\ FilesTypeInv /\ [Next]_vars => FilesTypeInv'
  BY TypesStep, CountStep, CrashedStep, DesiredStep DEF FilesTypeInv
<1> QED
  BY <1>1, <1>2, Invariant, PTL DEF Spec

\* The number of crashes does not go down.
LEMMA CrashesStep ==
  ASSUME crashes \in Nat, [Next]_vars
  PROVE  crashes' \in Nat /\ crashes <= crashes'
<1>1. CASE Crash
  <2>1. crashes' = crashes + 1
    BY <1>1 DEF Crash
  <2> QED
    BY <2>1
<1>2. CASE UNCHANGED crashes
  BY <1>2
<1> QED
  BY <1>1, <1>2, QuietSteps DEF Next, Loop, Advance, Output, StartAgain, Restart

\* Until the first crash all this holds whatever files a user would restart from.
FirstRun == crashes = 0

FirstRunInv == FirstRun => Inv /\ FilesTypeInv /\ pc # "crashed"

LEMMA FirstRunInvariant == Spec => [](crashes \in Nat /\ FirstRunInv)
<1>1. Init => crashes \in Nat /\ FirstRunInv
  BY InitInv, FilesTypeInit DEF Init, FirstRunInv
<1>2. crashes \in Nat /\ FirstRunInv /\ [Next]_vars => (crashes \in Nat /\ FirstRunInv)'
  <2> SUFFICES ASSUME crashes \in Nat, FirstRunInv, [Next]_vars
               PROVE  crashes' \in Nat /\ FirstRunInv'
    OBVIOUS
  <2>1. crashes' \in Nat /\ (FirstRun' => FirstRun)
    BY CrashesStep DEF FirstRun
  <2>2. ASSUME FirstRun'
        PROVE  Inv' /\ FilesTypeInv' /\ pc' # "crashed"
    <3>1. Inv /\ FilesTypeInv /\ pc # "crashed"
      BY <2>1, <2>2 DEF FirstRunInv
    <3>2. Inv'
      BY <3>1, InvStep
    <3>3. FilesTypeInv'
      BY <3>1, <3>2, TypesStep, CountStep, CrashedStep, DesiredStep DEF FilesTypeInv
    <3>4. pc' = "crashed" => crashes' > 0
      BY <3>3 DEF FilesTypeInv, CrashedInv
    <3> QED
      BY <2>2, <3>2, <3>3, <3>4 DEF FirstRun
  <2> QED
    BY <2>1, <2>2 DEF FirstRunInv
<1> QED
  BY <1>1, <1>2, PTL DEF Spec

(***************************************************************************)
(* Requested times.                                                        *)
(***************************************************************************)
Exact == option.exact_fixed_times /\ HasFixedTimes

Requests == 1 .. Len(option.fixed_times)

\* The requests that are still to be served.
Due(k) ==
  IF BetweenPasses THEN current_time < option.fixed_times[k]
                   ELSE current_time <= option.fixed_times[k]

\* The index is that of the first of them.  A step that is cut at the final time
\* may pass one of them: then there is no further step.
IndexInv ==
  /\ CutsDoNotCompete \/ current_time < FinalTime
  /\ Exact /\ pc # "crashed"
  => \A k \in Requests : Due(k) => Due(fixed_index) /\ fixed_index <= k

\* The list of requested times, and that it decides the solution output.
LEMMA OrderedTimes ==
  ASSUME ParametersOK, FixedTimesInOrder, Exact
  PROVE  /\ OutputsAtFixedTimes /\ ~OutputsBySteps /\ ~OutputsByInterval
         /\ \A k \in Requests : option.fixed_times[k] \in Nat \ {0}
         /\ \A j, k \in Requests :
              j < k => option.fixed_times[j] < option.fixed_times[k]
         /\ 1 \in Requests
<1>1. /\ option.every_x_steps = 0 /\ option.every_dt = 0
      /\ \A k \in Requests : 0 < option.fixed_times[k]
      /\ \A j, k \in Requests : j < k => option.fixed_times[j] < option.fixed_times[k]
  BY DEF ParametersOK, FixedTimesInOrder, Exact, HasFixedTimes, Requests
<1>2. OutputsAtFixedTimes /\ ~OutputsBySteps /\ ~OutputsByInterval
  BY <1>1 DEF OutputsAtFixedTimes, OutputsBySteps, OutputsByInterval, Exact
<1>3. \A k \in Requests : option.fixed_times[k] \in Nat
  BY OutputTypes DEF Requests
<1>4. \A k \in Requests : option.fixed_times[k] # 0
  BY <1>1, <1>3
<1>5. 1 \in Requests
  <2>1. option.fixed_times \in Seq(Times) /\ option.fixed_times # <<>>
    BY OutputTypes DEF Exact, HasFixedTimes
  <2> QED
    BY <2>1 DEF Requests
<1> QED
  BY <1>1, <1>2, <1>3, <1>4, <1>5

\* The index that is found after a restart is that of the first request ahead.
LEMMA FirstAhead ==
  ASSUME ParametersOK, NEW t \in Times, NEW k \in Requests, t < option.fixed_times[k]
  PROVE  /\ FirstFixedIndexAfter(t) <= k
         /\ t < option.fixed_times[FirstFixedIndexAfter(t)]
<1> DEFINE ahead == {j \in 1 .. Len(option.fixed_times) : t < option.fixed_times[j]}
<1>1. ahead # {} /\ ahead \in SUBSET Nat /\ k \in ahead
  BY OutputTypes DEF Requests
<1>2. \E j \in ahead : \A i \in ahead : j <= i
  <2> HIDE DEF ahead
  <2> QED
    BY <1>1, FirstPosition
<1>3. FirstFixedIndexAfter(t) = CHOOSE j \in ahead : \A i \in ahead : j <= i
  BY <1>1 DEF FirstFixedIndexAfter
<1>4. /\ FirstFixedIndexAfter(t) \in ahead
      /\ \A i \in ahead : FirstFixedIndexAfter(t) <= i
  <2> HIDE DEF ahead
  <2> QED
    BY <1>2, <1>3
<1> QED
  BY <1>1, <1>4

\* A step does not pass the request that is due next.
LEMMA CutAtNext ==
  ASSUME ParametersOK, MemoryInv, Exact, current_time < FinalTime,
         current_time < desired_fixed_time,
         CutsDoNotCompete \/ current_time + time_step < FinalTime
  PROVE  current_time + time_step <= desired_fixed_time
<1>1. /\ current_time \in Nat /\ next_time_step \in Nat \ {0} /\ FinalTime \in Nat
      /\ next_time_step = step_at[current_time] /\ current_time \in Times
  BY TimesAreNumbers, MemoryTypes
<1>2. fixed_index \in Requests /\ desired_fixed_time \in Nat
  <2>1. /\ fixed_index \in Nat \ {0} /\ fixed_index <= Len(option.fixed_times)
        /\ Len(option.fixed_times) \in Nat
    BY OutputTypes DEF MemoryInv, Exact
  <2>2. fixed_index \in Requests
    BY <2>1 DEF Requests
  <2> QED
    BY <2>2, OutputTypes DEF desired_fixed_time, Requests
<1>3. CASE /\ current_time + next_time_step > FinalTime
           /\ option.end_exactly_at_final_time
  <2>1. time_step = FinalTime - current_time
    BY <1>3 DEF time_step
  <2>2. CutsDoNotCompete
    BY <1>1, <2>1
  <2>3. FinalTime <= desired_fixed_time
    BY <1>1, <1>2, <1>3, <2>2
       DEF CutsDoNotCompete, ParametersOK, Exact, Requests, desired_fixed_time
  <2> QED
    BY <1>1, <2>1, <2>3
<1>4. CASE ~(/\ current_time + next_time_step > FinalTime
             /\ option.end_exactly_at_final_time)
  <2>1. time_step = IF current_time + next_time_step > desired_fixed_time
                    THEN desired_fixed_time - current_time ELSE next_time_step
    BY <1>4 DEF time_step, Exact
  <2> QED
    BY <1>1, <1>2, <2>1
<1> QED
  BY <1>3, <1>4

\* Which request is served when the pass makes its output: that of the current time.
LEMMA OutputAtRequest ==
  ASSUME ParametersOK, MemoryInv, FixedTimesInOrder, Exact, Output
  PROVE  /\ OutputNumber = IF current_time = desired_fixed_time THEN {fixed_index}
                                                               ELSE {}
         /\ fixed_index' = IF /\ current_time = desired_fixed_time
                              /\ fixed_index < Len(option.fixed_times)
                           THEN fixed_index + 1 ELSE fixed_index
         /\ vtk_file' = [i \in FileNumbers |->
                           IF i = fixed_index /\ current_time = desired_fixed_time
                           THEN current_time ELSE vtk_file[i]]
<1>1. OutputsAtFixedTimes /\ ~OutputsBySteps /\ ~OutputsByInterval
  BY OrderedTimes
<1>2. IsFixedOutputTime <=> current_time = desired_fixed_time
  BY DEF IsFixedOutputTime, Exact
<1>3. OutputNumber = IF current_time = desired_fixed_time THEN {fixed_index} ELSE {}
  BY <1>1, <1>2 DEF OutputNumber
<1>4. /\ vtk_file' = [i \in FileNumbers |->
                        IF i \in OutputNumber THEN current_time ELSE vtk_file[i]]
      /\ fixed_index' = IF /\ OutputsAtFixedTimes /\ OutputNumber # {}
                           /\ fixed_index < Len(option.fixed_times)
                        THEN fixed_index + 1 ELSE fixed_index
  BY DEF Output
<1>5. CASE current_time = desired_fixed_time
  <2>1. OutputNumber = {fixed_index}
    BY <1>3, <1>5
  <2> QED
    BY <1>1, <1>3, <1>4, <1>5, <2>1
<1>6. CASE current_time # desired_fixed_time
  <2>1. OutputNumber = {}
    BY <1>3, <1>6
  <2> QED
    BY <1>1, <1>3, <1>4, <1>6, <2>1
<1> QED
  BY <1>5, <1>6

\* A new run, and every step.
LEMMA IndexInit ==
  ASSUME Init, FixedTimesInOrder
  PROVE  IndexInv
<1>1. ParametersOK
  BY InitInv DEF Inv
<1>2. fixed_index = 1 /\ current_time = 0 /\ BetweenPasses
  BY DEF Init, BetweenPasses
<1> SUFFICES ASSUME Exact, NEW k \in Requests
             PROVE  Due(fixed_index) /\ fixed_index <= k
  BY DEF IndexInv
<1>3. 1 \in Requests /\ option.fixed_times[1] \in Nat \ {0}
  BY <1>1, OrderedTimes
<1>4. Due(1)
  BY <1>2, <1>3 DEF Due
<1> QED
  BY <1>2, <1>4 DEF Requests

LEMMA IndexStep ==
  ASSUME Inv, Inv', CrashedInv, IndexInv, FixedTimesInOrder, [Next]_vars
  PROVE  IndexInv'
<1>0. ParametersOK /\ MemoryInv /\ ParametersOK' /\ MemoryInv'
  BY DEF Inv
<1>1. option' = option /\ step_at' = step_at
  BY QuietSteps DEF Next, Loop, Advance, Output, Crash, StartAgain, Restart, parameters
<1> SUFFICES ASSUME CutsDoNotCompete \/ current_time' < FinalTime,
                    Exact, pc' # "crashed", NEW k \in Requests, Due(k)'
             PROVE  Due(fixed_index)' /\ fixed_index' <= k
  BY <1>1 DEF IndexInv, Exact, HasFixedTimes, Requests
<1> DEFINE f == option.fixed_times
<1>2. /\ current_time \in Nat /\ current_time' \in Nat
      /\ FinalTime \in Nat
      /\ f[k] \in Nat \ {0} /\ k \in Nat
  <2>1. current_time' \in Nat
    BY <1>0, NextMemoryTypes, FlowSolverAssumption DEF Times
  <2> QED
    BY <1>0, <2>1, TimesAreNumbers, OrderedTimes DEF Requests
<1>3. fixed_index \in Requests /\ f[fixed_index] \in Nat
  <2>1. /\ fixed_index \in Nat \ {0} /\ fixed_index <= Len(option.fixed_times)
        /\ Len(option.fixed_times) \in Nat
    BY <1>0, OutputTypes DEF MemoryInv, Exact
  <2>2. fixed_index \in Requests
    BY <2>1 DEF Requests
  <2> QED
    BY <1>0, <2>2, OrderedTimes
<1>4. CASE Advance
  <2>1. /\ pc # "crashed" /\ BetweenPasses /\ ~BetweenPasses'
        /\ current_time < FinalTime /\ current_time' = current_time + time_step
        /\ fixed_index' = fixed_index
    BY <1>4 DEF Advance, BetweenPasses
  <2>2. time_step \in Nat \ {0}
    BY <1>0, <2>1, StepBounds
  <2>3. current_time < f[k]
    BY <1>1, <1>2, <2>1, <2>2 DEF Due
  <2>4. current_time < f[fixed_index] /\ fixed_index <= k
    BY <2>1, <2>3 DEF IndexInv, Due
  <2>5. current_time + time_step <= f[fixed_index]
    BY <1>0, <2>1, <2>4, CutAtNext DEF desired_fixed_time
  <2> QED
    BY <1>1, <2>1, <2>4, <2>5 DEF Due
<1>5. CASE Output
  <2>1. /\ pc # "crashed" /\ ~BetweenPasses /\ BetweenPasses'
        /\ current_time' = current_time
    BY <1>5 DEF Output, BetweenPasses
  <2>2. current_time < f[k]
    BY <1>1, <2>1 DEF Due
  <2>3. current_time <= f[fixed_index] /\ fixed_index <= k
    BY <1>2, <2>1, <2>2 DEF IndexInv, Due
  <2>4. fixed_index' = IF current_time = f[fixed_index] /\ fixed_index < Len(f)
                       THEN fixed_index + 1 ELSE fixed_index
    BY <1>0, <1>5, OutputAtRequest DEF desired_fixed_time
  <2>5. CASE current_time = f[fixed_index]
    <3>1. fixed_index + 1 <= k /\ fixed_index + 1 \in Requests /\ fixed_index < Len(f)
      BY <1>0, <1>3, <2>2, <2>3, <2>5, OutputTypes DEF Requests
    <3>2. f[fixed_index] < f[fixed_index + 1]
      BY <1>0, <1>3, <3>1, OrderedTimes DEF Requests
    <3> QED
      BY <1>1, <2>1, <2>4, <2>5, <3>1, <3>2 DEF Due
  <2>6. CASE current_time # f[fixed_index]
    <3>1. current_time < f[fixed_index]
      BY <1>2, <1>3, <2>3, <2>6
    <3> QED
      BY <1>1, <2>1, <2>3, <2>4, <2>6, <3>1 DEF Due
  <2> QED
    BY <2>5, <2>6
<1>6. CASE StartAgain
  <2>1. /\ pc = "crashed" /\ BetweenPasses'
        /\ current_time' = current_time /\ fixed_index' = fixed_index
    BY <1>6 DEF StartAgain, BetweenPasses
  <2>2. solution = <<0>> /\ fixed_index = 1
    BY <2>1 DEF CrashedInv
  <2>3. current_time = 0
    BY <1>0, <2>2 DEF MemoryInv
  <2>4. f[1] \in Nat \ {0}
    BY <1>0, OrderedTimes
  <2> QED
    BY <1>1, <2>1, <2>2, <2>3, <2>4 DEF Due, Requests
<1>7. ASSUME NEW i \in RestartNumbers, Restart(i)
      PROVE  Due(fixed_index)' /\ fixed_index' <= k
  <2>1. /\ BetweenPasses' /\ fixed_index' = FirstFixedIndexAfter(current_time')
    BY <1>7 DEF Restart, BetweenPasses
  <2>2. current_time' \in Times
    BY <1>0, NextMemoryTypes
  <2>3. current_time' < f[k]
    BY <1>1, <2>1 DEF Due
  <2>4. fixed_index' <= k /\ current_time' < f[fixed_index']
    BY <1>0, <2>1, <2>2, <2>3, FirstAhead
  <2> QED
    BY <1>1, <2>1, <2>4 DEF Due
<1>8. CASE WriteSolution \/ WriteTable \/ WriteParameters \/ Finish \/ UNCHANGED vars
  <2>1. /\ current_time' = current_time /\ fixed_index' = fixed_index
        /\ BetweenPasses' <=> BetweenPasses
        /\ pc' = "crashed" <=> pc = "crashed"
    BY <1>8, QuietSteps
  <2> QED
    BY <1>1, <2>1 DEF IndexInv, Due
<1>9. ~Crash
  BY DEF Crash
<1> QED
  BY <1>4, <1>5, <1>6, <1>7, <1>8, <1>9 DEF Next, Loop

\* In a first run, each request that is not due any more has been served.
ServedInv ==
  Exact => \A k \in Requests : ~Due(k) => vtk_file[k] = option.fixed_times[k]

\* A file that is asked for is one of those there can be.
LEMMA RequestsAreFiles ==
  ASSUME ParametersOK
  PROVE  Requests \subseteq FileNumbers
  BY OutputTypes, FlowSolverAssumption DEF Requests, FileNumbers

LEMMA ServedInit ==
  ASSUME Init, FixedTimesInOrder
  PROVE  ServedInv
<1>1. ParametersOK
  BY InitInv DEF Inv
<1>2. current_time = 0 /\ BetweenPasses
  BY DEF Init, BetweenPasses
<1> SUFFICES ASSUME Exact, NEW k \in Requests
             PROVE  Due(k)
  BY DEF ServedInv
<1>3. option.fixed_times[k] \in Nat \ {0}
  BY <1>1, OrderedTimes
<1> QED
  BY <1>2, <1>3 DEF Due

LEMMA ServedStep ==
  ASSUME Inv, Inv', IndexInv, TypesInv, ServedInv, FixedTimesInOrder, CutsDoNotCompete,
         [Next]_vars, pc # "crashed", pc' # "crashed"
  PROVE  ServedInv'
<1>0. ParametersOK /\ MemoryInv /\ ParametersOK' /\ MemoryInv'
  BY DEF Inv
<1>1. option' = option
  BY QuietSteps DEF Next, Loop, Advance, Output, Crash, StartAgain, Restart, parameters
<1> SUFFICES ASSUME Exact, NEW k \in Requests, ~Due(k)'
             PROVE  vtk_file'[k] = option.fixed_times[k]
  BY <1>1 DEF ServedInv, Exact, HasFixedTimes, Requests
<1> DEFINE f == option.fixed_times
<1>2. /\ current_time \in Nat /\ current_time' \in Nat
      /\ f[k] \in Nat /\ k \in FileNumbers
  <2>1. current_time' \in Nat
    BY <1>0, NextMemoryTypes, FlowSolverAssumption DEF Times
  <2> QED
    BY <1>0, <2>1, TimesAreNumbers, OrderedTimes, RequestsAreFiles
<1>3. CASE Advance
  <2>1. /\ BetweenPasses /\ ~BetweenPasses' /\ vtk_file' = vtk_file
        /\ current_time < FinalTime /\ current_time' = current_time + time_step
    BY <1>3 DEF Advance, BetweenPasses
  <2>2. f[k] < current_time'
    BY <1>1, <1>2, <2>1 DEF Due
  <2>3. ASSUME current_time < f[k]
        PROVE  FALSE
    <3>1. Due(fixed_index) /\ fixed_index <= k
      BY <2>1, <2>3 DEF IndexInv, Due
    <3>2. current_time' <= f[fixed_index]
      BY <1>0, <2>1, <3>1, CutAtNext DEF desired_fixed_time, Due
    <3>3. /\ fixed_index \in Nat \ {0} /\ fixed_index <= Len(f)
          /\ Len(f) \in Nat
      BY <1>0, OutputTypes DEF MemoryInv, Exact
    <3>4. fixed_index \in Requests
      BY <3>3 DEF Requests
    <3>5. f[fixed_index] <= f[k] /\ f[fixed_index] \in Nat
      <4>1. CASE fixed_index = k
        BY <1>2, <4>1
      <4>2. CASE fixed_index # k
        <5>1. fixed_index < k
          BY <3>1, <3>3, <4>2 DEF Requests
        <5>2. f[fixed_index] < f[k] /\ f[fixed_index] \in Nat
          BY <1>0, <3>4, <5>1, OrderedTimes
        <5> QED
          BY <1>2, <5>2
      <4> QED
        BY <4>1, <4>2
    <3> QED
      BY <1>2, <2>2, <3>2, <3>5
  <2>4. ~Due(k)
    BY <2>1, <2>3 DEF Due
  <2> QED
    BY <2>1, <2>4 DEF ServedInv
<1>4. CASE Output
  <2>1. /\ ~BetweenPasses /\ BetweenPasses' /\ current_time' = current_time
        /\ vtk_file' = [i \in FileNumbers |->
                          IF i = fixed_index /\ current_time = f[fixed_index]
                          THEN current_time ELSE vtk_file[i]]
    BY <1>0, <1>4, OutputAtRequest DEF Output, BetweenPasses, desired_fixed_time
  <2>2. f[k] <= current_time
    BY <1>1, <1>2, <2>1 DEF Due
  <2>3. CASE k = fixed_index /\ current_time = f[k]
    BY <1>2, <2>1, <2>3
  <2>4. CASE ~(k = fixed_index /\ current_time = f[k])
    <3>1. vtk_file'[k] = vtk_file[k]
      BY <1>2, <2>1, <2>4
    <3>2. ~Due(k)
      <4>1. ASSUME Due(k)
            PROVE  FALSE
        <5>1. current_time = f[k]
          BY <1>2, <2>1, <2>2, <4>1 DEF Due
        <5>2. Due(fixed_index) /\ fixed_index <= k
          BY <4>1 DEF IndexInv
        <5>3. /\ fixed_index \in Nat \ {0} /\ fixed_index <= Len(f)
              /\ Len(f) \in Nat
          BY <1>0, OutputTypes DEF MemoryInv, Exact
        <5>4. fixed_index \in Requests /\ fixed_index < k
          BY <2>4, <5>1, <5>2, <5>3 DEF Requests
        <5>5. f[fixed_index] < f[k] /\ f[fixed_index] \in Nat
          BY <1>0, <5>4, OrderedTimes
        <5>6. current_time <= f[fixed_index]
          BY <2>1, <5>2 DEF Due
        <5> QED
          BY <1>2, <5>1, <5>5, <5>6
      <4> QED
        BY <4>1
    <3> QED
      BY <3>1, <3>2 DEF ServedInv
  <2> QED
    BY <2>3, <2>4
<1>5. CASE WriteSolution \/ WriteTable \/ WriteParameters \/ Finish \/ UNCHANGED vars
  <2>1. /\ current_time' = current_time /\ vtk_file' = vtk_file
        /\ BetweenPasses' <=> BetweenPasses
    BY <1>5, QuietSteps
  <2>2. ~Due(k)
    BY <1>1, <2>1 DEF Due
  <2> QED
    BY <2>1, <2>2 DEF ServedInv
<1>6. ~Crash /\ ~StartAgain /\ ~ \E i \in RestartNumbers : Restart(i)
  BY DEF Crash, StartAgain, Restart
<1> QED
  BY <1>3, <1>4, <1>5, <1>6 DEF Next, Loop

(***************************************************************************)
(* Output by interval.                                                     *)
(***************************************************************************)
\* The file of that number has the last solution that is not after its time.
HasLastBefore(n) ==
  /\ vtk_file[n] # None
  /\ vtk_file[n] <= n * option.every_dt
  /\ n * option.every_dt < vtk_file[n] + step_at[vtk_file[n]]

ByInterval == OutputsByInterval /\ StepsFitInterval(option.every_dt)

\* In a first run the next step does not pass the desired time, and the files of all
\* earlier ones are there.
EarlierInv ==
  ByInterval =>
    /\ IF BetweenPasses THEN current_time + next_time_step <= desired_time
                        ELSE current_time <= desired_time
    /\ \E m \in Nat \ {0} : desired_time = m * option.every_dt
    /\ \A n \in FileNumbers \ {0} :
         n * option.every_dt < desired_time => HasLastBefore(n)

\* Steps are only ever made shorter.
LEMMA StepsGetShorter ==
  ASSUME ParametersOK, MemoryInv, current_time < FinalTime
  PROVE  time_step <= next_time_step
<1>1. /\ current_time \in Nat /\ next_time_step \in Nat \ {0} /\ FinalTime \in Nat
  BY TimesAreNumbers
<1>2. HasFixedTimes => desired_fixed_time \in Nat
  <2> SUFFICES ASSUME HasFixedTimes
               PROVE  desired_fixed_time \in Nat
    OBVIOUS
  <2>1. /\ fixed_index \in Nat \ {0} /\ fixed_index <= Len(option.fixed_times)
        /\ Len(option.fixed_times) \in Nat
    BY OutputTypes DEF MemoryInv
  <2>2. fixed_index \in 1 .. Len(option.fixed_times)
    BY <2>1
  <2> QED
    BY <2>2, OutputTypes DEF desired_fixed_time
<1> HIDE DEF desired_fixed_time
<1> QED
  BY <1>1, <1>2 DEF time_step

\* When the solution is output by interval, and under which number.
LEMMA IntervalOutput ==
  ASSUME ParametersOK, MemoryInv, OutputsByInterval, Output,
         NEW m \in Nat, desired_time = m * option.every_dt
  PROVE  /\ option.every_dt \in Nat \ {0}
         /\ IF IsOutputTime(current_time, next_time_step, desired_time)
            THEN /\ desired_time' = desired_time + option.every_dt
                 /\ vtk_file' = [i \in FileNumbers |->
                                   IF i = m THEN current_time ELSE vtk_file[i]]
            ELSE /\ desired_time' = desired_time
                 /\ vtk_file' = [i \in FileNumbers |-> vtk_file[i]]
<1>1. option.every_dt \in Nat \ {0}
  BY OutputTypes DEF OutputsByInterval
<1>2. Round(desired_time, option.every_dt) = m
  BY <1>1, RoundOfMultiple
<1>3. OutputNumber = IF IsOutputTime(current_time, next_time_step, desired_time)
                     THEN {m} ELSE {}
  <2>1. ~OutputsBySteps /\ ~OutputsAtFixedTimes
    BY DEF OutputsByInterval, OutputsAtFixedTimes
  <2> HIDE DEF OutputsBySteps, OutputsByInterval, OutputsAtFixedTimes
  <2> QED
    BY <1>2, <2>1 DEF OutputNumber
<1>4. /\ vtk_file' = [i \in FileNumbers |->
                        IF i \in OutputNumber THEN current_time ELSE vtk_file[i]]
      /\ desired_time' = IF OutputNumber # {} THEN desired_time + option.every_dt
                                              ELSE desired_time
  BY DEF Output
<1>5. CASE IsOutputTime(current_time, next_time_step, desired_time)
  <2>1. OutputNumber = {m}
    BY <1>3, <1>5
  <2> QED
    BY <1>1, <1>4, <1>5, <2>1
<1>6. CASE ~IsOutputTime(current_time, next_time_step, desired_time)
  <2>1. OutputNumber = {}
    BY <1>3, <1>6
  <2> QED
    BY <1>1, <1>4, <1>6, <2>1
<1> QED
  BY <1>5, <1>6

LEMMA EarlierInit ==
  ASSUME Init
  PROVE  EarlierInv
<1>0. Inv /\ ParametersOK /\ MemoryInv
  BY InitInv DEF Inv
<1> SUFFICES ASSUME ByInterval
             PROVE  /\ current_time + next_time_step <= desired_time
                    /\ \E m \in Nat \ {0} : desired_time = m * option.every_dt
                    /\ \A n \in FileNumbers \ {0} :
                         ~ (n * option.every_dt < desired_time)
  BY DEF EarlierInv, Init, BetweenPasses
<1>1. option.every_dt \in Nat \ {0}
  BY <1>0, OutputTypes DEF ByInterval, OutputsByInterval
<1>2. desired_time = 1 * option.every_dt /\ current_time = 0
  <2>1. desired_time = option.every_dt /\ current_time = 0
    BY DEF Init, ByInterval
  <2> QED
    BY <1>1, <2>1
<1>3. /\ next_time_step \in Nat /\ next_time_step <= option.every_dt
  <2>1. current_time \in Times
    BY <1>0, MemoryTypes
  <2> QED
    BY <1>0, <2>1, TimesAreNumbers DEF ByInterval, StepsFitInterval
<1>4. ASSUME NEW n \in FileNumbers \ {0}, n * option.every_dt < desired_time
      PROVE  FALSE
  <2>1. n \in Nat \ {0}
    BY FlowSolverAssumption DEF FileNumbers
  <2>2. n + 1 <= 1
    BY <1>1, <1>2, <1>4, <2>1, MultiplesBelow
  <2> QED
    BY <2>1, <2>2
<1> QED
  BY <1>1, <1>2, <1>3, <1>4

LEMMA EarlierStep ==
  ASSUME Inv, Inv', TypesInv, EarlierInv, [Next]_vars, pc # "crashed", pc' # "crashed"
  PROVE  EarlierInv'
<1>0. ParametersOK /\ MemoryInv /\ ParametersOK' /\ MemoryInv'
  BY DEF Inv
<1>1. option' = option /\ step_at' = step_at
  BY QuietSteps DEF Next, Loop, Advance, Output, Crash, StartAgain, Restart, parameters
<1>2. ByInterval' <=> ByInterval
  BY <1>1 DEF ByInterval, OutputsByInterval, OutputsBySteps, StepsFitInterval
<1> DEFINE d == option.every_dt
<1> SUFFICES
      ASSUME ByInterval
      PROVE  /\ IF BetweenPasses' THEN current_time' + next_time_step' <= desired_time'
                                  ELSE current_time' <= desired_time'
             /\ \E m \in Nat \ {0} : desired_time' = m * d
             /\ \A n \in FileNumbers \ {0} : n * d < desired_time' => HasLastBefore(n)'
  BY <1>1, <1>2 DEF EarlierInv
<1>3. /\ d \in Nat \ {0}
      /\ current_time \in Nat /\ next_time_step \in Nat \ {0}
      /\ next_time_step = step_at[current_time] /\ next_time_step <= d
      /\ desired_time \in Nat
  <2>1. current_time \in Times
    BY <1>0, MemoryTypes
  <2>2. d \in Nat \ {0}
    BY <1>0, OutputTypes DEF ByInterval, OutputsByInterval
  <2> QED
    BY <1>0, <2>1, <2>2, TimesAreNumbers DEF ByInterval, StepsFitInterval, TypesInv
<1>4. CASE Advance
  <2>1. /\ BetweenPasses /\ ~BetweenPasses' /\ vtk_file' = vtk_file
        /\ desired_time' = desired_time
        /\ current_time < FinalTime /\ current_time' = current_time + time_step
    BY <1>4 DEF Advance, BetweenPasses
  <2>2. time_step \in Nat /\ time_step <= next_time_step
    BY <1>0, <2>1, StepBounds, StepsGetShorter
  <2>3. current_time + next_time_step <= desired_time
    BY <2>1 DEF EarlierInv
  <2>4. current_time' <= desired_time'
    <3> HIDE DEF time_step
    <3> QED
      BY <1>3, <2>1, <2>2, <2>3
  <2> QED
    BY <1>1, <2>1, <2>4 DEF EarlierInv, HasLastBefore
<1>5. CASE Output
  <2>1. /\ ~BetweenPasses /\ BetweenPasses'
        /\ current_time' = current_time /\ next_time_step' = next_time_step
    BY <1>5 DEF Output, BetweenPasses
  <2>2. PICK m \in Nat \ {0} : desired_time = m * d
    BY DEF EarlierInv
  <2>3. current_time <= desired_time
    BY <2>1 DEF EarlierInv
  <2>4. CASE IsOutputTime(current_time, next_time_step, desired_time)
    <3>1. /\ desired_time' = desired_time + d
          /\ vtk_file' = [i \in FileNumbers |->
                            IF i = m THEN current_time ELSE vtk_file[i]]
      BY <1>0, <1>5, <2>2, <2>4, IntervalOutput DEF ByInterval
    <3>2. desired_time' = (m + 1) * d
      BY <1>3, <2>2, <3>1, NextMultiple
    <3>3. current_time' + next_time_step' <= desired_time'
      BY <1>3, <2>1, <2>3, <3>1
    <3>4. ASSUME NEW n \in FileNumbers \ {0}, n * d < desired_time'
          PROVE  HasLastBefore(n)'
      <4>1. n \in Nat /\ n <= m
        <5>1. n \in Nat
          BY FlowSolverAssumption DEF FileNumbers
        <5>2. n + 1 <= m + 1
          BY <1>3, <3>2, <3>4, <5>1, MultiplesBelow
        <5> QED
          BY <5>1, <5>2
      <4>2. CASE n = m
        <5>1. vtk_file'[n] = current_time /\ current_time # None
          <6>1. current_time \in Times
            BY <1>0, MemoryTypes
          <6> QED
            BY <3>1, <4>2, <6>1, FlowSolverAssumption
        <5>2. n * d < current_time + step_at[current_time]
          BY <1>3, <2>2, <2>4, <4>2 DEF IsOutputTime
        <5> QED
          BY <1>1, <2>2, <2>3, <4>2, <5>1, <5>2 DEF HasLastBefore
      <4>3. CASE n # m
        <5>1. n * d < desired_time
          <6>1. (n + 1) * d <= m * d
            BY <1>3, <4>1, <4>3, MultiplesInOrder
          <6>2. (n + 1) * d = n * d + d /\ n * d \in Nat
            BY <1>3, <4>1, NextMultiple
          <6> QED
            BY <1>3, <2>2, <6>1, <6>2
        <5>2. vtk_file'[n] = vtk_file[n] /\ HasLastBefore(n)
          BY <3>1, <4>3, <5>1 DEF EarlierInv
        <5> QED
          BY <1>1, <5>2 DEF HasLastBefore
      <4> QED
        BY <4>2, <4>3
    <3>5. m + 1 \in Nat \ {0}
      OBVIOUS
    <3> QED
      BY <2>1, <3>2, <3>3, <3>4, <3>5
  <2>5. CASE ~IsOutputTime(current_time, next_time_step, desired_time)
    <3>1. /\ desired_time' = desired_time
          /\ vtk_file' = [i \in FileNumbers |-> vtk_file[i]]
      BY <1>0, <1>5, <2>2, <2>5, IntervalOutput DEF ByInterval
    <3>2. current_time' + next_time_step' <= desired_time'
      BY <1>3, <2>1, <2>3, <2>5, <3>1 DEF IsOutputTime
    <3>3. ASSUME NEW n \in FileNumbers \ {0}, n * d < desired_time'
          PROVE  HasLastBefore(n)'
      BY <1>1, <3>1, <3>3 DEF EarlierInv, HasLastBefore
    <3> QED
      BY <2>1, <2>2, <3>1, <3>2, <3>3
  <2> QED
    BY <2>4, <2>5
<1>6. CASE WriteSolution \/ WriteTable \/ WriteParameters \/ Finish \/ UNCHANGED vars
  <2>1. /\ UNCHANGED <<option, step_at, current_time, next_time_step, desired_time,
                       vtk_file>>
        /\ BetweenPasses' <=> BetweenPasses
    BY <1>6, QuietSteps
  <2> QED
    BY <2>1 DEF EarlierInv, HasLastBefore
<1>7. ~Crash /\ ~StartAgain /\ ~ \E i \in RestartNumbers : Restart(i)
  BY DEF Crash, StartAgain, Restart
<1> QED
  BY <1>4, <1>5, <1>6, <1>7 DEF Next, Loop

(***************************************************************************)
(* The steps of the march.                                                 *)
(***************************************************************************)
Trajectory == IF pc = "crashed" THEN <<>> ELSE solution

Saved == {solution_file[i] : i \in Written}

\* The rule of the march looks at the time only, and finds the step that the loop
\* finds with its index.
LEMMA SameNextTime ==
  ASSUME Inv, IndexInv, FixedTimesInOrder, BetweenPasses, current_time < FinalTime
  PROVE  Marching!NextTime(current_time) = current_time + time_step
<1> DEFINE t == current_time
           f == option.fixed_times
           inside == {g \in {f[k] : k \in 1 .. Len(f)} : t < g /\ g < t + step_at[t]}
           cuts == IF option.exact_fixed_times THEN inside ELSE {}
<1>0. ParametersOK /\ MemoryInv /\ pc # "crashed"
  BY DEF Inv, BetweenPasses
<1>1. /\ t \in Nat /\ FinalTime \in Nat
      /\ step_at[t] \in Nat \ {0} /\ next_time_step = step_at[t]
  BY <1>0, TimesAreNumbers
<1>2. Marching!NextTime(t) =
        IF t + step_at[t] > FinalTime /\ option.end_exactly_at_final_time
        THEN FinalTime
        ELSE IF cuts = {} THEN t + step_at[t]
             ELSE CHOOSE g \in cuts : \A h \in cuts : g <= h
  BY DEF Marching!NextTime, Marching!Inside
<1>3. CASE t + step_at[t] > FinalTime /\ option.end_exactly_at_final_time
  <2>1. time_step = FinalTime - t
    BY <1>1, <1>3 DEF time_step
  <2>2. Marching!NextTime(t) = FinalTime
    BY <1>3 DEF Marching!NextTime
  <2> QED
    BY <1>1, <2>1, <2>2
<1>4. CASE /\ ~(t + step_at[t] > FinalTime /\ option.end_exactly_at_final_time)
           /\ ~Exact
  <2>1. time_step = next_time_step
    BY <1>1, <1>4 DEF time_step, Exact
  <2>2. option.exact_fixed_times => inside = {}
    <3> SUFFICES ASSUME option.exact_fixed_times
                 PROVE  1 .. Len(f) = {}
      OBVIOUS
    <3>1. f = <<>>
      BY <1>4 DEF Exact, HasFixedTimes
    <3> QED
      BY <3>1
  <2> QED
    BY <1>1, <1>2, <1>4, <2>1, <2>2
<1>5. CASE /\ ~(t + step_at[t] > FinalTime /\ option.end_exactly_at_final_time)
           /\ Exact
  <2>1. time_step = IF t < desired_fixed_time /\ t + step_at[t] > desired_fixed_time
                    THEN desired_fixed_time - t ELSE step_at[t]
    BY <1>1, <1>5 DEF time_step, Exact
  <2>2. fixed_index \in Requests /\ desired_fixed_time \in Nat
    <3>1. /\ fixed_index \in Nat \ {0} /\ fixed_index <= Len(f) /\ Len(f) \in Nat
      BY <1>0, <1>5, OutputTypes DEF MemoryInv, Exact
    <3>2. fixed_index \in Requests
      BY <3>1 DEF Requests
    <3> QED
      BY <1>0, <3>2, OutputTypes DEF desired_fixed_time, Requests
  <2>3. \A k \in Requests :
          t < f[k] => /\ t < desired_fixed_time
                      /\ f[k] \in Nat
                      /\ desired_fixed_time <= f[k]
    <3> SUFFICES ASSUME NEW k \in Requests, t < f[k]
                 PROVE  /\ t < desired_fixed_time
                        /\ f[k] \in Nat
                        /\ desired_fixed_time <= f[k]
      OBVIOUS
    <3>1. t < desired_fixed_time /\ fixed_index <= k
      BY <1>0, <1>5 DEF IndexInv, Due, desired_fixed_time
    <3>2. f[k] \in Nat
      BY <1>0, OutputTypes DEF Requests
    <3>3. CASE fixed_index = k
      BY <3>1, <3>2, <3>3 DEF desired_fixed_time
    <3>4. CASE fixed_index # k
      <4>1. fixed_index < k
        BY <2>2, <3>1, <3>4 DEF Requests
      <4>2. desired_fixed_time < f[k]
        BY <1>0, <1>5, <2>2, <4>1, OrderedTimes DEF desired_fixed_time
      <4> QED
        BY <2>2, <3>1, <3>2, <4>2
    <3> QED
      BY <3>3, <3>4
  <2>4. CASE t < desired_fixed_time /\ t + step_at[t] > desired_fixed_time
    <3>1. desired_fixed_time \in inside
      BY <1>1, <2>2, <2>4 DEF Requests, desired_fixed_time
    <3>2. \A h \in inside : h \in Nat /\ desired_fixed_time <= h
      BY <2>3 DEF Requests
    <3>3. (CHOOSE g \in inside : \A h \in inside : g <= h) = desired_fixed_time
      <4> HIDE DEF inside, desired_fixed_time
      <4>1. \A g \in inside : (\A h \in inside : g <= h) => g = desired_fixed_time
        BY <2>2, <3>1, <3>2
      <4> QED
        BY <3>1, <3>2, <4>1
    <3>4. inside # {} /\ option.exact_fixed_times
      BY <1>5, <3>1 DEF Exact
    <3>5. Marching!NextTime(t) = desired_fixed_time
      <4>1. cuts = inside
        BY <3>4
      <4> HIDE DEF cuts, inside, desired_fixed_time
      <4> QED
        BY <1>2, <1>5, <3>3, <3>4, <4>1
    <3> QED
      BY <1>1, <2>1, <2>2, <2>4, <3>5
  <2>5. CASE ~(t < desired_fixed_time /\ t + step_at[t] > desired_fixed_time)
    <3>1. ASSUME NEW h \in inside
          PROVE  FALSE
      <4>1. PICK k \in Requests : h = f[k]
        BY <3>1 DEF Requests
      <4>2. t < f[k] /\ f[k] < t + step_at[t]
        BY <3>1, <4>1
      <4>3. t < desired_fixed_time /\ f[k] \in Nat /\ desired_fixed_time <= f[k]
        BY <2>3, <4>2
      <4> QED
        BY <1>1, <2>2, <2>5, <4>2, <4>3
    <3>2. inside = {}
      BY <3>1
    <3>3. time_step = step_at[t]
      BY <2>1, <2>5
    <3> QED
      BY <1>1, <1>2, <1>5, <3>2, <3>3
  <2> QED
    BY <2>4, <2>5
<1> QED
  BY <1>3, <1>4, <1>5

\* The trajectories that can be restarted from: nothing is lost, and a set that is
\* completed adds the one in memory.
LEMMA SavedAfter ==
  ASSUME Inv, [Next]_vars
  PROVE  \/ Saved' = Saved
         \/ WriteParameters /\ Saved' = Saved \cup {solution}
<1>1. Saved \subseteq Saved'
  <2> SUFFICES ASSUME NEW i \in Written
               PROVE  solution_file[i] \in Saved'
    BY DEF Saved
  <2>1. i \in Written' /\ solution_file'[i] = solution_file[i]
    BY SavedSame
  <2> QED
    BY <2>1 DEF Saved
<1>2. \A i \in Written' : \/ solution_file'[i] \in Saved
                          \/ WriteParameters /\ solution_file'[i] = solution
  <2> SUFFICES ASSUME NEW i \in Written'
               PROVE  \/ solution_file'[i] \in Saved
                      \/ WriteParameters /\ solution_file'[i] = solution
    OBVIOUS
  <2>1. CASE i \in Written
    BY <2>1, SavedSame DEF Saved
  <2>2. CASE i \notin Written
    BY <2>2, SavedNew
  <2> QED
    BY <2>1, <2>2
<1>3. CASE \A i \in Written' : solution_file'[i] \in Saved
  <2>1. Saved' \subseteq Saved
    BY <1>3 DEF Saved
  <2> QED
    BY <1>1, <2>1
<1>4. CASE \E i \in Written' : solution_file'[i] \notin Saved
  <2>1. PICK i \in Written' : solution_file'[i] \notin Saved
    BY <1>4
  <2>2. WriteParameters /\ solution \in Saved'
    BY <1>2, <2>1 DEF Saved
  <2>3. Saved' \subseteq Saved \cup {solution}
    BY <1>2 DEF Saved
  <2> QED
    BY <1>1, <2>2, <2>3
<1> QED
  BY <1>3, <1>4

\* The latest of the complete sets has the longest trajectory.
LEMMA LatestIsLongest ==
  ASSUME Inv, NEW i \in Written, \A j \in Written : j <= i
  PROVE  \A s \in Saved : Len(s) <= Len(solution_file[i])
<1> SUFFICES ASSUME NEW j \in Written
             PROVE  Len(solution_file[j]) <= Len(solution_file[i])
  BY DEF Saved
<1>1. /\ solution_file[i] \in Seq(Times) \ {<<>>}
      /\ solution_file[j] \in Seq(Times) \ {<<>>}
      /\ Len(solution_file[i]) - 1 = i * Interval
      /\ Len(solution_file[j]) - 1 = j * Interval
  BY DEF Inv, FilesInv, SavedInv
<1>2. Interval \in Nat \ {0} /\ i \in Nat /\ j \in Nat /\ j <= i
  BY OptionTypes, FlowSolverAssumption DEF Inv, Written, FileNumbers
<1>3. j * Interval <= i * Interval /\ i * Interval \in Nat /\ j * Interval \in Nat
  BY <1>2, MultiplesInOrder, NextMultiple
<1>4. Len(solution_file[i]) \in Nat /\ Len(solution_file[j]) \in Nat
  BY <1>1
<1> QED
  BY <1>1, <1>3, <1>4

\* A new run begins a march, and every step is one of it or changes nothing of it.
LEMMA MarchInit ==
  ASSUME Init
  PROVE  Marching!Init
<1>1. solution = <<0>> /\ pc # "crashed" /\ Written = {}
  BY DEF Init, Written
<1> QED
  BY <1>1 DEF Marching!Init

LEMMA MarchStep ==
  ASSUME Inv, Inv', CrashedInv, IndexInv, FixedTimesInOrder, LatestOnly, [Next]_vars
  PROVE  [Marching!Next]_(Marching!vars)
<1>0. ParametersOK /\ MemoryInv
  BY DEF Inv
<1>1. option' = option /\ step_at' = step_at
  BY QuietSteps DEF Next, Loop, Advance, Output, Crash, StartAgain, Restart, parameters
<1>2. ASSUME UNCHANGED <<Trajectory, Saved>>
      PROVE  UNCHANGED Marching!vars
  BY <1>1, <1>2 DEF Marching!vars, Trajectory, Saved
<1>3. ASSUME Trajectory # <<>>,
             Trajectory[Len(Trajectory)] < FinalTime,
             Trajectory' = Append(Trajectory,
                             Marching!NextTime(Trajectory[Len(Trajectory)])),
             Saved' = Saved
      PROVE  Marching!March
  BY <1>1, <1>3 DEF Marching!March, Trajectory, Saved
<1>4. ASSUME Trajectory # <<>>, Trajectory' = Trajectory,
             Saved' = Saved \cup {Trajectory}
      PROVE  Marching!Save
  BY <1>1, <1>4 DEF Marching!Save, Trajectory, Saved
<1>5. ASSUME Trajectory' = <<>>, Saved' = Saved
      PROVE  Marching!Stop
  BY <1>1, <1>5 DEF Marching!Stop, Trajectory, Saved
<1>6. ASSUME Trajectory = <<>>, Saved' = Saved,
             \/ Saved = {} /\ Trajectory' = << 0 >>
             \/ /\ Trajectory' \in Saved
                /\ \A other \in Saved : Len(other) <= Len(Trajectory')
      PROVE  Marching!Resume
  BY <1>1, <1>6 DEF Marching!Resume, Trajectory, Saved
<1>7. solution # <<>> /\ solution[Len(solution)] = current_time
  BY <1>0 DEF MemoryInv
<1>8. CASE Advance
  <2>1. /\ BetweenPasses /\ pc # "crashed" /\ pc' # "crashed"
        /\ current_time < FinalTime
        /\ current_time' = current_time + time_step
        /\ solution' = Append(solution, current_time')
        /\ ~WriteParameters
    BY <1>8 DEF Advance, BetweenPasses, WriteParameters
  <2>2. Marching!NextTime(current_time) = current_time'
    BY <2>1, SameNextTime
  <2>3. Saved' = Saved
    BY <2>1, SavedAfter
  <2>4. Trajectory = solution /\ Trajectory' = solution'
    BY <2>1 DEF Trajectory
  <2>5. Marching!March
    BY <1>3, <1>7, <2>1, <2>2, <2>3, <2>4
  <2> QED
    BY <2>5 DEF Marching!Next
<1>9. CASE WriteParameters
  <2>1. pc # "crashed" /\ pc' # "crashed" /\ solution' = solution
    BY <1>9 DEF WriteParameters
  <2>2. Trajectory = solution /\ Trajectory' = solution
    BY <2>1 DEF Trajectory
  <2>3. CASE Saved' = Saved
    BY <1>2, <2>2, <2>3
  <2>4. CASE Saved' = Saved \cup {solution}
    BY <1>4, <1>7, <2>2, <2>4 DEF Marching!Next
  <2> QED
    BY <2>3, <2>4, SavedAfter
<1>10. CASE WriteSolution \/ WriteTable \/ Output \/ Finish \/ UNCHANGED vars
  <2>1. /\ solution' = solution /\ (pc' = "crashed" <=> pc = "crashed")
        /\ ~WriteParameters \/ UNCHANGED vars
    BY <1>10 DEF WriteSolution, WriteTable, Output, Finish, WriteParameters, memory,
                 vars
  <2>2. Saved' = Saved
    <3>1. CASE UNCHANGED vars
      BY <3>1 DEF vars, restart_files, Saved, Written
    <3> QED
      BY <2>1, <3>1, SavedAfter
  <2> QED
    BY <1>2, <2>1, <2>2 DEF Trajectory
<1>11. CASE Crash
  <2>1. pc' = "crashed" /\ ~WriteParameters
    BY <1>11 DEF Crash, WriteParameters
  <2>2. Saved' = Saved /\ Trajectory' = <<>>
    BY <2>1, SavedAfter DEF Trajectory
  <2> QED
    BY <1>5, <2>2 DEF Marching!Next
<1>12. CASE StartAgain
  <2>1. /\ pc = "crashed" /\ pc' # "crashed" /\ Written = {}
        /\ solution' = solution /\ ~WriteParameters
    BY <1>12 DEF StartAgain, WriteParameters
  <2>2. solution = <<0>>
    BY <2>1 DEF CrashedInv
  <2>3. /\ Trajectory = <<>> /\ Trajectory' = <<0>>
        /\ Saved = {} /\ Saved' = Saved
    BY <2>1, <2>2, SavedAfter DEF Trajectory, Saved
  <2> QED
    BY <1>6, <2>3 DEF Marching!Next
<1>13. ASSUME NEW i \in RestartNumbers, Restart(i)
       PROVE  Marching!Next
  <2>1. /\ pc = "crashed" /\ pc' # "crashed"
        /\ solution' = solution_file[i] /\ ~WriteParameters
    BY <1>13 DEF Restart, WriteParameters
  <2>2. i \in Written /\ \A j \in Written : j <= i
    BY DEF RestartNumbers
  <2>3. /\ Trajectory = <<>> /\ Trajectory' = solution_file[i]
        /\ Saved' = Saved /\ solution_file[i] \in Saved
    BY <2>1, <2>2, SavedAfter DEF Trajectory, Saved
  <2>4. \A other \in Saved : Len(other) <= Len(Trajectory')
    BY <2>2, <2>3, LatestIsLongest
  <2> QED
    BY <1>6, <2>3, <2>4 DEF Marching!Next
<1> QED
  BY <1>8, <1>9, <1>10, <1>11, <1>12, <1>13 DEF Next, Loop

(***************************************************************************)
(* The requested times are on the way, through any restart.                *)
(***************************************************************************)
Reached(s) ==
  \A k \in Requests :
    option.fixed_times[k] \in 1 .. s[Len(s)] =>
      \E j \in 1 .. Len(s) : s[j] = option.fixed_times[k]

ReachedInv == Exact => Reached(solution) /\ \A i \in Written : Reached(solution_file[i])

\* At the initial time there is nothing to reach.
LEMMA ReachedAtStart == Reached(<<0>>)
  BY DEF Reached

\* A step reaches the next request, or passes none.
LEMMA ReachedAhead ==
  ASSUME ParametersOK, MemoryInv, IndexInv, FixedTimesInOrder, CutsDoNotCompete,
         Exact, Reached(solution), Advance
  PROVE  Reached(solution')
<1> DEFINE f == option.fixed_times
           t == current_time'
<1>1. /\ BetweenPasses /\ pc # "crashed" /\ current_time < FinalTime
      /\ t = current_time + time_step
      /\ solution' = Append(solution, t)
      /\ solution \in Seq(Times) \ {<<>>} /\ current_time = solution[Len(solution)]
  BY DEF Advance, BetweenPasses, MemoryInv
<1>2. /\ time_step \in Nat \ {0} /\ t \in Times
      /\ current_time \in Nat /\ t \in Nat
  BY <1>1, StepBounds, TimesAreNumbers, FlowSolverAssumption DEF Times
<1>3. /\ Len(solution') = Len(solution) + 1 /\ Len(solution) \in Nat \ {0}
      /\ solution'[Len(solution')] = t
      /\ \A j \in 1 .. Len(solution) : solution'[j] = solution[j]
  BY <1>1, <1>2
<1> SUFFICES ASSUME NEW k \in Requests, f[k] \in 1 .. t
             PROVE  \E j \in 1 .. Len(solution') : solution'[j] = f[k]
  BY <1>3 DEF Reached
<1>4. CASE f[k] <= current_time
  <2>0. f[k] \in 1 .. solution[Len(solution)]
    BY <1>1, <1>2, <1>4
  <2>1. PICK j \in 1 .. Len(solution) : solution[j] = f[k]
    BY <2>0 DEF Reached
  <2>2. solution'[j] = f[k] /\ j \in 1 .. Len(solution')
    BY <1>3, <2>1
  <2> QED
    BY <2>2
<1>5. CASE current_time < f[k]
  <2>1. current_time < f[fixed_index] /\ fixed_index <= k
    BY <1>1, <1>5 DEF IndexInv, Due
  <2>2. t <= f[fixed_index]
    BY <1>1, <2>1, CutAtNext DEF desired_fixed_time
  <2>3. fixed_index \in Requests /\ f[fixed_index] \in Nat /\ f[k] \in Nat /\ k \in Nat
    <3>1. /\ fixed_index \in Nat \ {0} /\ fixed_index <= Len(option.fixed_times)
          /\ Len(option.fixed_times) \in Nat
      BY OutputTypes DEF MemoryInv, Exact
    <3>2. fixed_index \in Requests
      BY <3>1 DEF Requests
    <3> QED
      BY <3>2, OrderedTimes DEF Requests
  <2>4. f[fixed_index] <= f[k]
    <3>1. fixed_index = k \/ fixed_index < k
      BY <2>1, <2>3 DEF Requests
    <3>2. fixed_index < k => f[fixed_index] < f[k]
      BY <2>3, OrderedTimes
    <3> QED
      BY <2>3, <3>1, <3>2
  <2>5. f[k] = t
    BY <1>2, <2>2, <2>3, <2>4
  <2>6. Len(solution') \in 1 .. Len(solution')
    BY <1>3
  <2> QED
    BY <1>3, <2>5, <2>6
<1>6. f[k] \in Nat
  BY OrderedTimes
<1> QED
  BY <1>2, <1>4, <1>5, <1>6

\* Every step keeps the requests on the way of what is in memory and of what is saved.
LEMMA ReachedStep ==
  ASSUME Inv, CrashedInv, IndexInv, FixedTimesInOrder, CutsDoNotCompete, ReachedInv,
         [Next]_vars
  PROVE  ReachedInv'
<1>0. ParametersOK /\ MemoryInv
  BY DEF Inv
<1>1. option' = option
  BY QuietSteps DEF Next, Loop, Advance, Output, Crash, StartAgain, Restart, parameters
<1> SUFFICES ASSUME Exact
             PROVE  /\ Reached(solution')
                    /\ \A i \in Written' : Reached(solution_file'[i])
  BY <1>1 DEF ReachedInv, Reached, Exact, HasFixedTimes, Requests
<1>2. Reached(solution) /\ \A i \in Written : Reached(solution_file[i])
  BY DEF ReachedInv
<1>3. Reached(solution')
  <2>1. CASE Advance
    BY <1>0, <1>2, <2>1, ReachedAhead
  <2>2. CASE Output \/ StartAgain
    BY <1>2, <2>2 DEF Output, StartAgain
  <2>3. CASE Crash
    <3>1. solution' = <<0>>
      BY <2>3 DEF Crash
    <3> QED
      BY <3>1, ReachedAtStart
  <2>4. ASSUME NEW i \in RestartNumbers, Restart(i)
        PROVE  Reached(solution')
    <3>1. i \in Written /\ solution' = solution_file[i]
      BY <2>4 DEF RestartNumbers, Restart
    <3> QED
      BY <1>2, <3>1
  <2>5. CASE WriteSolution \/ WriteTable \/ WriteParameters \/ Finish \/ UNCHANGED vars
    <3>1. solution' = solution
      BY <2>5, QuietSteps
    <3> QED
      BY <1>2, <3>1
  <2> QED
    BY <2>1, <2>2, <2>3, <2>4, <2>5 DEF Next, Loop
<1>4. ASSUME NEW i \in Written'
      PROVE  Reached(solution_file'[i])
  <2>1. CASE i \in Written
    <3>1. solution_file'[i] = solution_file[i]
      BY <2>1, SavedSame
    <3> QED
      BY <1>2, <2>1, <3>1
  <2>2. CASE i \notin Written
    <3>1. solution_file'[i] = solution
      BY <2>2, SavedNew
    <3> QED
      BY <1>2, <3>1
  <2> QED
    BY <2>1, <2>2
<1> QED
  BY <1>3, <1>4

(***************************************************************************)
(* How much there is to do before the final time.                          *)
(***************************************************************************)
Place(p) ==
  CASE p = "write solution" -> 5
    [] p = "write table" -> 4
    [] p = "write prm" -> 3
    [] p = "output" -> 2
    [] p = "loop" -> 1
    [] OTHER -> 0

ToDo == 5 * (Horizon - current_time) + Place(pc)

\* The values of Place.
LEMMA Places ==
  /\ Place("write solution") = 5 /\ Place("write table") = 4
  /\ Place("write prm") = 3 /\ Place("output") = 2
  /\ Place("loop") = 1 /\ Place("done") = 0
  BY DEF Place

\* A later time outweighs any place, and at the same time a place further on counts.
LEMMA Later ==
  ASSUME NEW h \in Nat, NEW t \in Nat, NEW u \in Nat, t + 1 <= u, u <= h,
         NEW q \in {2, 5}
  PROVE  /\ 5 * (h - t) + 1 \in Nat /\ 5 * (h - u) + q \in Nat
         /\ 5 * (h - u) + q < 5 * (h - t) + 1
  OBVIOUS

LEMMA Further ==
  ASSUME NEW h \in Nat, NEW t \in Nat, t <= h,
         NEW p \in 0 .. 5, NEW q \in 0 .. 5, q < p
  PROVE  /\ 5 * (h - t) + p \in Nat /\ 5 * (h - t) + q \in Nat
         /\ 5 * (h - t) + q < 5 * (h - t) + p
  OBVIOUS

\* Every step of a running program leaves it less to do.
LEMMA LoopDescends ==
  ASSUME Inv, MemoryInv', Loop
  PROVE  ToDo \in Nat /\ ToDo' \in Nat /\ ToDo' < ToDo
<1>0. ParametersOK /\ MemoryInv
  BY DEF Inv
<1>1. /\ current_time \in Nat /\ current_time <= Horizon /\ Horizon \in Nat
      /\ current_time' \in Nat /\ current_time' <= Horizon
  BY <1>0, TimesAreNumbers, NextMemoryTypes DEF Times
<1>2. ToDo' = 5 * (Horizon - current_time') + Place(pc')
  BY DEF ToDo
<1>3. CASE Advance
  <2>1. /\ pc = "loop" /\ pc' \in {"write solution", "output"}
        /\ current_time' = current_time + time_step
    BY <1>3 DEF Advance
  <2>2. time_step \in Nat \ {0}
    BY <1>0, <1>3, StepBounds DEF Advance
  <2>3. Place(pc) = 1 /\ Place(pc') \in {2, 5}
    BY <2>1, Places
  <2>4. current_time + 1 <= current_time'
    <3>1. current_time \in Nat /\ current_time' = current_time + time_step
      BY <1>1, <2>1
    <3> HIDE DEF time_step
    <3> QED
      BY <2>2, <3>1
  <2>5. ToDo = 5 * (Horizon - current_time) + 1
    BY <2>3 DEF ToDo
  <2> QED
    BY <1>1, <1>2, <2>3, <2>4, <2>5, Later
<1>4. CASE WriteSolution \/ WriteTable \/ WriteParameters \/ Output \/ Finish
  <2>1. current_time' = current_time
    BY <1>4 DEF WriteSolution, WriteTable, WriteParameters, Output, Finish, memory
  <2>2. \/ pc = "write solution" /\ pc' = "write table"
        \/ pc = "write table" /\ pc' = "write prm"
        \/ pc = "write prm" /\ pc' = "output"
        \/ pc = "output" /\ pc' = "loop"
        \/ pc = "loop" /\ pc' = "done"
    BY <1>4 DEF WriteSolution, WriteTable, WriteParameters, Output, Finish
  <2>3. Place(pc) \in 0 .. 5 /\ Place(pc') \in 0 .. 5 /\ Place(pc') < Place(pc)
    <3>1. CASE pc = "write solution" /\ pc' = "write table"
      <4>1. Place(pc) = 5 /\ Place(pc') = 4
        BY <3>1, Places
      <4> QED
        BY <4>1
    <3>2. CASE pc = "write table" /\ pc' = "write prm"
      <4>1. Place(pc) = 4 /\ Place(pc') = 3
        BY <3>2, Places
      <4> QED
        BY <4>1
    <3>3. CASE pc = "write prm" /\ pc' = "output"
      <4>1. Place(pc) = 3 /\ Place(pc') = 2
        BY <3>3, Places
      <4> QED
        BY <4>1
    <3>4. CASE pc = "output" /\ pc' = "loop"
      <4>1. Place(pc) = 2 /\ Place(pc') = 1
        BY <3>4, Places
      <4> QED
        BY <4>1
    <3>5. CASE pc = "loop" /\ pc' = "done"
      <4>1. Place(pc) = 1 /\ Place(pc') = 0
        BY <3>5, Places
      <4> QED
        BY <4>1
    <3> QED
      BY <2>2, <3>1, <3>2, <3>3, <3>4, <3>5
  <2>4. /\ ToDo = 5 * (Horizon - current_time) + Place(pc)
        /\ ToDo' = 5 * (Horizon - current_time) + Place(pc')
    BY <1>2, <2>1 DEF ToDo
  <2> QED
    BY <1>1, <2>3, <2>4, Further
<1> QED
  BY <1>3, <1>4 DEF Loop

(***************************************************************************)
(* The theorems.                                                           *)
(***************************************************************************)
\* Through any crashes and restarts, the data table has one row for each time that
\* the solution went through, and the ODE solver's time and iteration are those of
\* the solution.
THEOREM MemoryCorrect ==
  ASSUME LatestOnly
  PROVE  Spec => []MemoryIsConsistent
<1>1. Inv => MemoryIsConsistent
  BY DEF Inv, MemoryInv, MemoryIsConsistent
<1> QED
  BY <1>1, Invariant, PTL

\* With a complete parameter file come, at every moment, a solution and a table that
\* are complete and of its time and iteration, because it is written last.
THEOREM RestartFilesCorrect ==
  ASSUME LatestOnly
  PROVE  Spec => []RestartSetComplete
<1>1. Inv => RestartSetComplete
  BY FlowSolverAssumption DEF Inv, FilesInv, SavedInv, RestartSetComplete
<1> QED
  BY <1>1, Invariant, PTL

\* end_exactly_at_final_time: through any restarts the last time is the final time.
THEOREM EndCorrect ==
  ASSUME LatestOnly
  PROVE  Spec => []EndsExactly
<1> DEFINE Ended == pc = "done" => current_time >= FinalTime
<1>1. Init => Ended
  BY DEF Init
<1>2. Inv /\ Ended /\ [Next]_vars => Ended'
  BY DEF Next, Loop, Advance, WriteSolution, WriteTable, WriteParameters, Output,
         Finish, Crash, StartAgain, Restart, memory, vars
<1>3. Inv /\ Ended => EndsExactly
  <2> SUFFICES ASSUME MemoryInv, current_time >= FinalTime,
                      option.end_exactly_at_final_time
               PROVE  current_time = FinalTime
    BY DEF Inv, EndsExactly
  <2>1. current_time <= FinalTime
    BY DEF MemoryInv
  <2>2. current_time \in 0 .. Horizon
    BY MemoryTypes DEF Times
  <2> QED
    BY <2>1, <2>2, FlowSolverAssumption
<1> QED
  BY <1>1, <1>2, <1>3, Invariant, PTL DEF Spec

\* Through any crashes and restarts, the types of memory and disk; in particular the
\* numbers of the restart and solution files never pass the last time there is.
THEOREM TypeCorrect ==
  ASSUME LatestOnly
  PROVE  Spec => []TypeOK
<1>1. Inv /\ FilesTypeInv => TypeOK
  <2> SUFFICES ASSUME Inv, FilesTypeInv
               PROVE  TypeOK
    OBVIOUS
  <2>1. ParametersOK /\ MemoryInv /\ DomainInv /\ TypesInv
    BY DEF Inv, FilesInv, FilesTypeInv
  <2>2. current_time \in Times /\ current_iteration \in Nat
    BY <2>1, MemoryTypes
  <2>3. next_time_step \in Nat \ {0}
    BY <2>1, TimesAreNumbers
  <2>4. pc \in {"write solution", "write table", "write prm"} =>
          restart_number \in FileNumbers
    BY RestartNumberType DEF Writing, FilesTypeInv
  <2>5. pc = "output" => OutputNumber \subseteq FileNumbers
    BY OutputNumberType DEF FilesTypeInv
  <2> QED
    BY <2>1, <2>2, <2>3, <2>4, <2>5
       DEF TypeOK, ParametersOK, MemoryInv, DomainInv, TypesInv, Trajectories
<1> QED
  BY <1>1, FilesTypeInvariant, PTL

\* "Output solution at exact fixed times": in a run that was not interrupted, when the
\* loop has gone past a requested time there is a solution file of its number, with
\* the solution of that very time; the list is in order and none of its times lies
\* inside a step that is cut at the final time.
THEOREM ExactOutputCorrect ==
  ASSUME FixedTimesInOrder, CutsDoNotCompete
  PROVE  Spec => []ExactFixedTimesOutput
<1> DEFINE J == FirstRun => IndexInv /\ ServedInv
<1>1. Init => J
  BY IndexInit, ServedInit
<1>2. crashes \in Nat /\ FirstRunInv /\ FirstRunInv' /\ J /\ [Next]_vars => J'
  <2> SUFFICES ASSUME crashes \in Nat, FirstRunInv, FirstRunInv', J, [Next]_vars,
                      FirstRun'
               PROVE  IndexInv' /\ ServedInv'
    OBVIOUS
  <2>1. FirstRun
    BY CrashesStep DEF FirstRun
  <2>2. /\ Inv /\ Inv' /\ FilesTypeInv /\ pc # "crashed" /\ pc' # "crashed"
        /\ IndexInv /\ ServedInv
    BY <2>1 DEF FirstRunInv
  <2> QED
    BY <2>2, IndexStep, ServedStep DEF FilesTypeInv
<1>3. FirstRunInv /\ J => ExactFixedTimesOutput
  <2> SUFFICES ASSUME Inv, ServedInv, BetweenPasses, Exact,
                      NEW k \in Requests, option.fixed_times[k] \in 1 .. current_time
               PROVE  vtk_file[k] = option.fixed_times[k]
    BY DEF FirstRunInv, FirstRun, ExactFixedTimesOutput, BetweenPasses, Exact,
           OutputsAtFixedTimes, Requests
  <2>1. ParametersOK /\ MemoryInv
    BY DEF Inv
  <2>2. option.fixed_times[k] \in Nat /\ current_time \in Nat
    BY <2>1, OutputTypes, TimesAreNumbers DEF Requests
  <2>3. ~Due(k)
    BY <2>2 DEF Due
  <2> QED
    BY <2>3 DEF ServedInv
<1> HIDE DEF J
<1> QED
  BY <1>1, <1>2, <1>3, FirstRunInvariant, PTL DEF Spec

\* "Outputs the solution at time intervals of dt": in a run that was not interrupted,
\* with time steps no longer than the interval, each multiple of it that the next step
\* goes past has a file of its number, with the last solution that is not after it.
THEOREM IntervalsCorrect == Spec => []IntervalsOutput
<1> DEFINE J == FirstRun => EarlierInv
<1>1. Init => J
  BY EarlierInit
<1>2. crashes \in Nat /\ FirstRunInv /\ FirstRunInv' /\ J /\ [Next]_vars => J'
  <2> SUFFICES ASSUME crashes \in Nat, FirstRunInv, FirstRunInv', J, [Next]_vars,
                      FirstRun'
               PROVE  EarlierInv'
    OBVIOUS
  <2>1. FirstRun
    BY CrashesStep DEF FirstRun
  <2>2. /\ Inv /\ Inv' /\ FilesTypeInv /\ pc # "crashed" /\ pc' # "crashed"
        /\ EarlierInv
    BY <2>1 DEF FirstRunInv
  <2> QED
    BY <2>2, EarlierStep DEF FilesTypeInv
<1>3. FirstRunInv /\ J => IntervalsOutput
  <2> SUFFICES ASSUME Inv, EarlierInv, TypesInv, pc = "loop", ByInterval,
                      NEW n \in FileNumbers \ {0},
                      n * option.every_dt < current_time + next_time_step
               PROVE  HasLastBefore(n)
    BY DEF FirstRunInv, FirstRun, FilesTypeInv, IntervalsOutput, ByInterval,
           HasLastBefore
  <2>1. /\ n \in Nat /\ desired_time \in Nat
        /\ current_time \in Nat /\ next_time_step \in Nat
        /\ n * option.every_dt \in Nat
    <3>1. n \in Nat
      BY FlowSolverAssumption DEF FileNumbers
    <3>2. option.every_dt \in Nat
      BY OutputTypes DEF Inv
    <3>3. n * option.every_dt \in Nat
      BY <3>1, <3>2
    <3> QED
      BY <3>1, <3>3, TimesAreNumbers DEF TypesInv, Inv
  <2>2. current_time + next_time_step <= desired_time
    BY DEF EarlierInv, BetweenPasses
  <2>3. n * option.every_dt < desired_time
    BY <2>1, <2>2
  <2> QED
    BY <2>3 DEF EarlierInv
<1> HIDE DEF J
<1> QED
  BY <1>1, <1>2, <1>3, FirstRunInvariant, PTL DEF Spec

\* Refinement: whatever it is interrupted by, the run goes through the times that an
\* uninterrupted one would, by a rule without the index or the restart files, and
\* resumes from the longest stretch that it saved.
THEOREM MarchCorrect ==
  ASSUME LatestOnly, FixedTimesInOrder
  PROVE  Spec => MarchesAsPromised
<1>1. Init => IndexInv
  BY IndexInit
<1>2. Inv /\ Inv' /\ FilesTypeInv /\ IndexInv /\ [Next]_vars => IndexInv'
  BY IndexStep DEF FilesTypeInv
<1>3. Init => Marching!Init
  BY MarchInit
<1>4. Inv /\ Inv' /\ FilesTypeInv /\ IndexInv /\ [Next]_vars
        => [Marching!Next]_(Marching!vars)
  BY MarchStep DEF FilesTypeInv
<1>5. Spec => [](Inv /\ FilesTypeInv)
  BY FilesTypeInvariant
<1> QED
  BY <1>1, <1>2, <1>3, <1>4, <1>5, PTL DEF Spec, MarchesAsPromised, Marching!Spec

\* Through any restarts, a computation that is past a requested time has been at that
\* very time, if the list is in order and none of its times lies inside a step that is
\* cut at the final time.
THEOREM RequestsCorrect ==
  ASSUME LatestOnly, FixedTimesInOrder, CutsDoNotCompete
  PROVE  Spec => []RequestedTimesReached
<1>1. Init => IndexInv /\ ReachedInv
  <2> SUFFICES ASSUME Init PROVE IndexInv /\ ReachedInv
    OBVIOUS
  <2>1. solution = <<0>> /\ Written = {}
    BY DEF Init, Written
  <2> QED
    BY <2>1, IndexInit, ReachedAtStart DEF ReachedInv
<1>2. Inv /\ Inv' /\ FilesTypeInv /\ IndexInv /\ ReachedInv /\ [Next]_vars
        => (IndexInv /\ ReachedInv)'
  BY IndexStep, ReachedStep DEF FilesTypeInv
<1>3. Inv /\ ReachedInv => RequestedTimesReached
  BY DEF Inv, MemoryInv, ReachedInv, Reached, Exact, RequestedTimesReached, Requests
<1>4. Spec => [](Inv /\ FilesTypeInv)
  BY FilesTypeInvariant
<1> QED
  BY <1>1, <1>2, <1>3, <1>4, PTL DEF Spec

\* Every step of a running program, up to the next crash, leaves it less to do: time
\* goes forward in each pass, cut or not, and a pass has a bounded number of steps.
THEOREM RunDescends ==
  ASSUME LatestOnly
  PROVE  Spec => [][Loop => ToDo \in Nat /\ ToDo' \in Nat /\ ToDo' < ToDo]_vars
<1>1. Inv /\ Inv' /\ [Next]_vars
        => [Loop => ToDo \in Nat /\ ToDo' \in Nat /\ ToDo' < ToDo]_vars
  BY LoopDescends DEF Inv
<1> QED
  BY <1>1, Invariant, PTL DEF Spec
=============================================================================
