------------------------------ MODULE FlowSolver ------------------------------
(***************************************************************************)
(* The unsteady run of flow_solver/flow_solver.cpp: the loop that picks    *)
(* each time step, advances the solution, records unsteady data, writes    *)
(* restart files and solution (vtk) files, and the restart of an           *)
(* interrupted computation from its restart files.                         *)
(*                                                                         *)
(* Time is counted in ticks.  The flow is deterministic: a solution is     *)
(* represented by the times it has been advanced through, the last of      *)
(* which is its time, and the time step that is computed from a solution   *)
(* (adaptive or constant) is a function of that time.  The data table has  *)
(* one row for each time at which it was extended.                         *)
(*                                                                         *)
(* A crash may happen at any point.  It loses the memory, and leaves a     *)
(* file that is being written as it was or torn.                           *)
(***************************************************************************)
EXTENDS Integers, Sequences

CONSTANTS
  FinalTime,      \* final_time
  Horizon,        \* a bound: on times, and on the number of requested times
  StepFunctions,  \* the time steps a flow may have, from each time
  Options,        \* the parameters of a run
  MaxCrashes,     \* bound on the number of crashes
  LatestOnly,     \* whether only the latest restart files are restarted from
  None, Torn

Times == 0 .. Horizon

OptionType ==
  [end_exactly_at_final_time: BOOLEAN,
   every_x_steps: Nat,            \* output_solution_..., 0 where it is off
   every_dt: Nat,
   fixed_times: Seq(Times),
   exact_fixed_times: BOOLEAN,
   restart_files: BOOLEAN,        \* output_restart_files...
   restart_every_dt: Nat,
   restart_every_x_steps: Nat \ {0}]

ASSUME FlowSolverAssumption ==
  /\ FinalTime \in Nat
  /\ Horizon \in Nat
  /\ StepFunctions \subseteq [Times -> Nat \ {0}]
  /\ \A step \in StepFunctions, t \in Times :
       t < FinalTime => t + step[t] <= Horizon
  /\ Options \subseteq OptionType
  /\ \A o \in Options : Len(o.fixed_times) <= Horizon
  /\ MaxCrashes \in Nat
  /\ LatestOnly \in BOOLEAN
  /\ None \notin Seq(Times) \cup Times /\ Torn \notin Seq(Times)

VARIABLES
  option, step_at,        \* the parameters and the flow, which never change
  pc,
  \* memory
  current_time, current_iteration, next_time_step,
  solution, table,
  desired_time,           \* current_desired_time_for_output_solution_...
  restart_desired_time,   \* ... for_output_restart_files_...
  fixed_index,            \* of the current desired fixed time, from 1
  \* disk
  solution_file, table_file, prm_file,   \* restart files, by file number
  vtk_file,                              \* the time of each vtk file
  crashes

parameters == <<option, step_at>>
restart_files == <<solution_file, table_file, prm_file>>
memory == <<current_time, current_iteration, next_time_step, solution, table,
            desired_time, restart_desired_time, fixed_index>>
vars == <<parameters, pc, memory, restart_files, vtk_file, crashes>>

FileNumbers == 0 .. Horizon

\* int(round(a / b))
Round(a, b) == (2 * a + b) \div (2 * b)

(***************************************************************************)
(* Which solution output a run makes: the code tests the three in this     *)
(* order.                                                                  *)
(***************************************************************************)
OutputsBySteps == option.every_x_steps > 0
OutputsByInterval == ~OutputsBySteps /\ option.every_dt > 0
HasFixedTimes == option.fixed_times # <<>>
OutputsAtFixedTimes == ~OutputsBySteps /\ ~OutputsByInterval /\ HasFixedTimes

desired_fixed_time == option.fixed_times[fixed_index]

(***************************************************************************)
(* A run from the initial condition, and one from restart files.           *)
(***************************************************************************)
\* the solution file with which a run from the initial condition begins
InitialOutput(files) ==
  [i \in FileNumbers |->
     IF i = 0 /\ (OutputsBySteps \/ OutputsByInterval \/ OutputsAtFixedTimes)
     THEN 0 ELSE files[i]]

Init ==
  /\ option \in Options
  /\ step_at \in StepFunctions
  /\ pc = "loop"
  /\ current_time = 0 /\ current_iteration = 0 /\ next_time_step = step_at[0]
  /\ solution = <<0>> /\ table = <<0>>
  /\ restart_desired_time = 0 /\ fixed_index = 1
  /\ desired_time = IF OutputsByInterval THEN option.every_dt ELSE 0
  /\ solution_file = [i \in FileNumbers |-> None]
  /\ table_file = [i \in FileNumbers |-> None]
  /\ prm_file = [i \in FileNumbers |-> None]
  /\ vtk_file = InitialOutput([i \in FileNumbers |-> None])
  /\ crashes = 0

\* Fault: the index of the fixed time is not found again after a restart.
FixedIndexNotRecovered(t) == 1

\* Fault: the index of the fixed time counts from 0.
FixedIndexFromZero(t) ==
  LET ahead == {k \in 1 .. Len(option.fixed_times) : t < option.fixed_times[k]}
  IN  IF ahead = {} THEN 0 ELSE CHOOSE k \in ahead : \A j \in ahead : k <= j

\* the first fixed time that is still ahead, or else the first of all
FirstFixedIndexAfter(t) ==
  LET ahead == {k \in 1 .. Len(option.fixed_times) : t < option.fixed_times[k]}
  IN  IF ahead = {} THEN 1 ELSE CHOOSE k \in ahead : \A j \in ahead : k <= j

\* the parameter files that are complete: another is refused when it is read
Written == {i \in FileNumbers : prm_file[i] \notin {None, Torn}}

\* the restart files that the user may choose
RestartNumbers ==
  IF LatestOnly THEN {i \in Written : \A j \in Written : j <= i} ELSE Written

\* The parameter file that was written is the input of the new run.
Restart(i) ==
  /\ pc = "crashed"
  /\ solution_file[i] \notin {None, Torn}
  /\ table_file[i] \notin {None, Torn}
  /\ current_time' = prm_file[i].time
  /\ current_iteration' = prm_file[i].iteration
  /\ desired_time' = prm_file[i].desired_time
  /\ next_time_step' = step_at[solution_file[i][Len(solution_file[i])]]
  /\ solution' = solution_file[i]
  /\ table' = table_file[i]
  /\ restart_desired_time' = current_time'
  /\ fixed_index' = FirstFixedIndexAfter(current_time')
  /\ pc' = "loop"
  /\ UNCHANGED <<parameters, restart_files, vtk_file, crashes>>

\* There is nothing to restart from, or the user does not want to.
StartAgain ==
  /\ pc = "crashed"
  /\ LatestOnly => Written = {}
  /\ pc' = "loop"
  /\ desired_time' = IF OutputsByInterval THEN option.every_dt ELSE 0
  /\ vtk_file' = InitialOutput(vtk_file)
  /\ UNCHANGED <<parameters, current_time, current_iteration, next_time_step,
                 solution, table, restart_desired_time, fixed_index,
                 restart_files, crashes>>

(***************************************************************************)
(* One pass of the loop, up to the next time step.                         *)
(***************************************************************************)
\* Fault: a step is not cut at a requested time.
StepNotCutAtFixedTime ==
  IF current_time + next_time_step > FinalTime
     /\ option.end_exactly_at_final_time
  THEN FinalTime - current_time ELSE next_time_step

\* Fault: a step that would pass the final time is not cut.
StepNotCutAtEnd == next_time_step

time_step ==
  LET t == current_time
      next == t + next_time_step
  IN  IF next > FinalTime /\ option.end_exactly_at_final_time
      THEN FinalTime - t
      ELSE IF /\ option.exact_fixed_times /\ HasFixedTimes
              /\ t < desired_fixed_time /\ next > desired_fixed_time
           THEN desired_fixed_time - t
           ELSE next_time_step

\* Fault: a step that ends at the desired time is not taken for an output.
IsOutputTimeStrictly(t, step, desired) == t < desired /\ t + step > desired

\* whether desired is between the current time and that of the next step
IsOutputTime(t, step, desired) == t <= desired /\ t + step > desired

WritesRestart(t, n, step) ==
  /\ option.restart_files
  /\ IF option.restart_every_dt > 0
     THEN IsOutputTime(t, step, restart_desired_time)
     ELSE n % option.restart_every_x_steps = 0

Advance ==
  /\ pc = "loop"
  /\ current_time < FinalTime
  /\ current_time' = current_time + time_step
  /\ current_iteration' = current_iteration + 1
  /\ solution' = Append(solution, current_time')
  /\ table' = Append(table, current_time')
  /\ next_time_step' = step_at[current_time']
  /\ pc' = IF WritesRestart(current_time', current_iteration', next_time_step')
           THEN "write solution" ELSE "output"
  /\ UNCHANGED <<parameters, desired_time, restart_desired_time, fixed_index,
                 restart_files, vtk_file, crashes>>

(***************************************************************************)
(* output_restart_files: three files of the same number, in this order.    *)
(***************************************************************************)
restart_number ==
  IF option.restart_every_dt > 0
  THEN Round(restart_desired_time, option.restart_every_dt)
  ELSE current_iteration \div option.restart_every_x_steps

WriteSolution ==
  /\ pc = "write solution"
  /\ solution_file' = [solution_file EXCEPT ![restart_number] = solution]
  /\ pc' = "write table"
  /\ UNCHANGED <<parameters, memory, table_file, prm_file, vtk_file, crashes>>

\* Fault: the table is written before the row of this step is added to it.
WriteTableTooEarly ==
  /\ pc = "write table"
  /\ table_file' = [table_file EXCEPT
       ![restart_number] = SubSeq(table, 1, Len(table) - 1)]
  /\ pc' = "write prm"
  /\ UNCHANGED <<parameters, memory, solution_file, prm_file, vtk_file, crashes>>

\* Fault: the table is not written.
WriteTableNever ==
  /\ pc = "write table"
  /\ pc' = "write prm"
  /\ UNCHANGED <<parameters, memory, restart_files, vtk_file, crashes>>

WriteTable ==
  /\ pc = "write table"
  /\ table_file' = [table_file EXCEPT ![restart_number] = table]
  /\ pc' = "write prm"
  /\ UNCHANGED <<parameters, memory, solution_file, prm_file, vtk_file, crashes>>

WriteParameters ==
  /\ pc = "write prm"
  /\ prm_file' = [prm_file EXCEPT ![restart_number] =
       [time |-> current_time, iteration |-> current_iteration,
        desired_time |-> desired_time, time_step |-> next_time_step]]
  /\ restart_desired_time' = restart_desired_time + option.restart_every_dt
  /\ pc' = "output"
  /\ UNCHANGED <<parameters, current_time, current_iteration, next_time_step,
                 solution, table, desired_time, fixed_index, solution_file,
                 table_file, vtk_file, crashes>>

(***************************************************************************)
(* The solution output that ends the pass.                                 *)
(***************************************************************************)
IsFixedOutputTime ==
  IF option.exact_fixed_times
  THEN current_time = desired_fixed_time
  ELSE IsOutputTime(current_time, next_time_step, desired_fixed_time)

\* the number of the file that is due, if one is
OutputNumber ==
  CASE OutputsBySteps /\ current_iteration % option.every_x_steps = 0 ->
         {current_iteration \div option.every_x_steps}
    [] /\ OutputsByInterval
       /\ IsOutputTime(current_time, next_time_step, desired_time) ->
         {Round(desired_time, option.every_dt)}
    [] OutputsAtFixedTimes /\ IsFixedOutputTime -> {fixed_index}
    [] OTHER -> {}

Output ==
  /\ pc = "output"
  /\ vtk_file' = [i \in FileNumbers |->
                    IF i \in OutputNumber THEN current_time ELSE vtk_file[i]]
  /\ desired_time' = IF OutputsByInterval /\ OutputNumber # {}
                     THEN desired_time + option.every_dt ELSE desired_time
  /\ fixed_index' = IF /\ OutputsAtFixedTimes /\ OutputNumber # {}
                       /\ fixed_index < Len(option.fixed_times)
                    THEN fixed_index + 1 ELSE fixed_index
  /\ pc' = "loop"
  /\ UNCHANGED <<parameters, current_time, current_iteration, next_time_step,
                 solution, table, restart_desired_time, restart_files, crashes>>

\* Fault: the run does not stop when it meets the final time.
FinishAfterFinalTime ==
  /\ pc = "loop"
  /\ current_time > FinalTime
  /\ pc' = "done"
  /\ UNCHANGED <<parameters, memory, restart_files, vtk_file, crashes>>

Finish ==
  /\ pc = "loop"
  /\ current_time >= FinalTime
  /\ pc' = "done"
  /\ UNCHANGED <<parameters, memory, restart_files, vtk_file, crashes>>

(***************************************************************************)
(* A crash: what was in memory is gone (it is set to what a new run has).  *)
(***************************************************************************)
MayTear(file, writing) ==
  file' \in {file} \cup
    (IF pc = writing THEN {[file EXCEPT ![restart_number] = Torn]} ELSE {})

Crash ==
  /\ pc \notin {"crashed", "done"}
  /\ crashes < MaxCrashes
  /\ crashes' = crashes + 1
  /\ MayTear(solution_file, "write solution")
  /\ MayTear(table_file, "write table")
  /\ MayTear(prm_file, "write prm")
  /\ pc' = "crashed"
  /\ current_time' = 0 /\ current_iteration' = 0 /\ next_time_step' = step_at[0]
  /\ solution' = <<0>> /\ table' = <<0>>
  /\ desired_time' = 0 /\ restart_desired_time' = 0 /\ fixed_index' = 1
  /\ UNCHANGED <<parameters, vtk_file>>

Loop == Advance \/ WriteSolution \/ WriteTable \/ WriteParameters \/ Output
        \/ Finish

Next == Loop \/ Crash \/ StartAgain \/ \E i \in RestartNumbers : Restart(i)

Spec == Init /\ [][Next]_vars

\* A running program goes on; restarting is up to the user.
FairSpec == Spec /\ WF_vars(Loop)

-----------------------------------------------------------------------------
(***************************************************************************)
(* Properties.                                                             *)
(***************************************************************************)
Trajectories == Seq(Times)

\* The type invariant; the numbers of the files that get written are in range.
TypeOK ==
  /\ option \in Options
  /\ step_at \in StepFunctions
  /\ pc \in {"loop", "write solution", "write table", "write prm", "output",
             "done", "crashed"}
  /\ current_time \in Times
  /\ current_iteration \in Nat
  /\ next_time_step \in Nat \ {0}
  /\ solution \in Trajectories
  /\ table \in Trajectories
  /\ desired_time \in Nat
  /\ restart_desired_time \in Nat
  /\ fixed_index \in Nat \ {0}
  /\ DOMAIN solution_file = FileNumbers
  /\ DOMAIN table_file = FileNumbers
  /\ DOMAIN prm_file = FileNumbers
  /\ DOMAIN vtk_file = FileNumbers
  /\ crashes \in 0 .. MaxCrashes
  /\ pc \in {"write solution", "write table", "write prm"} =>
       restart_number \in FileNumbers
  /\ pc = "output" => OutputNumber \subseteq FileNumbers

Running == pc # "crashed"

\* Through any restart the data table has one row for each time that the
\* solution went through, no row twice and none missing, and the time and the
\* iteration of the ODE solver are those of the solution.
MemoryIsConsistent ==
  Running => /\ table = solution
             /\ current_time = solution[Len(solution)]
             /\ current_iteration = Len(solution) - 1

\* "parameter file; written last to ensure necessary data/solution files have
\* been written before": with a parameter file come a solution and a table that
\* are complete and of its time and iteration.
RestartSetComplete ==
  \A i \in Written :
    /\ solution_file[i] \notin {None, Torn}
    /\ table_file[i] = solution_file[i]
    /\ prm_file[i].iteration = Len(solution_file[i]) - 1
    /\ prm_file[i].time = solution_file[i][Len(solution_file[i])]

\* end_exactly_at_final_time: the last time is the final time.
EndsExactly ==
  pc = "done" /\ option.end_exactly_at_final_time => current_time = FinalTime

\* The list of exact times is in order and begins after the initial time, and
\* there is no other solution output.
FixedTimesInOrder ==
  \A o \in Options : o.exact_fixed_times /\ o.fixed_times # <<>> =>
    /\ o.every_x_steps = 0 /\ o.every_dt = 0
    /\ \A k \in 1 .. Len(o.fixed_times) : 0 < o.fixed_times[k]
    /\ \A j, k \in 1 .. Len(o.fixed_times) :
         j < k => o.fixed_times[j] < o.fixed_times[k]

\* No requested time lies inside a step that is cut at the final time.
CutsDoNotCompete ==
  \A o \in Options, step \in StepFunctions, t \in Times :
    /\ o.exact_fixed_times /\ o.end_exactly_at_final_time
    /\ t < FinalTime /\ FinalTime < t + step[t]
    => \A k \in 1 .. Len(o.fixed_times) :
         t < o.fixed_times[k] => FinalTime <= o.fixed_times[k]

\* "Output solution at exact fixed times by decreasing the time step on the fly":
\* when the loop has gone past a requested time there is a solution file of its
\* number, with the solution of that very time.  (Time 0 has file 0.)
ExactFixedTimesOutput ==
  /\ crashes = 0 /\ pc \in {"loop", "done"}
  /\ OutputsAtFixedTimes /\ option.exact_fixed_times
  =>
    \A k \in 1 .. Len(option.fixed_times) :
      option.fixed_times[k] \in 1 .. current_time =>
        vtk_file[k] = option.fixed_times[k]

\* The same through any restarts: a computation that is past a requested time has
\* been at that very time, though the next request is not in the restart files but
\* found again from the time.
RequestedTimesReached ==
  Running /\ HasFixedTimes /\ option.exact_fixed_times =>
    \A k \in 1 .. Len(option.fixed_times) :
      option.fixed_times[k] \in 1 .. current_time =>
        \E j \in 1 .. Len(solution) : solution[j] = option.fixed_times[k]

StepsFitInterval(interval) ==
  \A t \in Times : step_at[t] <= interval

\* "Outputs the solution at time intervals of dt": for each multiple of the
\* interval that the next step goes past there is a file of its number, with the
\* last solution that is not after it.
IntervalsOutput ==
  crashes = 0 /\ pc = "loop" /\ OutputsByInterval /\ StepsFitInterval(option.every_dt) =>
    \A n \in FileNumbers \ {0} :
      n * option.every_dt < current_time + next_time_step =>
        /\ vtk_file[n] # None
        /\ vtk_file[n] <= n * option.every_dt
        /\ n * option.every_dt < vtk_file[n] + step_at[vtk_file[n]]

\* Whatever it is interrupted by, the computation goes through the times that an
\* uninterrupted one would, and resumes from the last it saved.
Marching == INSTANCE TimeMarch WITH
  trajectory <- IF pc = "crashed" THEN <<>> ELSE solution,
  saved <- {solution_file[i] : i \in Written}

MarchesAsPromised == Marching!Spec

\* A run ends, or crashes.
RunsEnd == []<>(pc \in {"done", "crashed"})
=============================================================================
