---------------------------- MODULE MCFlowSolver ----------------------------
(***************************************************************************)
(* Values of the constants of FlowSolver for model checking: time steps of *)
(* one or two ticks, in every order, and the combinations of parameters    *)
(* each run is about.                                                      *)
(***************************************************************************)
EXTENDS FlowSolver

\* a step may go one tick past the final time
MCHorizon == FinalTime + 1

MCStepFunctions ==
  {step \in [Times -> {1, 2}] : \A t \in Times : t > FinalTime => step[t] = 1}

NoOutput ==
  [end_exactly_at_final_time |-> TRUE, every_x_steps |-> 0, every_dt |-> 0,
   fixed_times |-> <<>>, exact_fixed_times |-> FALSE,
   restart_files |-> FALSE, restart_every_dt |-> 0, restart_every_x_steps |-> 1]

WithRestart(options) ==
  {[o EXCEPT !.restart_files = TRUE, !.restart_every_x_steps = n] :
     o \in options, n \in {1, 2}}

BySteps == [NoOutput EXCEPT !.every_x_steps = 2]

ByInterval == {[NoOutput EXCEPT !.every_dt = n] : n \in {2, 3}}

AtFixedTimes ==
  {[NoOutput EXCEPT !.fixed_times = f, !.exact_fixed_times = exact,
                    !.end_exactly_at_final_time = FALSE] :
     f \in {<<1, 2>>, <<2, 4>>, <<3>>, <<1, 3, 4>>}, exact \in BOOLEAN}

InLastStep ==
  {[o EXCEPT !.end_exactly_at_final_time = TRUE] : o \in AtFixedTimes}

RestartByInterval ==
  {[NoOutput EXCEPT !.restart_files = TRUE, !.restart_every_dt = n] :
     n \in {2, 3}}

\* no interruption
MCOutputOptions == {BySteps} \cup ByInterval \cup AtFixedTimes

\* interruptions
MCRestartOptions ==
  WithRestart({NoOutput, BySteps} \cup ByInterval \cup AtFixedTimes
              \cup InLastStep) \cup RestartByInterval

MCOptions == MCOutputOptions \cup MCRestartOptions

\* The hypotheses of the theorems hold of this instance.
ASSUME HypothesesHold == LatestOnly /\ FixedTimesInOrder /\ CutsDoNotCompete
=============================================================================
