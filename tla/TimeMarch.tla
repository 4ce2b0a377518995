------------------------------ MODULE TimeMarch ------------------------------
(***************************************************************************)
(* What an unsteady computation promises, whatever it writes along the way *)
(* and however often it is interrupted: the times it goes through are      *)
(* given by a rule that looks at the current time only, and after an       *)
(* interruption it goes on from the longest stretch that was saved.        *)
(* FlowSolver is checked to implement this.                                *)
(***************************************************************************)
EXTENDS Integers, Sequences

CONSTANT FinalTime

VARIABLES
  option, step_at,   \* as in FlowSolver
  trajectory,        \* the times gone through, <<>> when not running
  saved              \* the trajectories that can be restarted from

vars == <<option, step_at, trajectory, saved>>

Init ==
  /\ trajectory = <<0>>
  /\ saved = {}

\* The requested times strictly inside a step of that length from t.
Inside(t, step) ==
  {f \in {option.fixed_times[k] : k \in 1 .. Len(option.fixed_times)} :
     t < f /\ f < t + step}

\* A step is cut at the final time, or else at the first requested time inside
\* it.  It needs no memory of which requested times have been served.
NextTime(t) ==
  LET step == step_at[t]
      cuts == IF option.exact_fixed_times THEN Inside(t, step) ELSE {}
  IN  IF t + step > FinalTime /\ option.end_exactly_at_final_time
      THEN FinalTime
      ELSE IF cuts = {} THEN t + step
           ELSE CHOOSE f \in cuts : \A g \in cuts : f <= g

March ==
  /\ trajectory # <<>>
  /\ trajectory[Len(trajectory)] < FinalTime
  /\ trajectory' = Append(trajectory, NextTime(trajectory[Len(trajectory)]))
  /\ UNCHANGED <<option, step_at, saved>>

Save ==
  /\ trajectory # <<>>
  /\ saved' = saved \cup {trajectory}
  /\ UNCHANGED <<option, step_at, trajectory>>

Stop ==
  /\ trajectory' = <<>>
  /\ UNCHANGED <<option, step_at, saved>>

Resume ==
  /\ trajectory = <<>>
  /\ IF saved = {} THEN trajectory' = <<0>>
     ELSE /\ trajectory' \in saved
          /\ \A other \in saved : Len(other) <= Len(trajectory')
  /\ UNCHANGED <<option, step_at, saved>>

Next == March \/ Save \/ Stop \/ Resume

Spec == Init /\ [][Next]_vars
=============================================================================
