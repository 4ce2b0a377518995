----------------------------- MODULE Functional -----------------------------
(***************************************************************************)
(* A functional of the flow (functional/functional.cpp): its value and its *)
(* derivatives, each with the record of the solution and the mesh nodes it *)
(* was last computed at.  evaluate_functional computes only what the       *)
(* record does not have; a derivative is computed together with the value. *)
(*                                                                         *)
(* A value or a derivative is named by the <<solution, nodes>> it is of.   *)
(* A functional keeps its own records while the DG object it was made for  *)
(* is reallocated under it.  At most one derivative is asked for.          *)
(***************************************************************************)
CONSTANT Unset          \* a record of zeros, or a vector that has no values

Computed == {"value", "dIdW", "dIdX", "d2I"}

\* The constructor's init_vectors.
NewFunctional ==
  [at |-> [k \in Computed |-> Unset], holds |-> [k \in Computed |-> Unset]]

need_compute(f, k, d) == f.at[k] # <<d.solution, d.volume_nodes>>

\* evaluate_functional for the DG object d; "asked" is one of the derivatives,
\* or "value".
Evaluate(f, asked, d) ==
  LET at == <<d.solution, d.volume_nodes>>
      needed == {k \in {"value", asked} : need_compute(f, k, d)}
      computed == IF needed = {} THEN {} ELSE needed \cup {"value"}
  IN  [at |-> [k \in Computed |-> IF k \in {"value", asked} THEN at ELSE f.at[k]],
       holds |-> [k \in Computed |-> IF k \in computed THEN at ELSE f.holds[k]]]
=============================================================================
