-------------------------- MODULE MCFlowConstraints --------------------------
(* Values of the constants of FlowConstraints for model checking.          *)
EXTENDS FlowConstraints

CONSTANTS s1, s2, n1, n2, c1, c2

MCMeshOf == [c \in Controls |-> IF c = c1 THEN n1 ELSE n2]

\* the deformed mesh has inverted cells at one of the solutions
MCInvalid == {<<s2, n2>>}

\* flow_CFL_ is negative when the full-space step sets it
MCCFLs == {0, -1}
=============================================================================
