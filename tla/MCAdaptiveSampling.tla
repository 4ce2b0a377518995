------------------------- MODULE MCAdaptiveSampling -------------------------
(***************************************************************************)
(* A small instance of AdaptiveSampling: seventeen parameters, of which    *)
(* the even ones may be sampled, so that every midpoint is one of them.    *)
(***************************************************************************)
EXTENDS AdaptiveSampling

MCSamplePoints == {p \in 0 .. 16 : p % 2 = 0}
=============================================================================
