----------------------------- MODULE MCLiveSpill -----------------------------
EXTENDS LiveSpill

(* A write of either length; the longer ones of two states exceed the       *)
(* budget.                                                                 *)
TwoSizes == {1, 2}
==============================================================================
