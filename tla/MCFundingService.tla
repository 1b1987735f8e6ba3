-------------------------- MODULE MCFundingService --------------------------
(***************************************************************************)
(* FundingService for TLC.                                                 *)
(***************************************************************************)
EXTENDS FundingService, TLC

Symmetry == Permutations(Frontends) \cup Permutations(Epochs) \cup Permutations(Docs)

=============================================================================
