----------------------------- MODULE MCExclUse ------------------------------
(* TLC instance of ExclUse.                                                *)
EXTENDS ExclUse, TLC

Symmetry == Permutations(Proc) \cup Permutations(User)
=============================================================================
