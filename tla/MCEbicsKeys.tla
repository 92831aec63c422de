---------------------------- MODULE MCEbicsKeys -----------------------------
(* TLC instance of EbicsKeys.                                               *)
EXTENDS EbicsKeys, TLC

Programs == Permutations(Proc)
=============================================================================
