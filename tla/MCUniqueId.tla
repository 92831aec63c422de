---------------------------- MODULE MCUniqueId -----------------------------
(* TLC instance of UniqueId: three processes, two named counters.  No      *)
(* symmetry, because the run checks a liveness property.                   *)
EXTENDS UniqueId
=============================================================================
