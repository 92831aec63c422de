--------------------------- MODULE MCConfigUpdate ---------------------------
(* TLC instances of ConfigUpdate.                                          *)
EXTENDS ConfigUpdate, TLC

CONSTANTS u1

\* Every account belongs to the same user.
OneOwner == [a \in Account |-> u1]

Programs == Permutations(Proc)
=============================================================================
