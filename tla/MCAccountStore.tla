--------------------------- MODULE MCAccountStore ---------------------------
(* TLC instance of AccountStore.                                            *)
EXTENDS AccountStore, TLC

Symmetries == Permutations(BankAccount) \cup Permutations(Proc)

\* A program that is idle starts its next operation with values of its own.
LiveState ==
    <<store, ids, pc, using, overlap, faults,
      [p \in Proc |-> IF pc[p] = "idle" THEN <<>>
                      ELSE <<uid[p], who[p], aid[p], bank[p], todo[p],
                             names[p], got[p], partial[p]>>]>>
=============================================================================
