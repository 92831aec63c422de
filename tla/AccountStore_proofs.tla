------------------------- MODULE AccountStore_proofs ------------------------
(***************************************************************************)
(* Proofs about AccountStore, for any people, bank accounts, programs and  *)
(* faults: a user is not deleted while an account uses it, and, for        *)
(* programs that work one after another, every account spec leads to an    *)
(* account and describes a bank's account once.                            *)
(***************************************************************************)
EXTENDS AccountStore, TLAPS

-----------------------------------------------------------------------------
(* The inductive invariant.                                                *)

Listing == {"listAccounts", "readAccounts", "delUser"}
Storing == {"modify", "writeAccount", "writeSpec", "readBack", "updateSpec"}

\* An account that has used the user all along is not overlooked: it has yet
\* to be read, was read, or keeps the program from deleting the user.
NotOverlooked(p) ==
    /\ pc[p] \in Listing => using[p] \subseteq UsersOf(accounts, uid[p])
    /\ pc[p] = "readAccounts" =>
          \A a \in using[p] : \/ a \in names[p]
                              \/ partial[p]
                              \/ a \in UsersOf(got[p], uid[p])
    /\ pc[p] = "delUser" => using[p] = {}

\* What is written has an id.
OwnIds(p) ==
    /\ pc[p] \notin {"idle", "delSpec", "delAccount"} => uid[p] \in Id
    /\ pc[p] \in Storing => aid[p] \in Id

\* Without a second program: what is known of the spec an operation writes or
\* has deleted, ...
HasAccount(p) ==
    /\ pc[p] = "updateSpec" => aid[p] \in Ids(accounts)
    /\ pc[p] = "delAccount" => aid[p] \notin Ids(specs)

\* ... and of the specs it has read.
DistinctBanks(table) == \A s, t \in table : s.bank = t.bank => s = t
Known(p) ==
    /\ pc[p] = "readSpecs" =>
          /\ got[p] \subseteq specs
          /\ names[p] \subseteq Ids(specs)
          /\ \A s \in specs : s.id \in names[p] \/ s \in got[p]
          /\ ~partial[p]
    /\ pc[p] \in Storing \cup {"each"} =>
          /\ DistinctBanks(got[p])
          /\ \A s \in specs : s.bank \in todo[p] => s \in got[p]
    /\ pc[p] \in Storing =>
          /\ bank[p] \notin todo[p]
          /\ \A s \in specs : s.bank = bank[p] => s.id = aid[p]

OneAtATime ==
    ~overlap => \A p, q \in Proc : pc[p] # "idle" /\ pc[q] # "idle" => p = q
AccountsInv ==
    ~overlap /\ "delete" \notin faults =>
        Ids(specs) \subseteq Ids(accounts) /\ \A p \in Proc : HasAccount(p)
SpecsInv ==
    ~overlap /\ "read" \notin faults =>
        DistinctBanks(specs) /\ \A p \in Proc : Known(p)

IInv == /\ TypeOK
        /\ \A p \in Proc : OwnIds(p) /\ NotOverlooked(p)
        /\ OneAtATime
        /\ AccountsInv
        /\ SpecsInv

-----------------------------------------------------------------------------
(* Types.                                                                  *)

LEMMA Except ==
    ASSUME NEW S, NEW T, NEW f \in [S -> T], NEW x \in S, NEW v \in T
    PROVE  [f EXCEPT ![x] = v] \in [S -> T] /\ [f EXCEPT ![x] = v][x] = v
OBVIOUS

LEMMA BadIdIsId == BadId \in Id
BY AccountStoreAssumption DEF Id, NoId

LEMMA FaultTypes == ASSUME NEW k, faults \subseteq Fault, Fails(k)
                    PROVE  faults' \subseteq Fault
BY DEF Fails

LEMMA UsersOfType ==
    ASSUME NEW table, NEW u
    PROVE  /\ UsersOf(table, u) \subseteq Ids(table)
           /\ \A a : a \in UsersOf(table, u) <=>
                     \E g \in table : g.id = a /\ g.user = u
BY DEF UsersOf, Ids

LEMMA IdsOf ==
    ASSUME NEW table
    PROVE  \A i : i \in Ids(table) <=> \E g \in table : g.id = i
BY DEF Ids

LEMMA PutIds ==
    ASSUME NEW table, NEW r
    PROVE  Ids(Put(table, r)) = Ids(table) \cup {r.id}
BY DEF Put, Ids

LEMMA RemoveIds ==
    ASSUME NEW table, NEW i
    PROVE  Ids(Remove(table, i)) = Ids(table) \ {i}
BY DEF Remove, Ids

\* The groups, and the variables of the programs.
StoreOK ==
    /\ users \subseteq UserGroup
    /\ accounts \subseteq AccountGroup
    /\ specs \subseteq SpecGroup
    /\ lastUser \in 0..MaxUser /\ lastAccount \in 0..MaxAccount
    /\ faults \subseteq Fault
LocalOK ==
    /\ pc \in [Proc -> PC]
    /\ uid \in [Proc -> Id \cup {NoId}]
    /\ who \in [Proc -> Person]
    /\ aid \in [Proc -> Id \cup {NoId}]
    /\ bank \in [Proc -> BankAccount]
    /\ todo \in [Proc -> SUBSET BankAccount]
    /\ names \in [Proc -> SUBSET Id]
    /\ got \in [Proc -> SUBSET (AccountGroup \cup SpecGroup)]
PartialOK == partial \in [Proc -> BOOLEAN]

LEMMA TypeParts ==
    TypeOK <=> /\ StoreOK /\ LocalOK /\ PartialOK
               /\ using \in [Proc -> SUBSET Id] /\ overlap \in BOOLEAN
BY Zenon DEF TypeOK, StoreOK, LocalOK, PartialOK

LEMMA InvParts ==
    IInv <=> /\ TypeOK
             /\ \A p \in Proc : OwnIds(p)
             /\ \A p \in Proc : NotOverlooked(p)
             /\ OneAtATime /\ AccountsInv /\ SpecsInv
BY DEF IInv

LEMMA TypeStep ==
    ASSUME IInv, NEW p \in Proc, Operation(p)
    PROVE  StoreOK' /\ LocalOK'
<1> USE AccountStoreAssumption
<1>1. StoreOK /\ LocalOK /\ OwnIds(p)
  BY TypeParts DEF IInv
<1>2. /\ \A i \in Ids(users) \cup Ids(accounts) \cup Ids(specs) : i \in Id
      /\ \A s \in got[p] : s.id \in Id
  BY <1>1 DEF StoreOK, LocalOK, Ids, UserGroup, AccountGroup, SpecGroup
<1>3. ASSUME NEW w \in Person, AddUser(p, w)
      PROVE  StoreOK' /\ LocalOK'
  BY <1>1, <1>2, <1>3
  DEF AddUser, Id, NoId,
      store, ids, local, Goto, Set, Returns, StoreOK, LocalOK, PC
<1>4. ASSUME NEW w \in Person, AddUserBadId(p, w)
      PROVE  StoreOK' /\ LocalOK'
  BY <1>1, <1>2, <1>4, FaultTypes, BadIdIsId
  DEF AddUserBadId,
      store, ids, local, Goto, Set, Returns, StoreOK, LocalOK, PC
<1>5. ASSUME WriteUser(p) PROVE StoreOK' /\ LocalOK'
  BY <1>1, <1>2, <1>5
  DEF WriteUser, OwnIds, Storing, Put, UserGroup, AccountGroup, SpecGroup,
      store, ids, local, Goto, Set, Returns, StoreOK, LocalOK, PC
<1>6. ASSUME AddUserFails(p) PROVE StoreOK' /\ LocalOK'
  BY <1>1, <1>2, <1>6, FaultTypes
  DEF AddUserFails,
      store, ids, local, Goto, Set, Returns, StoreOK, LocalOK, PC
<1>7. ASSUME NEW u \in Ids(users), NEW bs \in SUBSET BankAccount, Fetch(p, u, bs)
      PROVE  StoreOK' /\ LocalOK'
  BY <1>1, <1>2, <1>7
  DEF Fetch,
      store, ids, local, Goto, Set, Returns, StoreOK, LocalOK, PC
<1>8. ASSUME ListSpecs(p) PROVE StoreOK' /\ LocalOK'
  BY <1>1, <1>2, <1>8
  DEF ListSpecs, ListGroups,
      store, ids, local, Goto, Set, Returns, StoreOK, LocalOK, PC
<1>9. ASSUME SpecsRead(p) PROVE StoreOK' /\ LocalOK'
  BY <1>1, <1>2, <1>9
  DEF SpecsRead,
      store, ids, local, Goto, Set, Returns, StoreOK, LocalOK, PC
<1>10. ASSUME NEW i \in names[p], ReadSpec(p, i)
      PROVE  StoreOK' /\ LocalOK'
  BY <1>1, <1>2, <1>10
  DEF ReadSpec, ReadGroup,
      store, ids, local, Goto, Set, Returns, StoreOK, LocalOK, PC
<1>11. ASSUME NEW i \in names[p], ReadFails(p, i)
      PROVE  StoreOK' /\ LocalOK'
  BY <1>1, <1>2, <1>11, FaultTypes
  DEF ReadFails,
      store, ids, local, Goto, Set, Returns, StoreOK, LocalOK, PC
<1>12. ASSUME NEW b \in BankAccount, NEW s \in got[p], Modify(p, b, s)
      PROVE  StoreOK' /\ LocalOK'
  BY <1>1, <1>2, <1>12
  DEF Modify, Pick,
      store, ids, local, Goto, Set, Returns, StoreOK, LocalOK, PC
<1>13. ASSUME NEW b \in BankAccount, AddAccount(p, b)
      PROVE  StoreOK' /\ LocalOK'
  BY <1>1, <1>2, <1>13, BadIdIsId
  DEF AddAccount, Pick, Id, NoId, Fails,
      store, ids, local, Goto, Set, Returns, StoreOK, LocalOK, PC
<1>14. ASSUME WriteAccount(p) PROVE StoreOK' /\ LocalOK'
  BY <1>1, <1>2, <1>14
  DEF WriteAccount, OwnIds, Storing, Put, UserGroup, AccountGroup, SpecGroup,
      store, ids, local, Goto, Set, Returns, StoreOK, LocalOK, PC
<1>15. ASSUME WriteSpec(p) PROVE StoreOK' /\ LocalOK'
  BY <1>1, <1>2, <1>15
  DEF WriteSpec, OwnIds, Storing, Put, UserGroup, AccountGroup, SpecGroup,
      store, ids, local, Goto, Set, Returns, StoreOK, LocalOK, PC
<1>16. ASSUME SpecRefused(p) PROVE StoreOK' /\ LocalOK'
  BY <1>1, <1>2, <1>16
  DEF SpecRefused,
      store, ids, local, Goto, Set, Returns, StoreOK, LocalOK, PC
<1>17. ASSUME ReadBack(p) PROVE StoreOK' /\ LocalOK'
  BY <1>1, <1>2, <1>17
  DEF ReadBack,
      store, ids, local, Goto, Set, Returns, StoreOK, LocalOK, PC
<1>18. ASSUME WriteFails(p) PROVE StoreOK' /\ LocalOK'
  BY <1>1, <1>2, <1>18, FaultTypes
  DEF WriteFails,
      store, ids, local, Goto, Set, Returns, StoreOK, LocalOK, PC
<1>19. ASSUME Fetched(p) PROVE StoreOK' /\ LocalOK'
  BY <1>1, <1>2, <1>19
  DEF Fetched,
      store, ids, local, Goto, Set, Returns, StoreOK, LocalOK, PC
<1>20. ASSUME NEW a \in Ids(accounts), DeleteAccount(p, a)
      PROVE  StoreOK' /\ LocalOK'
  BY <1>1, <1>2, <1>20
  DEF DeleteAccount,
      store, ids, local, Goto, Set, Returns, StoreOK, LocalOK, PC
<1>21. ASSUME DeleteSpec(p) PROVE StoreOK' /\ LocalOK'
  BY <1>1, <1>2, <1>21
  DEF DeleteSpec, Remove,
      store, ids, local, Goto, Set, Returns, StoreOK, LocalOK, PC
<1>22. ASSUME DeleteAccountGroup(p) PROVE StoreOK' /\ LocalOK'
  BY <1>1, <1>2, <1>22
  DEF DeleteAccountGroup, Remove,
      store, ids, local, Goto, Set, Returns, StoreOK, LocalOK, PC
<1>23. ASSUME DeleteFails(p) PROVE StoreOK' /\ LocalOK'
  BY <1>1, <1>2, <1>23, FaultTypes
  DEF DeleteFails,
      store, ids, local, Goto, Set, Returns, StoreOK, LocalOK, PC
<1>24. ASSUME NEW u \in Ids(users), DeleteUser(p, u)
      PROVE  StoreOK' /\ LocalOK'
  BY <1>1, <1>2, <1>24
  DEF DeleteUser,
      store, ids, local, Goto, Set, Returns, StoreOK, LocalOK, PC
<1>25. ASSUME ListAccounts(p) PROVE StoreOK' /\ LocalOK'
  BY <1>1, <1>2, <1>25
  DEF ListAccounts, ListGroups,
      store, ids, local, Goto, Set, Returns, StoreOK, LocalOK, PC
<1>26. ASSUME AccountsRead(p) PROVE StoreOK' /\ LocalOK'
  BY <1>1, <1>2, <1>26
  DEF AccountsRead,
      store, ids, local, Goto, Set, Returns, StoreOK, LocalOK, PC
<1>27. ASSUME DeleteUserGroup(p) PROVE StoreOK' /\ LocalOK'
  BY <1>1, <1>2, <1>27
  DEF DeleteUserGroup, Remove,
      store, ids, local, Goto, Set, Returns, StoreOK, LocalOK, PC
<1>28. ASSUME NEW i \in names[p], ReadAccount(p, i)
      PROVE  StoreOK' /\ LocalOK'
  BY <1>1, <1>2, <1>28
  DEF ReadAccount, ReadGroup,
      store, ids, local, Goto, Set, Returns, StoreOK, LocalOK, PC
<1>29. ASSUME Crash(p) PROVE StoreOK' /\ LocalOK'
  BY <1>1, <1>2, <1>29, FaultTypes
  DEF Crash,
      store, ids, local, Goto, Set, Returns, StoreOK, LocalOK, PC
<1> QED
  BY <1>3, <1>4, <1>5, <1>6, <1>7, <1>8, <1>9, <1>10, <1>11, <1>12, <1>13, <1>14, <1>15, <1>16, <1>17, <1>18, <1>19, <1>20, <1>21, <1>22, <1>23, <1>24, <1>25, <1>26, <1>27, <1>28, <1>29
  DEF Operation

\* The only Boolean variable of a program; an unreadable group sets it.
LEMMA ReadPartial ==
    ASSUME PartialOK, NEW p \in Proc, NEW table, NEW i, ReadGroup(p, table, i)
    PROVE  /\ PartialOK'
           /\ partial[p] => partial'[p]
           /\ i \in Ids(table) /\ ~partial[p] => ~partial'[p]
           /\ \A q \in Proc \ {p} : partial'[q] = partial[q]
<1> DEFINE v == partial[p] \/ i \notin Ids(table)
<1>1. partial' = partial \/ partial' = [partial EXCEPT ![p] = v]
  BY Zenon DEF ReadGroup, Set
<1>2. v \in BOOLEAN
  BY Zenon
<1>3. (partial[p] => v) /\ (i \in Ids(table) /\ ~partial[p] => ~v)
  OBVIOUS
<1> HIDE DEF v
<1>4. CASE partial' = partial
  BY <1>4, Zenon DEF PartialOK
<1>5. CASE partial' = [partial EXCEPT ![p] = v]
  <2>1. PartialOK' /\ partial'[p] = v
    BY <1>2, <1>5, Except, Zenon DEF PartialOK
  <2>2. \A q \in Proc \ {p} : partial'[q] = partial[q]
    BY <1>5, Zenon DEF PartialOK
  <2> QED
    BY <1>3, <2>1, <2>2, Zenon
<1> QED
  BY <1>1, <1>4, <1>5

LEMMA SetPartial ==
    ASSUME PartialOK, NEW p \in Proc, NEW v \in BOOLEAN,
           partial' = Set(partial, p, v)
    PROVE  /\ PartialOK' /\ partial'[p] = v
           /\ \A q \in Proc \ {p} : partial'[q] = partial[q]
<1>1. PartialOK' /\ partial'[p] = v
  BY Except, Zenon DEF Set, PartialOK
<1>2. \A q \in Proc \ {p} : partial'[q] = partial[q]
  BY Zenon DEF Set, PartialOK
<1> QED
  BY <1>1, <1>2

LEMMA PartialStep ==
    ASSUME IInv, NEW p \in Proc, Operation(p)
    PROVE  PartialOK' /\ \A q \in Proc \ {p} : partial'[q] = partial[q]
<1>1. PartialOK
  BY TypeParts DEF IInv
<1>2. ASSUME NEW w \in Person, AddUser(p, w)
      PROVE  PartialOK' /\ \A q \in Proc \ {p} : partial'[q] = partial[q]
  BY <1>1, <1>2, Zenon DEF AddUser, local, PartialOK
<1>3. ASSUME NEW w \in Person, AddUserBadId(p, w)
      PROVE  PartialOK' /\ \A q \in Proc \ {p} : partial'[q] = partial[q]
  BY <1>1, <1>3, Zenon DEF AddUserBadId, local, PartialOK
<1>4. ASSUME WriteUser(p) PROVE PartialOK' /\ \A q \in Proc \ {p} : partial'[q] = partial[q]
  BY <1>1, <1>4, Zenon DEF WriteUser, local, PartialOK
<1>5. ASSUME AddUserFails(p) PROVE PartialOK' /\ \A q \in Proc \ {p} : partial'[q] = partial[q]
  BY <1>1, <1>5, Zenon DEF AddUserFails, local, PartialOK
<1>6. ASSUME NEW u \in Ids(users), NEW bs \in SUBSET BankAccount, Fetch(p, u, bs)
      PROVE  PartialOK' /\ \A q \in Proc \ {p} : partial'[q] = partial[q]
  BY <1>1, <1>6, Zenon DEF Fetch, local, PartialOK
<1>7. ASSUME ListSpecs(p) PROVE PartialOK' /\ \A q \in Proc \ {p} : partial'[q] = partial[q]
  BY <1>1, <1>7, SetPartial, Zenon DEF ListSpecs, ListGroups
<1>8. ASSUME SpecsRead(p) PROVE PartialOK' /\ \A q \in Proc \ {p} : partial'[q] = partial[q]
  BY <1>1, <1>8, Zenon DEF SpecsRead, local, PartialOK
<1>9. ASSUME NEW i \in names[p], ReadSpec(p, i)
      PROVE  PartialOK' /\ \A q \in Proc \ {p} : partial'[q] = partial[q]
  BY <1>1, <1>9, ReadPartial, Zenon DEF ReadSpec
<1>10. ASSUME NEW i \in names[p], ReadFails(p, i)
      PROVE  PartialOK' /\ \A q \in Proc \ {p} : partial'[q] = partial[q]
  BY <1>1, <1>10, SetPartial, Zenon DEF ReadFails
<1>11. ASSUME NEW b \in BankAccount, NEW s \in got[p], Modify(p, b, s)
      PROVE  PartialOK' /\ \A q \in Proc \ {p} : partial'[q] = partial[q]
  BY <1>1, <1>11, Zenon DEF Modify, Pick, local, PartialOK
<1>12. ASSUME NEW b \in BankAccount, AddAccount(p, b)
      PROVE  PartialOK' /\ \A q \in Proc \ {p} : partial'[q] = partial[q]
  BY <1>1, <1>12, Zenon DEF AddAccount, Pick, local, PartialOK
<1>13. ASSUME WriteAccount(p) PROVE PartialOK' /\ \A q \in Proc \ {p} : partial'[q] = partial[q]
  BY <1>1, <1>13, Zenon DEF WriteAccount, local, PartialOK
<1>14. ASSUME WriteSpec(p) PROVE PartialOK' /\ \A q \in Proc \ {p} : partial'[q] = partial[q]
  BY <1>1, <1>14, Zenon DEF WriteSpec, local, PartialOK
<1>15. ASSUME SpecRefused(p) PROVE PartialOK' /\ \A q \in Proc \ {p} : partial'[q] = partial[q]
  BY <1>1, <1>15, Zenon DEF SpecRefused, local, PartialOK
<1>16. ASSUME ReadBack(p) PROVE PartialOK' /\ \A q \in Proc \ {p} : partial'[q] = partial[q]
  BY <1>1, <1>16, Zenon DEF ReadBack, local, PartialOK
<1>17. ASSUME WriteFails(p) PROVE PartialOK' /\ \A q \in Proc \ {p} : partial'[q] = partial[q]
  BY <1>1, <1>17, Zenon DEF WriteFails, local, PartialOK
<1>18. ASSUME Fetched(p) PROVE PartialOK' /\ \A q \in Proc \ {p} : partial'[q] = partial[q]
  BY <1>1, <1>18, Zenon DEF Fetched, local, PartialOK
<1>19. ASSUME NEW a \in Ids(accounts), DeleteAccount(p, a)
      PROVE  PartialOK' /\ \A q \in Proc \ {p} : partial'[q] = partial[q]
  BY <1>1, <1>19, Zenon DEF DeleteAccount, local, PartialOK
<1>20. ASSUME DeleteSpec(p) PROVE PartialOK' /\ \A q \in Proc \ {p} : partial'[q] = partial[q]
  BY <1>1, <1>20, Zenon DEF DeleteSpec, local, PartialOK
<1>21. ASSUME DeleteAccountGroup(p) PROVE PartialOK' /\ \A q \in Proc \ {p} : partial'[q] = partial[q]
  BY <1>1, <1>21, Zenon DEF DeleteAccountGroup, local, PartialOK
<1>22. ASSUME DeleteFails(p) PROVE PartialOK' /\ \A q \in Proc \ {p} : partial'[q] = partial[q]
  BY <1>1, <1>22, Zenon DEF DeleteFails, local, PartialOK
<1>23. ASSUME NEW u \in Ids(users), DeleteUser(p, u)
      PROVE  PartialOK' /\ \A q \in Proc \ {p} : partial'[q] = partial[q]
  BY <1>1, <1>23, Zenon DEF DeleteUser, local, PartialOK
<1>24. ASSUME ListAccounts(p) PROVE PartialOK' /\ \A q \in Proc \ {p} : partial'[q] = partial[q]
  BY <1>1, <1>24, SetPartial, Zenon DEF ListAccounts, ListGroups
<1>25. ASSUME AccountsRead(p) PROVE PartialOK' /\ \A q \in Proc \ {p} : partial'[q] = partial[q]
  BY <1>1, <1>25, Zenon DEF AccountsRead, local, PartialOK
<1>26. ASSUME DeleteUserGroup(p) PROVE PartialOK' /\ \A q \in Proc \ {p} : partial'[q] = partial[q]
  BY <1>1, <1>26, Zenon DEF DeleteUserGroup, local, PartialOK
<1>27. ASSUME NEW i \in names[p], ReadAccount(p, i)
      PROVE  PartialOK' /\ \A q \in Proc \ {p} : partial'[q] = partial[q]
  BY <1>1, <1>27, ReadPartial, Zenon DEF ReadAccount
<1>28. ASSUME Crash(p) PROVE PartialOK' /\ \A q \in Proc \ {p} : partial'[q] = partial[q]
  BY <1>1, <1>28, Zenon DEF Crash, local, PartialOK
<1> QED
  BY <1>2, <1>3, <1>4, <1>5, <1>6, <1>7, <1>8, <1>9, <1>10, <1>11, <1>12, <1>13, <1>14, <1>15, <1>16, <1>17, <1>18, <1>19, <1>20, <1>21, <1>22, <1>23, <1>24, <1>25, <1>26, <1>27, <1>28
  DEF Operation

\* What the other programs know is theirs.
OthersKeep(p) ==
    \A q \in Proc \ {p} : /\ pc'[q] = pc[q] /\ uid'[q] = uid[q] /\ aid'[q] = aid[q]
                           /\ bank'[q] = bank[q] /\ todo'[q] = todo[q]
                           /\ names'[q] = names[q] /\ got'[q] = got[q]

LEMMA FrameStep ==
    ASSUME IInv, NEW p \in Proc, Operation(p)
    PROVE  OthersKeep(p)
<1>1. LocalOK
  BY TypeParts DEF IInv
<1>2. ASSUME NEW w \in Person, AddUser(p, w)
      PROVE  OthersKeep(p)
  BY <1>1, <1>2
  DEF AddUser, store, ids, local, Goto, Set, Returns, LocalOK, OthersKeep
<1>3. ASSUME NEW w \in Person, AddUserBadId(p, w)
      PROVE  OthersKeep(p)
  BY <1>1, <1>3
  DEF AddUserBadId, store, ids, local, Goto, Set, Returns, LocalOK, OthersKeep
<1>4. ASSUME WriteUser(p) PROVE OthersKeep(p)
  BY <1>1, <1>4
  DEF WriteUser, store, ids, local, Goto, Set, Returns, LocalOK, OthersKeep
<1>5. ASSUME AddUserFails(p) PROVE OthersKeep(p)
  BY <1>1, <1>5
  DEF AddUserFails, store, ids, local, Goto, Set, Returns, LocalOK, OthersKeep
<1>6. ASSUME NEW u \in Ids(users), NEW bs \in SUBSET BankAccount, Fetch(p, u, bs)
      PROVE  OthersKeep(p)
  BY <1>1, <1>6
  DEF Fetch, store, ids, local, Goto, Set, Returns, LocalOK, OthersKeep
<1>7. ASSUME ListSpecs(p) PROVE OthersKeep(p)
  BY <1>1, <1>7
  DEF ListSpecs, ListGroups, store, ids, local, Goto, Set, Returns, LocalOK, OthersKeep
<1>8. ASSUME SpecsRead(p) PROVE OthersKeep(p)
  BY <1>1, <1>8
  DEF SpecsRead, store, ids, local, Goto, Set, Returns, LocalOK, OthersKeep
<1>9. ASSUME NEW i \in names[p], ReadSpec(p, i)
      PROVE  OthersKeep(p)
  BY <1>1, <1>9
  DEF ReadSpec, ReadGroup, store, ids, local, Goto, Set, Returns, LocalOK, OthersKeep
<1>10. ASSUME NEW i \in names[p], ReadFails(p, i)
      PROVE  OthersKeep(p)
  BY <1>1, <1>10
  DEF ReadFails, store, ids, local, Goto, Set, Returns, LocalOK, OthersKeep
<1>11. ASSUME NEW b \in BankAccount, NEW s \in got[p], Modify(p, b, s)
      PROVE  OthersKeep(p)
  BY <1>1, <1>11
  DEF Modify, Pick, store, ids, local, Goto, Set, Returns, LocalOK, OthersKeep
<1>12. ASSUME NEW b \in BankAccount, AddAccount(p, b)
      PROVE  OthersKeep(p)
  BY <1>1, <1>12
  DEF AddAccount, Pick, store, ids, local, Goto, Set, Returns, LocalOK, OthersKeep
<1>13. ASSUME WriteAccount(p) PROVE OthersKeep(p)
  BY <1>1, <1>13
  DEF WriteAccount, store, ids, local, Goto, Set, Returns, LocalOK, OthersKeep
<1>14. ASSUME WriteSpec(p) PROVE OthersKeep(p)
  BY <1>1, <1>14
  DEF WriteSpec, store, ids, local, Goto, Set, Returns, LocalOK, OthersKeep
<1>15. ASSUME SpecRefused(p) PROVE OthersKeep(p)
  BY <1>1, <1>15
  DEF SpecRefused, store, ids, local, Goto, Set, Returns, LocalOK, OthersKeep
<1>16. ASSUME ReadBack(p) PROVE OthersKeep(p)
  BY <1>1, <1>16
  DEF ReadBack, store, ids, local, Goto, Set, Returns, LocalOK, OthersKeep
<1>17. ASSUME WriteFails(p) PROVE OthersKeep(p)
  BY <1>1, <1>17
  DEF WriteFails, store, ids, local, Goto, Set, Returns, LocalOK, OthersKeep
<1>18. ASSUME Fetched(p) PROVE OthersKeep(p)
  BY <1>1, <1>18
  DEF Fetched, store, ids, local, Goto, Set, Returns, LocalOK, OthersKeep
<1>19. ASSUME NEW a \in Ids(accounts), DeleteAccount(p, a)
      PROVE  OthersKeep(p)
  BY <1>1, <1>19
  DEF DeleteAccount, store, ids, local, Goto, Set, Returns, LocalOK, OthersKeep
<1>20. ASSUME DeleteSpec(p) PROVE OthersKeep(p)
  BY <1>1, <1>20
  DEF DeleteSpec, store, ids, local, Goto, Set, Returns, LocalOK, OthersKeep
<1>21. ASSUME DeleteAccountGroup(p) PROVE OthersKeep(p)
  BY <1>1, <1>21
  DEF DeleteAccountGroup, store, ids, local, Goto, Set, Returns, LocalOK, OthersKeep
<1>22. ASSUME DeleteFails(p) PROVE OthersKeep(p)
  BY <1>1, <1>22
  DEF DeleteFails, store, ids, local, Goto, Set, Returns, LocalOK, OthersKeep
<1>23. ASSUME NEW u \in Ids(users), DeleteUser(p, u)
      PROVE  OthersKeep(p)
  BY <1>1, <1>23
  DEF DeleteUser, store, ids, local, Goto, Set, Returns, LocalOK, OthersKeep
<1>24. ASSUME ListAccounts(p) PROVE OthersKeep(p)
  BY <1>1, <1>24
  DEF ListAccounts, ListGroups, store, ids, local, Goto, Set, Returns, LocalOK, OthersKeep
<1>25. ASSUME AccountsRead(p) PROVE OthersKeep(p)
  BY <1>1, <1>25
  DEF AccountsRead, store, ids, local, Goto, Set, Returns, LocalOK, OthersKeep
<1>26. ASSUME DeleteUserGroup(p) PROVE OthersKeep(p)
  BY <1>1, <1>26
  DEF DeleteUserGroup, store, ids, local, Goto, Set, Returns, LocalOK, OthersKeep
<1>27. ASSUME NEW i \in names[p], ReadAccount(p, i)
      PROVE  OthersKeep(p)
  BY <1>1, <1>27
  DEF ReadAccount, ReadGroup, store, ids, local, Goto, Set, Returns, LocalOK, OthersKeep
<1>28. ASSUME Crash(p) PROVE OthersKeep(p)
  BY <1>1, <1>28
  DEF Crash, store, ids, local, Goto, Set, Returns, LocalOK, OthersKeep
<1> QED
  BY <1>2, <1>3, <1>4, <1>5, <1>6, <1>7, <1>8, <1>9, <1>10, <1>11, <1>12, <1>13, <1>14, <1>15, <1>16, <1>17, <1>18, <1>19, <1>20, <1>21, <1>22, <1>23, <1>24, <1>25, <1>26, <1>27, <1>28
  DEF Operation

LEMMA FaultsGrow ==
    ASSUME IInv, NEW p \in Proc, Operation(p)
    PROVE  faults \subseteq faults'
<1>1. ASSUME NEW w \in Person, AddUser(p, w)
      PROVE  faults \subseteq faults'
  BY <1>1
  DEF AddUser, Fails
<1>2. ASSUME NEW w \in Person, AddUserBadId(p, w)
      PROVE  faults \subseteq faults'
  BY <1>2
  DEF AddUserBadId, Fails
<1>3. ASSUME WriteUser(p) PROVE faults \subseteq faults'
  BY <1>3
  DEF WriteUser, Fails
<1>4. ASSUME AddUserFails(p) PROVE faults \subseteq faults'
  BY <1>4
  DEF AddUserFails, Fails
<1>5. ASSUME NEW u \in Ids(users), NEW bs \in SUBSET BankAccount, Fetch(p, u, bs)
      PROVE  faults \subseteq faults'
  BY <1>5
  DEF Fetch, Fails
<1>6. ASSUME ListSpecs(p) PROVE faults \subseteq faults'
  BY <1>6
  DEF ListSpecs, ListGroups, Fails
<1>7. ASSUME SpecsRead(p) PROVE faults \subseteq faults'
  BY <1>7
  DEF SpecsRead, Fails
<1>8. ASSUME NEW i \in names[p], ReadSpec(p, i)
      PROVE  faults \subseteq faults'
  BY <1>8
  DEF ReadSpec, ReadGroup, Fails
<1>9. ASSUME NEW i \in names[p], ReadFails(p, i)
      PROVE  faults \subseteq faults'
  BY <1>9
  DEF ReadFails, Fails
<1>10. ASSUME NEW b \in BankAccount, NEW s \in got[p], Modify(p, b, s)
      PROVE  faults \subseteq faults'
  BY <1>10
  DEF Modify, Pick, Fails
<1>11. ASSUME NEW b \in BankAccount, AddAccount(p, b)
      PROVE  faults \subseteq faults'
  BY <1>11
  DEF AddAccount, Pick, Fails
<1>12. ASSUME WriteAccount(p) PROVE faults \subseteq faults'
  BY <1>12
  DEF WriteAccount, Fails
<1>13. ASSUME WriteSpec(p) PROVE faults \subseteq faults'
  BY <1>13
  DEF WriteSpec, Fails
<1>14. ASSUME SpecRefused(p) PROVE faults \subseteq faults'
  BY <1>14
  DEF SpecRefused, Fails
<1>15. ASSUME ReadBack(p) PROVE faults \subseteq faults'
  BY <1>15
  DEF ReadBack, Fails
<1>16. ASSUME WriteFails(p) PROVE faults \subseteq faults'
  BY <1>16
  DEF WriteFails, Fails
<1>17. ASSUME Fetched(p) PROVE faults \subseteq faults'
  BY <1>17
  DEF Fetched, Fails
<1>18. ASSUME NEW a \in Ids(accounts), DeleteAccount(p, a)
      PROVE  faults \subseteq faults'
  BY <1>18
  DEF DeleteAccount, Fails
<1>19. ASSUME DeleteSpec(p) PROVE faults \subseteq faults'
  BY <1>19
  DEF DeleteSpec, Fails
<1>20. ASSUME DeleteAccountGroup(p) PROVE faults \subseteq faults'
  BY <1>20
  DEF DeleteAccountGroup, Fails
<1>21. ASSUME DeleteFails(p) PROVE faults \subseteq faults'
  BY <1>21
  DEF DeleteFails, Fails
<1>22. ASSUME NEW u \in Ids(users), DeleteUser(p, u)
      PROVE  faults \subseteq faults'
  BY <1>22
  DEF DeleteUser, Fails
<1>23. ASSUME ListAccounts(p) PROVE faults \subseteq faults'
  BY <1>23
  DEF ListAccounts, ListGroups, Fails
<1>24. ASSUME AccountsRead(p) PROVE faults \subseteq faults'
  BY <1>24
  DEF AccountsRead, Fails
<1>25. ASSUME DeleteUserGroup(p) PROVE faults \subseteq faults'
  BY <1>25
  DEF DeleteUserGroup, Fails
<1>26. ASSUME NEW i \in names[p], ReadAccount(p, i)
      PROVE  faults \subseteq faults'
  BY <1>26
  DEF ReadAccount, ReadGroup, Fails
<1>27. ASSUME Crash(p) PROVE faults \subseteq faults'
  BY <1>27
  DEF Crash, Fails
<1> QED
  BY <1>1, <1>2, <1>3, <1>4, <1>5, <1>6, <1>7, <1>8, <1>9, <1>10, <1>11, <1>12, <1>13, <1>14, <1>15, <1>16, <1>17, <1>18, <1>19, <1>20, <1>21, <1>22, <1>23, <1>24, <1>25, <1>26, <1>27
  DEF Operation

LEMMA OwnIdsStep ==
    ASSUME IInv, NEW p \in Proc, Operation(p)
    PROVE  OwnIds(p)'
<1>1. LocalOK /\ OwnIds(p)
  BY TypeParts DEF IInv
<1>2. /\ \A i \in Ids(users) : i \in Id
      /\ \A s \in got[p] : s.id \in Id
  BY TypeParts DEF IInv, StoreOK, LocalOK, Ids, UserGroup, AccountGroup, SpecGroup
<1>3. lastUser \in Nat /\ lastAccount \in Nat /\ \A n \in Nat : n + 1 \in Id
  BY TypeParts, AccountStoreAssumption DEF IInv, StoreOK, Id, NoId
<1>4. ASSUME NEW w \in Person, AddUser(p, w)
      PROVE  OwnIds(p)'
  BY <1>1, <1>2, <1>3, <1>4
  DEF AddUser, local, ids, Goto, Set, Returns, LocalOK, OwnIds, Storing, PC
<1>5. ASSUME NEW w \in Person, AddUserBadId(p, w)
      PROVE  OwnIds(p)'
  BY <1>1, <1>2, <1>3, <1>5, BadIdIsId
  DEF AddUserBadId, local, ids, Goto, Set, Returns, LocalOK, OwnIds, Storing, PC
<1>6. ASSUME WriteUser(p) PROVE OwnIds(p)'
  BY <1>1, <1>2, <1>3, <1>6
  DEF WriteUser, local, ids, Goto, Set, Returns, LocalOK, OwnIds, Storing, PC
<1>7. ASSUME AddUserFails(p) PROVE OwnIds(p)'
  BY <1>1, <1>2, <1>3, <1>7
  DEF AddUserFails, local, ids, Goto, Set, Returns, LocalOK, OwnIds, Storing, PC
<1>8. ASSUME NEW u \in Ids(users), NEW bs \in SUBSET BankAccount, Fetch(p, u, bs)
      PROVE  OwnIds(p)'
  BY <1>1, <1>2, <1>3, <1>8
  DEF Fetch, local, ids, Goto, Set, Returns, LocalOK, OwnIds, Storing, PC
<1>9. ASSUME ListSpecs(p) PROVE OwnIds(p)'
  BY <1>1, <1>2, <1>3, <1>9
  DEF ListSpecs, ListGroups, local, ids, Goto, Set, Returns, LocalOK, OwnIds, Storing, PC
<1>10. ASSUME SpecsRead(p) PROVE OwnIds(p)'
  BY <1>1, <1>2, <1>3, <1>10
  DEF SpecsRead, local, ids, Goto, Set, Returns, LocalOK, OwnIds, Storing, PC
<1>11. ASSUME NEW i \in names[p], ReadSpec(p, i)
      PROVE  OwnIds(p)'
  BY <1>1, <1>2, <1>3, <1>11
  DEF ReadSpec, ReadGroup, local, ids, Goto, Set, Returns, LocalOK, OwnIds, Storing, PC
<1>12. ASSUME NEW i \in names[p], ReadFails(p, i)
      PROVE  OwnIds(p)'
  BY <1>1, <1>2, <1>3, <1>12
  DEF ReadFails, local, ids, Goto, Set, Returns, LocalOK, OwnIds, Storing, PC
<1>13. ASSUME NEW b \in BankAccount, NEW s \in got[p], Modify(p, b, s)
      PROVE  OwnIds(p)'
  BY <1>1, <1>2, <1>3, <1>13
  DEF Modify, Pick, local, ids, Goto, Set, Returns, LocalOK, OwnIds, Storing, PC
<1>14. ASSUME NEW b \in BankAccount, AddAccount(p, b)
      PROVE  OwnIds(p)'
  BY <1>1, <1>2, <1>3, <1>14, BadIdIsId
  DEF AddAccount, Pick, local, ids, Goto, Set, Returns, LocalOK, OwnIds, Storing, PC
<1>15. ASSUME WriteAccount(p) PROVE OwnIds(p)'
  BY <1>1, <1>2, <1>3, <1>15
  DEF WriteAccount, local, ids, Goto, Set, Returns, LocalOK, OwnIds, Storing, PC
<1>16. ASSUME WriteSpec(p) PROVE OwnIds(p)'
  BY <1>1, <1>2, <1>3, <1>16
  DEF WriteSpec, local, ids, Goto, Set, Returns, LocalOK, OwnIds, Storing, PC
<1>17. ASSUME SpecRefused(p) PROVE OwnIds(p)'
  BY <1>1, <1>2, <1>3, <1>17
  DEF SpecRefused, local, ids, Goto, Set, Returns, LocalOK, OwnIds, Storing, PC
<1>18. ASSUME ReadBack(p) PROVE OwnIds(p)'
  BY <1>1, <1>2, <1>3, <1>18
  DEF ReadBack, local, ids, Goto, Set, Returns, LocalOK, OwnIds, Storing, PC
<1>19. ASSUME WriteFails(p) PROVE OwnIds(p)'
  BY <1>1, <1>2, <1>3, <1>19
  DEF WriteFails, local, ids, Goto, Set, Returns, LocalOK, OwnIds, Storing, PC
<1>20. ASSUME Fetched(p) PROVE OwnIds(p)'
  BY <1>1, <1>2, <1>3, <1>20
  DEF Fetched, local, ids, Goto, Set, Returns, LocalOK, OwnIds, Storing, PC
<1>21. ASSUME NEW a \in Ids(accounts), DeleteAccount(p, a)
      PROVE  OwnIds(p)'
  BY <1>1, <1>2, <1>3, <1>21
  DEF DeleteAccount, local, ids, Goto, Set, Returns, LocalOK, OwnIds, Storing, PC
<1>22. ASSUME DeleteSpec(p) PROVE OwnIds(p)'
  BY <1>1, <1>2, <1>3, <1>22
  DEF DeleteSpec, local, ids, Goto, Set, Returns, LocalOK, OwnIds, Storing, PC
<1>23. ASSUME DeleteAccountGroup(p) PROVE OwnIds(p)'
  BY <1>1, <1>2, <1>3, <1>23
  DEF DeleteAccountGroup, local, ids, Goto, Set, Returns, LocalOK, OwnIds, Storing, PC
<1>24. ASSUME DeleteFails(p) PROVE OwnIds(p)'
  BY <1>1, <1>2, <1>3, <1>24
  DEF DeleteFails, local, ids, Goto, Set, Returns, LocalOK, OwnIds, Storing, PC
<1>25. ASSUME NEW u \in Ids(users), DeleteUser(p, u)
      PROVE  OwnIds(p)'
  BY <1>1, <1>2, <1>3, <1>25
  DEF DeleteUser, local, ids, Goto, Set, Returns, LocalOK, OwnIds, Storing, PC
<1>26. ASSUME ListAccounts(p) PROVE OwnIds(p)'
  BY <1>1, <1>2, <1>3, <1>26
  DEF ListAccounts, ListGroups, local, ids, Goto, Set, Returns, LocalOK, OwnIds, Storing, PC
<1>27. ASSUME AccountsRead(p) PROVE OwnIds(p)'
  BY <1>1, <1>2, <1>3, <1>27
  DEF AccountsRead, local, ids, Goto, Set, Returns, LocalOK, OwnIds, Storing, PC
<1>28. ASSUME DeleteUserGroup(p) PROVE OwnIds(p)'
  BY <1>1, <1>2, <1>3, <1>28
  DEF DeleteUserGroup, local, ids, Goto, Set, Returns, LocalOK, OwnIds, Storing, PC
<1>29. ASSUME NEW i \in names[p], ReadAccount(p, i)
      PROVE  OwnIds(p)'
  BY <1>1, <1>2, <1>3, <1>29
  DEF ReadAccount, ReadGroup, local, ids, Goto, Set, Returns, LocalOK, OwnIds, Storing, PC
<1>30. ASSUME Crash(p) PROVE OwnIds(p)'
  BY <1>1, <1>2, <1>3, <1>30
  DEF Crash, local, ids, Goto, Set, Returns, LocalOK, OwnIds, Storing, PC
<1> QED
  BY <1>4, <1>5, <1>6, <1>7, <1>8, <1>9, <1>10, <1>11, <1>12, <1>13, <1>14, <1>15, <1>16, <1>17, <1>18, <1>19, <1>20, <1>21, <1>22, <1>23, <1>24, <1>25, <1>26, <1>27, <1>28, <1>29, <1>30
  DEF Operation

-----------------------------------------------------------------------------
(* A user that is used is not overlooked.                                  *)

LEMMA HistoryStep ==
    ASSUME KeepsHistory, NEW q \in Proc
    PROVE  /\ pc'[q] \notin Listing => using'[q] = {}
           /\ pc'[q] \in Listing => using'[q] \subseteq UsersOf(accounts', uid'[q])
           /\ pc'[q] \in Listing /\ pc[q] # "idle" => using'[q] \subseteq using[q]
BY DEF KeepsHistory, Listing

LEMMA OverlookedStep ==
    ASSUME IInv, NEW p \in Proc, Operation(p), KeepsHistory, NEW q \in Proc
    PROVE  NotOverlooked(q)'
<1>1. LocalOK /\ PartialOK /\ PartialOK' /\ OthersKeep(p) /\ NotOverlooked(q)
      /\ \A r \in Proc \ {p} : partial'[r] = partial[r]
  BY TypeParts, PartialStep, FrameStep DEF IInv
<1>2. /\ pc'[q] \notin Listing => using'[q] = {}
      /\ pc'[q] \in Listing => using'[q] \subseteq UsersOf(accounts', uid'[q])
      /\ pc'[q] \in Listing /\ pc[q] # "idle" => using'[q] \subseteq using[q]
  BY HistoryStep
<1>3. CASE pc'[q] \notin Listing
  BY <1>3 DEF NotOverlooked, Listing
<1>4. CASE q # p /\ pc'[q] \in Listing
  <2>1. /\ pc'[q] = pc[q] /\ uid'[q] = uid[q] /\ names'[q] = names[q]
        /\ got'[q] = got[q] /\ partial'[q] = partial[q]
    BY <1>1, <1>4 DEF OthersKeep
  <2>2. pc[q] # "idle"
    BY <1>4, <2>1 DEF Listing
  <2> QED
    BY <1>1, <1>2, <1>4, <2>1, <2>2 DEF NotOverlooked, UsersOf
<1>5. CASE q = p /\ pc'[p] \in Listing
  <2>1. CASE \E u \in Ids(users) : DeleteUser(p, u)
    <3>1. pc'[p] = "listAccounts"
      BY <1>1, <2>1 DEF DeleteUser, Goto, LocalOK
    <3> QED
      BY <1>2, <1>5, <3>1 DEF NotOverlooked
  <2>2. CASE ListAccounts(p)
    <3>1. /\ pc'[p] = "readAccounts" /\ pc[p] = "listAccounts"
          /\ names'[p] = Ids(accounts) /\ accounts' = accounts
      BY <1>1, <2>2 DEF ListAccounts, ListGroups, Goto, Set, LocalOK, store
    <3>2. using'[p] \subseteq names'[p]
      BY <1>2, <1>5, <3>1, UsersOfType
    <3> QED
      BY <1>2, <1>5, <3>1, <3>2 DEF NotOverlooked
  <2>3. ASSUME NEW i \in names[p], ReadAccount(p, i) PROVE NotOverlooked(p)'
    <3>1. /\ pc[p] = "readAccounts" /\ UNCHANGED <<pc, uid, accounts>>
          /\ names'[p] = names[p] \ {i}
          /\ got'[p] = got[p] \cup {g \in accounts : g.id = i}
      BY <1>1, <2>3 DEF ReadAccount, ReadGroup, Set, LocalOK, store
    <3>2. partial[p] => partial'[p]
      BY <1>1, <2>3, ReadPartial DEF ReadAccount
    <3>3. ASSUME NEW a \in using'[p], a \notin names'[p], ~partial'[p]
          PROVE  a \in UsersOf(got'[p], uid'[p])
      <4>1. a \in using[p] /\ a \in UsersOf(accounts, uid[p])
        BY <1>2, <1>5, <3>1, <3>3
      <4>2. CASE a = i
        <5>1. PICK g \in accounts : g.id = a /\ g.user = uid[p]
          BY <4>1, UsersOfType
        <5> QED
          BY <3>1, <4>2, <5>1, UsersOfType
      <4>3. CASE a # i
        <5>1. a \in UsersOf(got[p], uid[p])
          BY <1>1, <1>5, <3>1, <3>2, <3>3, <4>1, <4>3 DEF NotOverlooked
        <5> QED
          BY <3>1, <5>1, UsersOfType
      <4> QED
        BY <4>2, <4>3
    <3> QED
      BY <1>2, <1>5, <3>1, <3>3 DEF NotOverlooked
  <2>4. ASSUME NEW i \in names[p], ReadFails(p, i) PROVE NotOverlooked(p)'
    <3>1. partial'[p] = TRUE
      BY <1>1, <2>4, SetPartial, Zenon DEF ReadFails
    <3>2. pc[p] \in {"readSpecs", "readAccounts"} /\ pc' = pc
      BY <2>4 DEF ReadFails
    <3> QED
      BY <1>2, <1>5, <3>1, <3>2 DEF NotOverlooked, Listing
  <2>5. CASE AccountsRead(p)
    <3>1. /\ pc[p] = "readAccounts" /\ names[p] = {} /\ UNCHANGED <<uid, got, accounts>>
          /\ pc'[p] = "delUser" => ~partial[p] /\ UsersOf(got[p], uid[p]) = {}
      BY <1>1, <2>5 DEF AccountsRead, Goto, Returns, LocalOK, local, store
    <3>2. pc'[p] = "delUser"
      BY <1>1, <1>5, <2>5 DEF AccountsRead, Goto, Returns, LocalOK, Listing
    <3>3. using'[p] = {}
      <4>1. using[p] = {}
        BY <1>1, <1>5, <3>1, <3>2 DEF NotOverlooked
      <4> QED
        BY <1>2, <1>5, <3>1, <4>1
    <3> QED
      BY <1>2, <1>5, <3>2, <3>3 DEF NotOverlooked
  <2>6. CASE /\ \A u \in Ids(users) : ~DeleteUser(p, u)
             /\ ~ListAccounts(p) /\ ~AccountsRead(p)
             /\ \A i \in names[p] : ~ReadAccount(p, i) /\ ~ReadFails(p, i)
    BY <1>1, <1>5, <2>6
    DEF Operation, AddUser, AddUserBadId, WriteUser, AddUserFails, Fetch,
        ListSpecs, ListGroups, SpecsRead, ReadSpec, ReadGroup, Modify,
        AddAccount, WriteAccount, WriteSpec, SpecRefused, ReadBack,
        WriteFails, Fetched, DeleteAccount, DeleteSpec, DeleteAccountGroup,
        DeleteFails, DeleteUserGroup, Crash, Goto, Returns, Listing, LocalOK
  <2> QED
    BY <1>5, <2>1, <2>2, <2>3, <2>4, <2>5, <2>6
<1> QED
  BY <1>3, <1>4, <1>5

-----------------------------------------------------------------------------
(* Programs that work one after another.                                   *)

\* Only one program has ever worked at once, and goes on so.
LEMMA AloneStep ==
    ASSUME IInv, NEW p \in Proc, Operation(p), KeepsHistory, ~overlap'
    PROVE  /\ ~overlap
           /\ \A q, r \in Proc : pc'[q] # "idle" /\ pc'[r] # "idle" => q = r
           /\ \A q \in Proc \ {p} : pc'[q] = "idle"
<1>1. LocalOK /\ OthersKeep(p) /\ OneAtATime
  BY TypeParts, FrameStep DEF IInv
<1>2. /\ ~overlap
      /\ \A q, r \in Proc : pc'[q] # "idle" /\ pc'[r] # "idle" => q = r
  BY DEF KeepsHistory
<1>3. pc[p] # "idle" \/ pc'[p] # "idle"
  BY <1>1
  DEF Operation, AddUser, AddUserBadId, WriteUser, AddUserFails, Fetch,
      ListSpecs, SpecsRead, ReadSpec, ReadFails, Modify, Pick, AddAccount,
      WriteAccount, WriteSpec, SpecRefused, ReadBack, WriteFails, Fetched,
      DeleteAccount, DeleteSpec, DeleteAccountGroup, DeleteFails, DeleteUser,
      ListAccounts, AccountsRead, DeleteUserGroup, ReadAccount, Crash, Goto,
      LocalOK
<1>4. \A q \in Proc \ {p} : pc'[q] = "idle"
  BY <1>1, <1>2, <1>3 DEF OneAtATime, OthersKeep
<1> QED
  BY <1>2, <1>4

\* Every spec leads to an account.
LEMMA AccountsStep ==
    ASSUME IInv, NEW p \in Proc, Operation(p), KeepsHistory
    PROVE  AccountsInv'
<1> SUFFICES ASSUME ~overlap', "delete" \notin faults'
             PROVE  /\ Ids(specs') \subseteq Ids(accounts')
                    /\ \A q \in Proc : HasAccount(q)'
  BY DEF AccountsInv, Ids
<1>1. LocalOK /\ ~overlap /\ \A q \in Proc \ {p} : pc'[q] = "idle"
  BY TypeParts, AloneStep DEF IInv
<1>2. Ids(specs) \subseteq Ids(accounts) /\ HasAccount(p)
  BY <1>1, FaultsGrow DEF IInv, AccountsInv
<1>3. \A q \in Proc \ {p} : HasAccount(q)'
  BY <1>1 DEF HasAccount
<1>4. CASE WriteAccount(p)
  <2>1. /\ aid' = aid /\ specs' = specs /\ pc'[p] \in {"updateSpec", "writeSpec"}
        /\ accounts' = Put(accounts, [id |-> aid[p], bank |-> bank[p], user |-> uid[p]])
    BY <1>1, <1>4 DEF WriteAccount, Goto, local, LocalOK
  <2>2. Ids(accounts') = Ids(accounts) \cup {aid[p]}
    BY <2>1, PutIds
  <2> QED
    BY <1>2, <1>3, <2>1, <2>2 DEF HasAccount, Ids
<1>5. CASE WriteSpec(p)
  <2>1. /\ aid' = aid /\ accounts' = accounts /\ pc'[p] \in {"readBack", "each"}
        /\ specs' = Put(specs, [id |-> aid[p], bank |-> bank[p]])
        /\ pc[p] = "updateSpec" \/ Usable(p)
    BY <1>1, <1>5 DEF WriteSpec, Goto, local, LocalOK
  <2>2. Ids(specs') = Ids(specs) \cup {aid[p]}
    BY <2>1, PutIds
  <2>3. aid[p] \in Ids(accounts)
    BY <1>2, <2>1 DEF HasAccount, Usable, Ids
  <2> QED
    BY <1>2, <1>3, <2>1, <2>2, <2>3 DEF HasAccount
<1>6. CASE DeleteSpec(p)
  <2>1. /\ aid' = aid /\ accounts' = accounts /\ pc'[p] = "delAccount"
        /\ specs' = Remove(specs, aid[p])
    BY <1>1, <1>6 DEF DeleteSpec, Goto, local, LocalOK
  <2>2. Ids(specs') = Ids(specs) \ {aid[p]}
    BY <2>1, RemoveIds
  <2> QED
    BY <1>2, <1>3, <2>1, <2>2 DEF HasAccount, Ids
<1>7. CASE DeleteAccountGroup(p)
  <2>1. /\ pc[p] = "delAccount" /\ specs' = specs /\ pc'[p] = "idle"
        /\ accounts' = Remove(accounts, aid[p])
    BY <1>1, <1>7 DEF DeleteAccountGroup, Goto, Returns, LocalOK
  <2>2. Ids(accounts') = Ids(accounts) \ {aid[p]}
    BY <2>1, RemoveIds
  <2> QED
    BY <1>2, <1>3, <2>1, <2>2 DEF HasAccount
<1>8. CASE ReadBack(p)
  <2>1. /\ UNCHANGED <<aid, accounts, specs>> /\ pc'[p] \in {"updateSpec", "each"}
        /\ pc'[p] = "updateSpec" => aid[p] \in Ids(accounts)
    BY <1>1, <1>8 DEF ReadBack, Goto, local, store, LocalOK
  <2> QED
    BY <1>2, <1>3, <2>1 DEF HasAccount, Ids
<1>9. CASE /\ ~WriteAccount(p) /\ ~WriteSpec(p) /\ ~DeleteSpec(p)
           /\ ~DeleteAccountGroup(p) /\ ~ReadBack(p)
  <2>1. UNCHANGED <<accounts, specs>>
    BY <1>9
    DEF Operation, AddUser, AddUserBadId, WriteUser, AddUserFails, Fetch,
        ListSpecs, ListGroups, SpecsRead, ReadSpec, ReadGroup, ReadFails,
        Modify, AddAccount, SpecRefused, WriteFails, Fetched, DeleteAccount,
        DeleteFails, DeleteUser, ListAccounts, AccountsRead, DeleteUserGroup,
        ReadAccount, Crash, store
  <2>2. pc'[p] \notin {"updateSpec", "delAccount"}
    BY <1>1, <1>9
    DEF Operation, AddUser, AddUserBadId, WriteUser, AddUserFails, Fetch,
        ListSpecs, ListGroups, SpecsRead, ReadSpec, ReadGroup, ReadFails,
        Modify, Pick, AddAccount, SpecRefused, WriteFails, Fetched, DeleteAccount,
        DeleteFails, DeleteUser, ListAccounts, AccountsRead, DeleteUserGroup,
        ReadAccount, Crash, Goto, Returns, Fails, LocalOK
  <2> QED
    BY <1>2, <1>3, <2>1, <2>2 DEF HasAccount, Ids
<1> QED
  BY <1>4, <1>5, <1>6, <1>7, <1>8, <1>9

\* No two specs describe the same account.
LEMMA SpecsStep ==
    ASSUME IInv, NEW p \in Proc, Operation(p), KeepsHistory
    PROVE  SpecsInv'
<1> SUFFICES ASSUME ~overlap', "read" \notin faults'
             PROVE  /\ DistinctBanks(specs')
                    /\ \A q \in Proc : Known(q)'
  BY DEF SpecsInv, DistinctBanks
<1>1. LocalOK /\ PartialOK /\ ~overlap /\ \A q \in Proc \ {p} : pc'[q] = "idle"
  BY TypeParts, AloneStep DEF IInv
<1>2. DistinctBanks(specs) /\ Known(p)
  BY <1>1, FaultsGrow DEF IInv, SpecsInv
<1>3. \A q \in Proc \ {p} : Known(q)'
  BY <1>1 DEF Known, Storing
\* Most steps write no spec and keep what is known, or forget it.
<1>4. ASSUME specs' = specs, pc'[p] \notin Storing \cup {"readSpecs", "each"}
      PROVE  DistinctBanks(specs') /\ \A q \in Proc : Known(q)'
  BY <1>2, <1>3, <1>4 DEF Known
<1>5. ASSUME specs' = specs, UNCHANGED <<aid, bank, todo, got>>,
             pc[p] \in Storing \cup {"each"}, pc'[p] \in Storing \cup {"each"},
             pc'[p] \in Storing => pc[p] \in Storing
      PROVE  DistinctBanks(specs') /\ \A q \in Proc : Known(q)'
  BY <1>2, <1>3, <1>5 DEF Known, Storing, DistinctBanks
<1>6. CASE ListSpecs(p)
  <2>1. /\ names'[p] = Ids(specs) /\ got'[p] = {} /\ specs' = specs
        /\ pc'[p] = "readSpecs"
    BY <1>1, <1>6 DEF ListSpecs, ListGroups, Goto, Set, LocalOK, store
  <2>2. partial'[p] = FALSE
    BY <1>1, <1>6, SetPartial, Zenon DEF ListSpecs, ListGroups
  <2>3. Known(p)'
    BY <2>1, <2>2, IdsOf DEF Known, Storing, Ids
  <2> QED
    BY <1>2, <1>3, <2>1, <2>3
<1>7. ASSUME NEW i \in names[p], ReadSpec(p, i)
      PROVE  DistinctBanks(specs') /\ \A q \in Proc : Known(q)'
  <2>1. /\ names'[p] = names[p] \ {i} /\ UNCHANGED <<pc, specs>>
        /\ got'[p] = got[p] \cup {g \in specs : g.id = i} /\ pc[p] = "readSpecs"
    BY <1>1, <1>7 DEF ReadSpec, ReadGroup, Set, LocalOK, store
  <2>2. ~partial'[p]
    BY <1>1, <1>2, <1>7, <2>1, ReadPartial DEF ReadSpec, Known
  <2>3. Known(p)'
    BY <1>2, <2>1, <2>2 DEF Known, Storing, Ids
  <2> QED
    BY <1>2, <1>3, <2>1, <2>3
<1>8. CASE SpecsRead(p)
  <2>1. /\ pc[p] = "readSpecs" /\ names[p] = {} /\ pc'[p] = "each"
        /\ UNCHANGED <<specs, todo>>
        /\ ~partial[p] => got'[p] = got[p]
    BY <1>1, <1>8 DEF SpecsRead, Goto, Set, LocalOK, store
  <2>2. got'[p] = got[p] /\ got[p] \subseteq specs /\ \A s \in specs : s \in got[p]
    BY <1>2, <2>1 DEF Known
  <2>3. Known(p)'
    BY <1>2, <2>1, <2>2 DEF Known, Storing, DistinctBanks
  <2> QED
    BY <1>2, <1>3, <2>1, <2>3
<1>9. ASSUME NEW b \in BankAccount, NEW s \in got[p], Modify(p, b, s)
      PROVE  DistinctBanks(specs') /\ \A q \in Proc : Known(q)'
  <2>1. /\ pc[p] = "each" /\ b \in todo[p] /\ s.bank = b
        /\ todo'[p] = todo[p] \ {b} /\ bank'[p] = b /\ aid'[p] = s.id
        /\ pc'[p] \in {"modify", "each"} /\ UNCHANGED <<specs, got>>
    BY <1>1, <1>9 DEF Modify, Pick, Goto, Set, LocalOK, store
  <2>2. \A t \in specs : t.bank = b => t = s
    BY <1>2, <2>1 DEF Known, DistinctBanks
  <2>3. Known(p)'
    BY <1>2, <2>1, <2>2 DEF Known, Storing, DistinctBanks
  <2> QED
    BY <1>2, <1>3, <2>1, <2>3
<1>10. ASSUME NEW b \in BankAccount, AddAccount(p, b)
       PROVE  DistinctBanks(specs') /\ \A q \in Proc : Known(q)'
  <2>1. /\ pc[p] = "each" /\ b \in todo[p] /\ \A s \in got[p] : s.bank # b
        /\ todo'[p] = todo[p] \ {b} /\ bank'[p] = b
        /\ pc'[p] = "writeAccount" /\ UNCHANGED <<specs, got>>
    BY <1>1, <1>10 DEF AddAccount, Pick, Goto, Set, LocalOK, store
  <2>2. \A t \in specs : t.bank # b
    BY <1>2, <2>1 DEF Known
  <2>3. Known(p)'
    BY <1>2, <2>1, <2>2 DEF Known, Storing, DistinctBanks
  <2> QED
    BY <1>2, <1>3, <2>1, <2>3
<1>11. CASE WriteSpec(p)
  <2> DEFINE new == [id |-> aid[p], bank |-> bank[p]]
  <2>1. /\ UNCHANGED <<aid, bank, todo, got>> /\ pc[p] \in Storing
        /\ specs' = Put(specs, new) /\ pc'[p] \in {"readBack", "each"}
    BY <1>1, <1>11 DEF WriteSpec, Goto, local, LocalOK, Storing
  <2>2. \A s \in specs' : s = new \/ (s \in specs /\ s.id # aid[p])
    BY <2>1 DEF Put
  <2>3. \A s \in specs' : s = new \/ s.bank # bank[p]
    BY <1>2, <2>1, <2>2 DEF Known
  <2>4. new.bank = bank[p] /\ new.id = aid[p] /\ bank[p] \notin todo[p]
    BY <1>2, <2>1 DEF Known
  <2> HIDE DEF new
  <2>5. DistinctBanks(specs')
    BY <1>2, <2>2, <2>3, <2>4 DEF DistinctBanks
  <2>6. Known(p)'
    BY <1>2, <2>1, <2>2, <2>3, <2>4 DEF Known, Storing, DistinctBanks
  <2> QED
    BY <1>3, <2>5, <2>6
<1>12. CASE DeleteSpec(p)
  <2>1. pc'[p] = "delAccount" /\ specs' \subseteq specs
    BY <1>1, <1>12 DEF DeleteSpec, Goto, LocalOK, Remove
  <2>2. Known(p)'
    BY <2>1 DEF Known, Storing
  <2> QED
    BY <1>2, <1>3, <2>1, <2>2 DEF DistinctBanks
<1>13. CASE WriteAccount(p) \/ ReadBack(p) \/ SpecRefused(p)
  BY <1>1, <1>5, <1>13
  DEF WriteAccount, ReadBack, SpecRefused, Goto, Storing, store, local, LocalOK
<1>14. CASE WriteFails(p)
  BY <1>1, <1>5, <1>14 DEF WriteFails, Goto, Storing, store, local, LocalOK
<1>15. ASSUME NEW i \in names[p], ReadFails(p, i)
       PROVE  DistinctBanks(specs') /\ \A q \in Proc : Known(q)'
  BY <1>15 DEF ReadFails, Fails
<1>16. ASSUME \/ \E w \in Person : AddUser(p, w) \/ AddUserBadId(p, w)
              \/ WriteUser(p) \/ AddUserFails(p)
              \/ \E u \in Ids(users), bs \in SUBSET BankAccount : Fetch(p, u, bs)
              \/ Fetched(p)
              \/ \E a \in Ids(accounts) : DeleteAccount(p, a)
              \/ DeleteAccountGroup(p) \/ DeleteFails(p)
              \/ \E u \in Ids(users) : DeleteUser(p, u)
              \/ ListAccounts(p) \/ AccountsRead(p) \/ DeleteUserGroup(p)
              \/ \E i \in names[p] : ReadAccount(p, i)
              \/ Crash(p)
       PROVE  DistinctBanks(specs') /\ \A q \in Proc : Known(q)'
  <2>1. specs' = specs
    BY <1>16
    DEF AddUser, AddUserBadId, WriteUser, AddUserFails, Fetch, Fetched,
        DeleteAccount, DeleteAccountGroup, DeleteFails, DeleteUser,
        ListAccounts, ListGroups, AccountsRead, DeleteUserGroup, ReadAccount,
        ReadGroup, Crash, store
  <2>2. pc'[p] \notin Storing \cup {"readSpecs", "each"}
    BY <1>1, <1>16
    DEF AddUser, AddUserBadId, WriteUser, AddUserFails, Fetch, Fetched,
        DeleteAccount, DeleteAccountGroup, DeleteFails, DeleteUser,
        ListAccounts, ListGroups, AccountsRead, DeleteUserGroup, ReadAccount,
        ReadGroup, Crash, Goto, Returns, Storing, LocalOK
  <2> QED
    BY <1>4, <2>1, <2>2
<1> QED
  BY <1>6, <1>7, <1>8, <1>9, <1>10, <1>11, <1>12, <1>13, <1>14, <1>15, <1>16
  DEF Operation

-----------------------------------------------------------------------------
(* The theorems.                                                           *)

LEMMA IInvInit == Init => IInv
<1> SUFFICES ASSUME Init PROVE IInv
  OBVIOUS
<1>1. PartialOK /\ overlap \in BOOLEAN
  <2>1. partial = [p \in Proc |-> FALSE] /\ overlap = FALSE
    BY Zenon DEF Init
  <2>2. \A S, T : \A v \in T : [s \in S |-> v] \in [S -> T]
    OBVIOUS
  <2>3. FALSE \in BOOLEAN
    OBVIOUS
  <2> QED
    BY <2>1, <2>2, <2>3, Zenon DEF PartialOK
<1>2. StoreOK /\ LocalOK /\ using \in [Proc -> SUBSET Id]
  BY AccountStoreAssumption DEF Init, StoreOK, LocalOK, PC
<1>3. /\ \A p \in Proc : pc[p] = "idle"
      /\ specs = {} /\ accounts = {}
  BY DEF Init
<1>4. /\ \A p \in Proc : OwnIds(p) /\ NotOverlooked(p)
      /\ OneAtATime
  BY <1>3 DEF OwnIds, NotOverlooked, OneAtATime, Storing, Listing
<1>5. AccountsInv /\ SpecsInv
  BY <1>3 DEF AccountsInv, SpecsInv, HasAccount, Known, Storing, DistinctBanks, Ids
<1> QED
  BY <1>1, <1>2, <1>4, <1>5, TypeParts DEF IInv

LEMMA HistoryTypes ==
    ASSUME KeepsHistory, StoreOK'
    PROVE  using' \in [Proc -> SUBSET Id] /\ overlap' \in BOOLEAN
<1>1. overlap' \in BOOLEAN
  BY Zenon DEF KeepsHistory
<1>2. \A u : UsersOf(accounts', u) \subseteq Id
  BY DEF StoreOK, UsersOf, AccountGroup
<1>3. ASSUME NEW q \in Proc PROVE using'[q] \subseteq Id
  BY <1>2, HistoryStep
<1>4. using' = [q \in Proc |-> using'[q]]
  BY DEF KeepsHistory
<1> QED
  BY <1>1, <1>3, <1>4

LEMMA IInvNext == IInv /\ [Next]_vars => IInv'
<1>1. ASSUME IInv, NEW p \in Proc, Operation(p), KeepsHistory PROVE IInv'
  <2>1. StoreOK' /\ LocalOK' /\ PartialOK' /\ OthersKeep(p)
    BY <1>1, TypeStep, PartialStep, FrameStep
  <2>2. TypeOK'
    <3>1. using' \in [Proc -> SUBSET Id] /\ overlap' \in BOOLEAN
      BY <1>1, <2>1, HistoryTypes
    <3> QED
      BY <2>1, <3>1, Zenon DEF TypeOK, StoreOK, LocalOK, PartialOK
  <2>3. \A q \in Proc : OwnIds(q)'
    <3>1. \A q \in Proc \ {p} : OwnIds(q)'
      BY <1>1, <2>1 DEF IInv, OwnIds, OthersKeep
    <3> QED
      BY <1>1, <3>1, OwnIdsStep
  <2>4. \A q \in Proc : NotOverlooked(q)'
    BY <1>1, OverlookedStep
  <2>5. OneAtATime'
    BY <1>1, AloneStep DEF OneAtATime
  <2>6. AccountsInv' /\ SpecsInv'
    BY <1>1, AccountsStep, SpecsStep
  <2> QED
    BY <2>2, <2>3, <2>4, <2>5, <2>6 DEF IInv
<1>2. ASSUME IInv, UNCHANGED vars PROVE IInv'
  <2>1. UNCHANGED <<users, accounts, specs, lastUser, lastAccount, pc, uid, who,
                    aid, bank, todo, names, got, partial, using, overlap, faults>>
    BY <1>2 DEF vars, store, ids, local
  <2>2. TypeOK'
    BY <1>2, <2>1 DEF IInv, TypeOK
  <2>3. \A q \in Proc : OwnIds(q)' /\ NotOverlooked(q)'
    BY <1>2, <2>1 DEF IInv, OwnIds, NotOverlooked, UsersOf
  <2>4. OneAtATime' /\ AccountsInv'
    BY <1>2, <2>1 DEF IInv, OneAtATime, AccountsInv, HasAccount, Ids
  <2>5. SpecsInv'
    BY <1>2, <2>1 DEF IInv, SpecsInv, Known, DistinctBanks, Ids
  <2> QED
    BY <2>2, <2>3, <2>4, <2>5 DEF IInv
<1> QED
  BY <1>1, <1>2 DEF Next

\* The inductive invariant: an account that uses a user is not overlooked by
\* the program that wants to delete the user; a program that works alone
\* knows every spec it may have to modify.
THEOREM Invariant == Spec => []IInv
<1> QED
  BY IInvInit, IInvNext, PTL DEF Spec

\* Every group and every variable of a program has its type; no group is
\* written without an id.
THEOREM TypeCorrect == Spec => []TypeOK
<1>1. IInv => TypeOK
  BY DEF IInv
<1> QED
  BY <1>1, Invariant, PTL

\* Programs that work one after another, and read what they list, store an
\* account of a bank once, however often operations fail or end half way.
THEOREM NoSecondSpec == Spec => []VisibleOnce
<1>1. IInv => VisibleOnce
  BY DEF IInv, SpecsInv, DistinctBanks, VisibleOnce
<1> QED
  BY <1>1, Invariant, PTL

\* Programs that work one after another leave no spec without its account,
\* unless a spec cannot be deleted.
THEOREM SpecsHaveAccounts == Spec => []SpecHasAccount
<1>1. IInv => SpecHasAccount
  BY DEF IInv, AccountsInv, SpecHasAccount
<1> QED
  BY <1>1, Invariant, PTL

\* Any number of programs: a user is not deleted while an account has used it
\* since before the accounts were looked through.
THEOREM NoUsedUserDeleted == Spec => UsedUserIsKept
<1>1. IInv => \A p \in Proc : pc[p] = "delUser" => using[p] = {}
  BY DEF IInv, NotOverlooked
<1>2. (\A p \in Proc : pc[p] = "delUser" => using[p] = {}) /\ [Next]_vars
         => [\A p \in Proc : pc[p] = "delUser" /\ users' # users
                                /\ uid[p] \notin Ids(users')
                                => using[p] = {}]_vars
  OBVIOUS
<1> QED
  BY <1>1, <1>2, Invariant, PTL DEF Spec, UsedUserIsKept
=============================================================================
