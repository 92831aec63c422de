---------------------------- MODULE AccountStore ----------------------------
(***************************************************************************)
(* Users, accounts and account specs: three tables of the configuration    *)
(* that refer to one another, and the operations of backendsupport/ that   *)
(* change them without a lock over all they touch:                         *)
(*   AddUser        AB_Provider_AddUser();                                 *)
(*   Fetch          AH_JobQueue_ReadAccounts(): the accounts a bank has    *)
(*                  sent for a user are looked up among the account specs; *)
(*                  those found are modified, the others are added         *)
(*                  (AB_Provider_AddAccount());                            *)
(*   DeleteAccount  AB_Provider_DeleteAccount(): the spec, then the        *)
(*                  account;                                               *)
(*   DeleteUser     AB_Provider_DeleteUser(): unless an account uses it.   *)
(*                                                                         *)
(* A read or write of one group is atomic: it is made under the group's    *)
(* lock, or by one call of the config manager.  Between two of them other  *)
(* programs work, and any of them may fail or be the last.                 *)
(***************************************************************************)
EXTENDS Integers, FiniteSets

CONSTANTS
    Person,      \* people who have access to a bank
    BankAccount, \* accounts at banks, as a bank describes them
    Proc,        \* programs that share the configuration
    MaxUser, MaxAccount, \* bounds: unique ids handed out
    MaxFault,    \* bound: number of faults, each of another kind
    Fault,       \* which faults occur, a set of members of AllFaults
    BadId        \* an error code, taken for a unique id

AllFaults == {"id", "read", "write", "delete", "crash"}

ASSUME AccountStoreAssumption ==
    /\ MaxUser \in Nat /\ MaxAccount \in Nat
    /\ MaxFault \in Nat
    /\ Fault \subseteq AllFaults
    /\ BadId \in Nat /\ BadId > MaxUser /\ BadId > MaxAccount

VARIABLES
    users,     \* the users' groups
    accounts,  \* the accounts' groups
    specs,     \* the account specs' groups
    lastUser, lastAccount, \* last unique ids handed out
    pc,        \* where the operation of a program stands
    uid,       \* the user it is about
    who,       \* the person whose user it adds
    aid,       \* the account it is about
    bank,      \* the bank account it adds or modifies
    todo,      \* bank accounts it has yet to add or modify
    names,     \* groups it has listed and not yet read
    got,       \* groups it has read
    partial,   \* was a group unreadable (GWEN_ERROR_PARTIAL)?
    using,     \* history: accounts that have used the user it is about to
               \* delete ever since it was told to delete it
    overlap,   \* history: have two programs worked at once?
    faults     \* the kinds of faults so far

store == <<users, accounts, specs>>
ids   == <<lastUser, lastAccount>>
local == <<uid, who, aid, bank, todo, names, got, partial>>
vars  == <<store, ids, pc, local, using, overlap, faults>>

-----------------------------------------------------------------------------
NoId   == 0
Id     == Nat \ {NoId}
UserGroup    == [id: Id, person: Person]
AccountGroup == [id: Id, bank: BankAccount, user: Id]
SpecGroup    == [id: Id, bank: BankAccount]

PC == {"idle", "writeUser", "listSpecs", "readSpecs", "each", "modify",
       "writeAccount", "writeSpec", "readBack", "updateSpec", "delSpec",
       "delAccount", "listAccounts", "readAccounts", "delUser"}

Ids(table)     == {g.id : g \in table}
Put(table, r)  == {g \in table : g.id # r.id} \cup {r}
Remove(table, i) == {g \in table : g.id # i}

Init ==
    /\ users = {} /\ accounts = {} /\ specs = {}
    /\ lastUser = 0 /\ lastAccount = 0
    /\ pc = [p \in Proc |-> "idle"]
    /\ uid = [p \in Proc |-> NoId]
    /\ who \in [Proc -> Person]
    /\ aid = [p \in Proc |-> NoId]
    /\ bank \in [Proc -> BankAccount]
    /\ todo = [p \in Proc |-> {}]
    /\ names = [p \in Proc |-> {}]
    /\ got = [p \in Proc |-> {}]
    /\ partial = [p \in Proc |-> FALSE]
    /\ using = [p \in Proc |-> {}]
    /\ overlap = FALSE
    /\ faults = {}

Goto(p, l) == pc' = [pc EXCEPT ![p] = l]
Set(f, p, v) == [f EXCEPT ![p] = v]
Fails(k) == /\ k \in Fault \ faults
            /\ Cardinality(faults) < MaxFault
            /\ faults' = faults \cup {k}
Returns(p) == Goto(p, "idle")

\* The accounts that use a user.
UsersOf(table, u) == {g.id : g \in {h \in table : h.user = u}}

-----------------------------------------------------------------------------
(* AB_Provider_AddUser().                                                  *)

AddUser(p, w) ==
    /\ pc[p] = "idle"
    /\ lastUser < MaxUser
    /\ lastUser' = lastUser + 1
    /\ uid' = Set(uid, p, lastUser + 1)
    /\ who' = Set(who, p, w)
    /\ Goto(p, "writeUser")
    /\ UNCHANGED <<store, lastAccount, aid, bank, todo, names, got, partial,
                   faults>>

\* AB_Banking_GetNamedUniqueId() returns an error: nobody looks at it.
AddUserBadId(p, w) ==
    /\ pc[p] = "idle"
    /\ Fails("id")
    /\ uid' = Set(uid, p, BadId)
    /\ who' = Set(who, p, w)
    /\ Goto(p, "writeUser")
    /\ UNCHANGED <<store, ids, aid, bank, todo, names, got, partial>>

WriteUser(p) ==
    /\ pc[p] = "writeUser"
    /\ users' = Put(users, [id |-> uid[p], person |-> who[p]])
    /\ Returns(p)
    /\ UNCHANGED <<accounts, specs, ids, local, faults>>

-----------------------------------------------------------------------------
(* AB_Banking_ReadConfigGroups(), group by group.                          *)

ListGroups(p, table, l) ==
    /\ names' = Set(names, p, Ids(table))
    /\ got' = Set(got, p, {})
    /\ partial' = Set(partial, p, FALSE)
    /\ Goto(p, l)
    /\ UNCHANGED <<store, ids, uid, who, aid, bank, todo, faults>>

\* A group that is gone since it was listed may be unreadable, or empty.
ReadGroup(p, table, i) ==
    /\ i \in names[p]
    /\ names' = Set(names, p, names[p] \ {i})
    /\ got' = Set(got, p, got[p] \cup {g \in table : g.id = i})
    /\ partial' \in {partial, Set(partial, p, partial[p] \/ i \notin Ids(table))}
    /\ UNCHANGED <<store, ids, pc, uid, who, aid, bank, todo, faults>>

ReadFails(p, i) ==
    /\ pc[p] \in {"readSpecs", "readAccounts"}
    /\ i \in names[p]
    /\ Fails("read")
    /\ names' = Set(names, p, names[p] \ {i})
    /\ partial' = Set(partial, p, TRUE)
    /\ UNCHANGED <<store, ids, pc, uid, who, aid, bank, todo, got>>

-----------------------------------------------------------------------------
(* AH_JobQueue_ReadAccounts() for a user, who is locked by this program.   *)

Fetch(p, u, bs) ==
    /\ pc[p] = "idle"
    /\ u \in Ids(users)
    /\ uid' = Set(uid, p, u)
    /\ todo' = Set(todo, p, bs)
    /\ Goto(p, "listSpecs")
    /\ UNCHANGED <<store, ids, who, aid, bank, names, got, partial, faults>>

ListSpecs(p) == pc[p] = "listSpecs" /\ ListGroups(p, specs, "readSpecs")
ReadSpec(p, i) == pc[p] = "readSpecs" /\ ReadGroup(p, specs, i)

\* Mutant: the specs are not looked at.
SpecsRead_Unmatched(p) ==
    /\ pc[p] = "readSpecs"
    /\ names[p] = {}
    /\ got' = Set(got, p, {})
    /\ Goto(p, "each")
    /\ UNCHANGED <<store, ids, uid, who, aid, bank, todo, names, partial, faults>>

\* An error, GWEN_ERROR_PARTIAL included, means: there are no specs.
SpecsRead(p) ==
    /\ pc[p] = "readSpecs"
    /\ names[p] = {}
    /\ got' = Set(got, p, IF partial[p] THEN {} ELSE got[p])
    /\ Goto(p, "each")
    /\ UNCHANGED <<store, ids, uid, who, aid, bank, todo, names, partial, faults>>

\* The next of the bank's accounts.
Pick(p, b) ==
    /\ pc[p] = "each"
    /\ b \in todo[p]
    /\ todo' = Set(todo, p, todo[p] \ {b})
    /\ bank' = Set(bank, p, b)

\* The spec of a stored account matches.  The account is locked and read; if
\* it is gone, the bank's data are dropped.
Modify(p, b, s) ==
    /\ Pick(p, b)
    /\ s \in got[p] /\ s.bank = b
    /\ aid' = Set(aid, p, s.id)
    /\ Goto(p, IF s.id \in Ids(accounts) THEN "modify" ELSE "each")
    /\ UNCHANGED <<store, ids, uid, who, names, got, partial, faults>>

\* AB_Provider_AddAccount(): an id, which nobody checks; then the account is
\* written, then its spec.
AddAccount(p, b) ==
    /\ Pick(p, b)
    /\ \A s \in got[p] : s.bank # b
    /\ \/ /\ lastAccount < MaxAccount
          /\ lastAccount' = lastAccount + 1
          /\ aid' = Set(aid, p, lastAccount + 1)
          /\ UNCHANGED faults
       \/ /\ Fails("id")
          /\ aid' = Set(aid, p, BadId)
          /\ UNCHANGED lastAccount
    /\ Goto(p, "writeAccount")
    /\ UNCHANGED <<store, lastUser, uid, who, names, got, partial>>

\* The new account, or the modified one, which is unlocked then.
WriteAccount(p) ==
    /\ pc[p] \in {"writeAccount", "modify"}
    /\ accounts' = Put(accounts, [id |-> aid[p], bank |-> bank[p], user |-> uid[p]])
    /\ Goto(p, IF pc[p] = "modify" THEN "updateSpec" ELSE "writeSpec")
    /\ UNCHANGED <<users, specs, ids, local, faults>>

\* A spec is written for a new account if the backend can read the account
\* and its user (AH_Provider_UpdateAccountSpec()), and once more from the
\* account as it has been read back.
Usable(p) == \E a \in accounts : a.id = aid[p] /\ a.user \in Ids(users)

WriteSpec(p) ==
    /\ pc[p] \in {"writeSpec", "updateSpec"}
    /\ pc[p] = "writeSpec" => Usable(p)
    /\ specs' = Put(specs, [id |-> aid[p], bank |-> bank[p]])
    /\ Goto(p, IF pc[p] = "writeSpec" THEN "readBack" ELSE "each")
    /\ UNCHANGED <<users, accounts, ids, local, faults>>

SpecRefused(p) ==
    /\ pc[p] = "writeSpec"
    /\ ~Usable(p)
    /\ Goto(p, "each")
    /\ UNCHANGED <<store, ids, local, faults>>

ReadBack(p) ==
    /\ pc[p] = "readBack"
    /\ Goto(p, IF aid[p] \in Ids(accounts) THEN "updateSpec" ELSE "each")
    /\ UNCHANGED <<store, ids, local, faults>>

\* An account that cannot be written, or whose spec cannot, is given up;
\* the others follow.
WriteFails(p) ==
    /\ pc[p] \in {"modify", "writeAccount", "writeSpec", "updateSpec"}
    /\ Fails("write")
    /\ Goto(p, "each")
    /\ UNCHANGED <<store, ids, local>>

AddUserFails(p) ==
    /\ pc[p] = "writeUser"
    /\ Fails("write")
    /\ Returns(p)
    /\ UNCHANGED <<store, ids, local>>

Fetched(p) ==
    /\ pc[p] = "each"
    /\ todo[p] = {}
    /\ Goto(p, "idle")
    /\ UNCHANGED <<store, ids, local, faults>>

-----------------------------------------------------------------------------
(* AB_Provider_DeleteAccount().                                            *)

DeleteAccount(p, a) ==
    /\ pc[p] = "idle"
    /\ a \in Ids(accounts)
    /\ aid' = Set(aid, p, a)
    /\ Goto(p, "delSpec")
    /\ UNCHANGED <<store, ids, uid, who, bank, todo, names, got, partial, faults>>

\* Mutant: the account goes first.
DeleteSpec_Second(p) ==
    \/ /\ pc[p] = "delSpec"
       /\ accounts' = Remove(accounts, aid[p])
       /\ Goto(p, "delAccount")
       /\ UNCHANGED <<users, specs, ids, local, faults>>
    \/ /\ pc[p] = "delAccount"
       /\ specs' = Remove(specs, aid[p])
       /\ Returns(p)
       /\ UNCHANGED <<users, accounts, ids, local, faults>>

DeleteSpec(p) ==
    /\ pc[p] = "delSpec"
    /\ specs' = Remove(specs, aid[p])
    /\ Goto(p, "delAccount")
    /\ UNCHANGED <<users, accounts, ids, local, faults>>

DeleteAccountGroup(p) ==
    /\ pc[p] = "delAccount"
    /\ accounts' = Remove(accounts, aid[p])
    /\ Returns(p)
    /\ UNCHANGED <<users, specs, ids, local, faults>>

\* The result is tested with "rv>0": an error, which is negative, is lost.
DeleteFails(p) ==
    /\ Fails("delete")
    /\ \/ pc[p] = "delSpec" /\ Goto(p, "delAccount")
       \/ pc[p] = "delAccount" /\ Returns(p)
       \/ pc[p] = "delUser" /\ Returns(p)
    /\ UNCHANGED <<store, ids, local>>

-----------------------------------------------------------------------------
(* AB_Provider_DeleteUser().                                               *)

DeleteUser(p, u) ==
    /\ pc[p] = "idle"
    /\ u \in Ids(users)
    /\ uid' = Set(uid, p, u)
    /\ Goto(p, "listAccounts")
    /\ UNCHANGED <<store, ids, who, aid, bank, todo, names, got, partial, faults>>

ListAccounts(p) == pc[p] = "listAccounts" /\ ListGroups(p, accounts, "readAccounts")
ReadAccount(p, i) == pc[p] = "readAccounts" /\ ReadGroup(p, accounts, i)

\* Mutant: accounts that cannot be read do not count.
AccountsRead_Partial(p) ==
    /\ pc[p] = "readAccounts"
    /\ names[p] = {}
    /\ IF UsersOf(got[p], uid[p]) # {}
         THEN Returns(p)
         ELSE Goto(p, "delUser")
    /\ UNCHANGED <<store, ids, local, faults>>

\* GWEN_ERROR_PARTIAL is an error here.  No account at all is none.
AccountsRead(p) ==
    /\ pc[p] = "readAccounts"
    /\ names[p] = {}
    /\ IF partial[p] \/ UsersOf(got[p], uid[p]) # {}
         THEN Returns(p)
         ELSE Goto(p, "delUser")
    /\ UNCHANGED <<store, ids, local, faults>>

DeleteUserGroup(p) ==
    /\ pc[p] = "delUser"
    /\ users' = Remove(users, uid[p])
    /\ Returns(p)
    /\ UNCHANGED <<accounts, specs, ids, local, faults>>

-----------------------------------------------------------------------------
\* A program ends in the middle of an operation; another one is started.
Crash(p) ==
    /\ pc[p] # "idle"
    /\ Fails("crash")
    /\ Returns(p)
    /\ UNCHANGED <<store, ids, local>>

Operation(p) ==
    \/ \E w \in Person : AddUser(p, w) \/ AddUserBadId(p, w)
    \/ WriteUser(p) \/ AddUserFails(p)
    \/ \E u \in Ids(users), bs \in SUBSET BankAccount : Fetch(p, u, bs)
    \/ ListSpecs(p) \/ SpecsRead(p)
    \/ \E i \in names[p] : ReadSpec(p, i) \/ ReadFails(p, i)
    \/ \E b \in BankAccount, s \in got[p] : Modify(p, b, s)
    \/ \E b \in BankAccount : AddAccount(p, b)
    \/ WriteAccount(p) \/ WriteSpec(p) \/ SpecRefused(p) \/ ReadBack(p)
    \/ WriteFails(p) \/ Fetched(p)
    \/ \E a \in Ids(accounts) : DeleteAccount(p, a)
    \/ DeleteSpec(p) \/ DeleteAccountGroup(p) \/ DeleteFails(p)
    \/ \E u \in Ids(users) : DeleteUser(p, u)
    \/ ListAccounts(p) \/ AccountsRead(p) \/ DeleteUserGroup(p)
    \/ \E i \in names[p] : ReadAccount(p, i)
    \/ Crash(p)

\* The accounts that use the user q is about to delete, and did so all along.
KeepsHistory ==
    /\ using' = [q \in Proc |->
                IF pc'[q] \notin {"listAccounts", "readAccounts", "delUser"} THEN {}
                ELSE IF pc[q] = "idle" THEN UsersOf(accounts', uid'[q])
                ELSE using[q] \cap UsersOf(accounts', uid'[q])]
    /\ overlap' = (overlap \/ \E p, q \in Proc : /\ p # q
                                               /\ pc'[p] # "idle"
                                               /\ pc'[q] # "idle")

Next == (\E p \in Proc : Operation(p)) /\ KeepsHistory

Spec == Init /\ [][Next]_vars

-----------------------------------------------------------------------------
(* Properties.                                                             *)

TypeOK ==
    /\ users \subseteq UserGroup
    /\ accounts \subseteq AccountGroup
    /\ specs \subseteq SpecGroup
    /\ lastUser \in 0..MaxUser /\ lastAccount \in 0..MaxAccount
    /\ pc \in [Proc -> PC]
    /\ uid \in [Proc -> Id \cup {NoId}]
    /\ who \in [Proc -> Person]
    /\ aid \in [Proc -> Id \cup {NoId}]
    /\ bank \in [Proc -> BankAccount]
    /\ todo \in [Proc -> SUBSET BankAccount]
    /\ names \in [Proc -> SUBSET Id]
    /\ got \in [Proc -> SUBSET (AccountGroup \cup SpecGroup)]
    /\ partial \in [Proc -> BOOLEAN]
    /\ using \in [Proc -> SUBSET Id]
    /\ overlap \in BOOLEAN
    /\ faults \subseteq Fault

\* Applications see an account of a bank at most once: whatever has been
\* fetched, deleted and interrupted, no two account specs describe the same
\* account (_matchAccountsWithStoredAccountsAndAssignStoredId()).  Two
\* programs at once, or a spec that could not be read, may make it two.
VisibleOnce ==
    ~overlap /\ "read" \notin faults =>
        \A s, t \in specs : s.bank = t.bank => s = t

\* Every spec an application sees leads to an account: the account is written
\* before its spec and deleted after it.  A spec that cannot be deleted
\* (AB_Provider_DeleteAccount() overlooks it), or a program that writes a
\* spec while another one deletes the account, is what remains.
SpecHasAccount ==
    ~overlap /\ "delete" \notin faults => Ids(specs) \subseteq Ids(accounts)

\* A user is deleted only if no account has used it ever since the program
\* was told to delete it, whatever other programs do meanwhile and whatever
\* cannot be read (AB_Provider_DeleteUser()).
UsedUserIsKept ==
    [][\A p \in Proc : pc[p] = "delUser" /\ users' # users
                            /\ uid[p] \notin Ids(users')
                            => using[p] = {}]_vars
=============================================================================
