---------------------------- MODULE ConfigUpdate ----------------------------
(***************************************************************************)
(* The update of a configuration written before version 5.99.2.0           *)
(* (banking_update.c), which AB_Banking_Init() runs as long as             *)
(* AB_Banking_Fini() has not stored the new version (banking_init.c).      *)
(*                                                                         *)
(* The update goes through five phases.  Each reads all groups of a table, *)
(* one by one, and then works on the copies:                               *)
(*   accountList, userList  a group whose name is not derived from its     *)
(*                          unique id is written under the derived name,   *)
(*                          then the old one is deleted;                   *)
(*   setUserId              "userId" takes the place of "user";            *)
(*   backendName            "backendName" takes the place of "provider";   *)
(*   backends               the backend is initialised; because its own    *)
(*                          version is old, too, it writes an account spec *)
(*                          for every account.  Errors are ignored, but    *)
(*                          only a backend that ends well stores its       *)
(*                          version (AH_Provider_Fini()): otherwise it     *)
(*                          tries again whenever a program uses it.        *)
(*                                                                         *)
(* Programs start, run and end in parallel; any of them may crash.  Every  *)
(* access to a group is atomic: it is made under the group's lock.  The    *)
(* order in which groups are listed is that of a directory: any.           *)
(***************************************************************************)
EXTENDS Naturals

CONSTANTS
    Account,   \* unique ids of the accounts
    User,      \* unique ids of the users
    Owner,     \* the user of an account before the update
    NoUser,    \* a variable that is not set, or 0
    Proc,      \* programs that share the configuration
    MaxFault   \* bound: number of crashes and failures

ASSUME ConfigUpdateAssumption ==
    /\ Owner \in [Account -> User]
    /\ NoUser \notin User
    /\ Account \cap User = {}
    /\ MaxFault \in Nat

VARIABLES
    store,       \* the groups of the tables "accounts" and "users"
    spec,        \* the accounts with an account spec
    lastVersion, \* version in the main group
    backendVersion, \* version in the group of the backend
    pc, phase,   \* where a program stands, and in which phase
    names,       \* groups it has listed and not yet read
    all,         \* copies of the groups it has read (dbAll)
    partial,     \* was a group unreadable (GWEN_ERROR_PARTIAL)?
    cur,         \* the group whose old name is to be deleted
    converted,   \* history: how often was "userId" set (2: more than once)
    overlap,     \* history: have two programs run at once?
    faults       \* number of faults so far

vars == <<store, spec, lastVersion, backendVersion, pc, phase, names, all,
          partial, cur, converted, overlap, faults>>

-----------------------------------------------------------------------------
Id   == Account \cup User
Form == {"old", "derived"}
Content == [user: User \cup {NoUser}, userId: User \cup {NoUser},
            backendName: BOOLEAN]
Group == [id: Id, form: Form, content: Content]
Name  == [id: Id, form: Form]

Version == {"old", "current"}
Phase   == {"accountList", "userList", "setUserId", "backendName", "backends"}
PC == {"idle", "list", "read", "each", "delete", "endUse", "running"}

NameOf(g)  == [id |-> g.id, form |-> g.form]
\* The table a phase works on.
Table(ph)  == IF ph = "userList" THEN User ELSE Account
After(ph)  == CASE ph = "accountList" -> "userList"
                [] ph = "userList"    -> "setUserId"
                [] ph = "setUserId"   -> "backendName"
                [] ph = "backendName" -> "backends"

\* A group written under name n; a group deleted.
Put(n, c)  == {g \in store : NameOf(g) # n}
                 \cup {[id |-> n.id, form |-> n.form, content |-> c]}
Remove(n)  == {g \in store : NameOf(g) # n}
Derived(k) == [id |-> k, form |-> "derived"]

\* Content of a group as previous versions have written it.
Legacy(k) == [user |-> IF k \in Account THEN Owner[k] ELSE NoUser,
              userId |-> NoUser, backendName |-> FALSE]

\* There need not be an account.
Init ==
    /\ \E As \in SUBSET Account, f \in [Id -> Form] :
          store = {[id |-> k, form |-> f[k], content |-> Legacy(k)]
                     : k \in As \cup User}
    /\ spec = {}
    /\ lastVersion = "old"
    /\ backendVersion = "old"
    /\ pc = [p \in Proc |-> "idle"]
    /\ phase = [p \in Proc |-> "accountList"]
    /\ names = [p \in Proc |-> {}]
    /\ all = [p \in Proc |-> {}]
    /\ partial = [p \in Proc |-> FALSE]
    /\ cur \in [Proc -> [id: Id, form: {"old"}]]
    /\ converted = [a \in Account |-> 0]
    /\ overlap = FALSE
    /\ faults = 0

disk  == <<store, spec, lastVersion, backendVersion, converted>>
local == <<phase, names, all, partial, cur>>

Goto(p, l) == pc' = [pc EXCEPT ![p] = l]
Fault == faults < MaxFault /\ faults' = faults + 1

-----------------------------------------------------------------------------
(* AB_Banking_Init() and AB_Banking_Fini().                                *)

\* A phase starts.  A backend that is up to date has nothing to read.
Begin(p, ph) ==
    /\ phase' = [phase EXCEPT ![p] = ph]
    /\ names' = [names EXCEPT ![p] = {}]
    /\ all' = [all EXCEPT ![p] = {}]
    /\ partial' = [partial EXCEPT ![p] = FALSE]
    /\ Goto(p, IF ph = "backends" /\ backendVersion = "current"
                 THEN "endUse" ELSE "list")
    /\ UNCHANGED <<disk, cur, faults>>

StartUp(p) ==
    /\ pc[p] = "idle"
    /\ lastVersion = "old"
    /\ Begin(p, "accountList")

StartUpToDate(p) ==
    /\ pc[p] = "idle"
    /\ lastVersion = "current"
    /\ Goto(p, "running")
    /\ UNCHANGED <<disk, local, faults>>

\* Mutant: the main group is saved as it was read.
Fini_NoVersion(p) ==
    /\ pc[p] = "running"
    /\ Goto(p, "idle")
    /\ UNCHANGED <<disk, local, faults>>

\* AB_Banking_Fini() stores the version of the library.
Fini(p) ==
    /\ pc[p] = "running"
    /\ lastVersion' = "current"
    /\ Goto(p, "idle")
    /\ UNCHANGED <<store, spec, backendVersion, converted, local, faults>>

\* The main group cannot be locked, read or written: the version stays.
FiniFails(p) ==
    /\ pc[p] = "running"
    /\ Fault
    /\ Goto(p, "idle")
    /\ UNCHANGED <<disk, local>>

Crash(p) ==
    /\ pc[p] # "idle"
    /\ Fault
    /\ Goto(p, "idle")
    /\ UNCHANGED <<disk, local>>

\* Mutant: every error is ignored.
Fail_Ignored(p) ==
    /\ Goto(p, "running")
    /\ UNCHANGED <<disk, local>>

\* An error ends AB_Banking_Init(), and with it the program; an error of a
\* backend is ignored.
Fail(p) ==
    /\ Goto(p, IF phase[p] = "backends" THEN "running" ELSE "idle")
    /\ UNCHANGED <<disk, local>>

-----------------------------------------------------------------------------
(* AB_Banking_ReadConfigGroups().                                          *)

ListGroups(p) ==
    /\ pc[p] = "list"
    /\ names' = [names EXCEPT ![p] =
                   {NameOf(g) : g \in {h \in store : h.id \in Table(phase[p])}}]
    /\ names'[p] # {}
    /\ Goto(p, "read")
    /\ UNCHANGED <<disk, phase, all, partial, cur, faults>>

\* There is no group at all: GWEN_ERROR_NOT_FOUND, which only
\* AB_Provider_CreateInitialAccountSpecs() takes for a success.
NothingListed(p) ==
    /\ pc[p] = "list"
    /\ {g \in store : g.id \in Table(phase[p])} = {}
    /\ IF phase[p] = "backends"
         THEN Goto(p, "endUse") /\ UNCHANGED <<disk, local>>
         ELSE Fail(p)
    /\ UNCHANGED faults

\* A backend wants the accounts that name it.
Wanted(p, g) == phase[p] = "backends" => g.content.backendName

ReadGroup(p, n) ==
    /\ pc[p] = "read"
    /\ n \in names[p]
    /\ names' = [names EXCEPT ![p] = @ \ {n}]
    /\ all' = [all EXCEPT ![p] =
                 @ \cup {g \in store : NameOf(g) = n /\ Wanted(p, g)}]
    /\ UNCHANGED <<disk, pc, phase, partial, cur, faults>>

\* A group that was deleted since it was listed may be unreadable, too.
GroupGone(p, n) ==
    /\ pc[p] = "read"
    /\ n \in names[p]
    /\ \A g \in store : NameOf(g) # n
    /\ names' = [names EXCEPT ![p] = @ \ {n}]
    /\ partial' = [partial EXCEPT ![p] = TRUE]
    /\ UNCHANGED <<disk, pc, phase, all, cur, faults>>

ReadFails(p, n) ==
    /\ pc[p] = "read"
    /\ n \in names[p]
    /\ Fault
    /\ names' = [names EXCEPT ![p] = @ \ {n}]
    /\ partial' = [partial EXCEPT ![p] = TRUE]
    /\ UNCHANGED <<disk, pc, phase, all, cur>>

\* GWEN_ERROR_PARTIAL; or GWEN_ERROR_NOT_FOUND, when nothing was wanted.
ReadDone(p) ==
    /\ pc[p] = "read"
    /\ names[p] = {}
    /\ IF partial[p] \/ (all[p] = {} /\ phase[p] # "backends")
         THEN Fail(p)
         ELSE Goto(p, "each") /\ UNCHANGED <<disk, local>>
    /\ UNCHANGED faults

-----------------------------------------------------------------------------
(* The phases, group by group.                                             *)

Took(p, g) == all' = [all EXCEPT ![p] = @ \ {g}]

\* AB_Banking_UpdateConfList(): the name is all right.
KeepName(p, g) ==
    /\ pc[p] = "each"
    /\ phase[p] \in {"accountList", "userList"}
    /\ g \in all[p]
    /\ g.form = "derived"
    /\ Took(p, g)
    /\ UNCHANGED <<disk, pc, phase, names, partial, cur, faults>>

\* Mutant: the old group is removed before the new one is written.
WriteDerived_DeleteFirst(p, g) ==
    /\ pc[p] = "each"
    /\ phase[p] \in {"accountList", "userList"}
    /\ g \in all[p]
    /\ g.form = "old"
    /\ IF g \in store
         THEN store' = Remove(NameOf(g)) /\ UNCHANGED <<all, pc, cur>>
         ELSE /\ store' = Put(Derived(g.id), g.content)
              /\ Took(p, g)
              /\ UNCHANGED <<pc, cur>>
    /\ UNCHANGED <<spec, lastVersion, backendVersion, converted, phase, names,
                   partial, faults>>

\* It is not: the copy is written under the derived name ...
WriteDerived(p, g) ==
    /\ pc[p] = "each"
    /\ phase[p] \in {"accountList", "userList"}
    /\ g \in all[p]
    /\ g.form = "old"
    /\ store' = Put(Derived(g.id), g.content)
    /\ Took(p, g)
    /\ cur' = [cur EXCEPT ![p] = NameOf(g)]
    /\ Goto(p, "delete")
    /\ UNCHANGED <<spec, lastVersion, backendVersion, converted, phase, names,
                   partial, faults>>

\* ... and the old group is deleted.
DeleteOld(p) ==
    /\ pc[p] = "delete"
    /\ store' = Remove(cur[p])
    /\ Goto(p, "each")
    /\ UNCHANGED <<spec, lastVersion, backendVersion, converted, local, faults>>

\* It is gone already, and deleting it is an error.
DeleteGone(p) ==
    /\ pc[p] = "delete"
    /\ \A g \in store : NameOf(g) # cur[p]
    /\ Fail(p)
    /\ UNCHANGED faults

\* Mutant: "user" is deleted before it is read.
SetUserId_DeleteFirst(p, g) ==
    /\ pc[p] = "each"
    /\ phase[p] = "setUserId"
    /\ g \in all[p]
    /\ store' = Put(Derived(g.id),
                    [g.content EXCEPT !.userId = NoUser, !.user = NoUser])
    /\ converted' = [converted EXCEPT ![g.id] = IF @ = 0 THEN 1 ELSE 2]
    /\ Took(p, g)
    /\ UNCHANGED <<spec, lastVersion, backendVersion, pc, phase, names, partial,
                   cur, faults>>

\* AB_Banking_Update_Account_SetUserId(): whatever "userId" is, it becomes
\* the value of "user", and "user" is deleted.
SetUserId(p, g) ==
    /\ pc[p] = "each"
    /\ phase[p] = "setUserId"
    /\ g \in all[p]
    /\ store' = Put(Derived(g.id),
                    [g.content EXCEPT !.userId = g.content.user, !.user = NoUser])
    /\ converted' = [converted EXCEPT ![g.id] = IF @ = 0 THEN 1 ELSE 2]
    /\ Took(p, g)
    /\ UNCHANGED <<spec, lastVersion, backendVersion, pc, phase, names, partial,
                   cur, faults>>

\* AB_Banking_Update_Account_SetBackendName().
SetBackendName(p, g) ==
    /\ pc[p] = "each"
    /\ phase[p] = "backendName"
    /\ g \in all[p]
    /\ store' = Put(Derived(g.id), [g.content EXCEPT !.backendName = TRUE])
    /\ Took(p, g)
    /\ UNCHANGED <<spec, lastVersion, backendVersion, converted, pc, phase,
                   names, partial, cur, faults>>

\* AB_Provider_CreateInitialAccountSpecs(): the backend reads the account
\* again, and its user (AH_Provider_UpdateAccountSpec()).
HasUser(a) ==
    \E g, h \in store : /\ NameOf(g) = Derived(a)
                        /\ g.content.userId # NoUser
                        /\ NameOf(h) = Derived(g.content.userId)

CreateSpec(p, g) ==
    /\ pc[p] = "each"
    /\ phase[p] = "backends"
    /\ g \in all[p]
    /\ HasUser(g.id)
    /\ spec' = spec \cup {g.id}
    /\ Took(p, g)
    /\ UNCHANGED <<store, lastVersion, backendVersion, converted, pc, phase,
                   names, partial, cur, faults>>

CreateSpecFails(p, g) ==
    /\ pc[p] = "each"
    /\ phase[p] = "backends"
    /\ g \in all[p]
    /\ ~HasUser(g.id)
    /\ Fail(p)
    /\ UNCHANGED faults

\* A group cannot be locked, written or deleted.
WriteFails(p) ==
    /\ \/ pc[p] = "each" /\ all[p] # {}
       \/ pc[p] \in {"delete", "endUse"}
    /\ Fault
    /\ Fail(p)

EachDone(p) ==
    /\ pc[p] = "each"
    /\ all[p] = {}
    /\ IF phase[p] = "backends"
         THEN Goto(p, "endUse") /\ UNCHANGED <<disk, local, faults>>
         ELSE Begin(p, After(phase[p]))

\* AB_Banking_EndUseProvider(): the backend stores its version.
EndUse(p) ==
    /\ pc[p] = "endUse"
    /\ backendVersion' = "current"
    /\ Goto(p, "running")
    /\ UNCHANGED <<store, spec, lastVersion, converted, local, faults>>

\* A running program uses a backend whose update has failed.
UseBackend(p) ==
    /\ pc[p] = "running"
    /\ backendVersion = "old"
    /\ Begin(p, "backends")

-----------------------------------------------------------------------------
Read(p) == \/ ListGroups(p) \/ NothingListed(p) \/ ReadDone(p)
           \/ \E n \in names[p] :
                 ReadGroup(p, n) \/ GroupGone(p, n) \/ ReadFails(p, n)
OneGroup(p) == \E g \in all[p] :
                 \/ KeepName(p, g) \/ WriteDerived(p, g)
                 \/ SetUserId(p, g) \/ SetBackendName(p, g)
                 \/ CreateSpec(p, g) \/ CreateSpecFails(p, g)
Work(p) == \/ Read(p) \/ OneGroup(p) \/ DeleteOld(p) \/ DeleteGone(p)
           \/ WriteFails(p) \/ EachDone(p) \/ EndUse(p)

Step(p) == \/ StartUp(p) \/ StartUpToDate(p)
           \/ Fini(p) \/ FiniFails(p) \/ Crash(p)
           \/ UseBackend(p) \/ Work(p)

KeepsHistory ==
    overlap' = (overlap \/ \E p, q \in Proc : /\ p # q
                                            /\ pc'[p] # "idle"
                                            /\ pc'[q] # "idle")

Next == (\E p \in Proc : Step(p)) /\ KeepsHistory

\* Programs are started again and again, go on with what they do, use their
\* backends and end.
Fairness ==
    \A p \in Proc :
        /\ WF_vars((StartUp(p) \/ StartUpToDate(p)) /\ KeepsHistory)
        /\ WF_vars(Work(p) /\ KeepsHistory)
        /\ SF_vars(UseBackend(p) /\ KeepsHistory)
        /\ SF_vars(Fini(p) /\ KeepsHistory)

Spec == Init /\ [][Next]_vars
FairSpec == Spec /\ Fairness

-----------------------------------------------------------------------------
(* Properties.                                                             *)

TypeOK ==
    /\ store \subseteq Group
    /\ spec \subseteq Account
    /\ lastVersion \in Version
    /\ backendVersion \in Version
    /\ pc \in [Proc -> PC]
    /\ phase \in [Proc -> Phase]
    /\ names \in [Proc -> SUBSET Name]
    /\ all \in [Proc -> SUBSET Group]
    /\ partial \in [Proc -> BOOLEAN]
    /\ cur \in [Proc -> [id: Id, form: {"old"}]]
    /\ converted \in [Account -> 0..2]
    /\ overlap \in BOOLEAN
    /\ faults \in 0..MaxFault

Has(k) == \E g \in store : g.id = k

\* Wherever programs crash and however they interleave, an account or a user
\* keeps a group: the old one goes when the new one is there.
NoGroupLost == [][\A k \in Id : Has(k) => Has(k)']_vars

\* The user of an account, in the old variable or the new one.
KnowsOwner(a, c) == Owner[a] \in {c.user, c.userId}

\* An account that no longer knows its user has been converted twice: an
\* update that is interrupted before it has converted an account does no
\* harm, and converting it once keeps the user.
UserKeptByOneUpdate ==
    \A g \in store : g.id \in Account =>
                     (converted[g.id] < 2 => KnowsOwner(g.id, g.content))

\* What a group, or an old copy of it, knows of the user.
KnowsAll(g) ==
    g.id \in Account =>
        /\ converted[g.id] = 0 => g.content.user = Owner[g.id]
        /\ converted[g.id] < 2 => KnowsOwner(g.id, g.content)

\* The new version is stored only when every group is under its new name,
\* and every account has its user id and the name of its backend: the update
\* is never taken for complete when it is not, unless a second program, which
\* works on older copies, runs at the same time.
UpToDate(g) == /\ g.form = "derived"
               /\ g.id \in Account => /\ g.content.user = NoUser
                                      /\ g.content.backendName
CurrentIsComplete ==
    lastVersion = "current" /\ ~overlap => \A g \in store : UpToDate(g)

\* The update, interrupted or not and of several programs or one, is complete
\* some time, and stays so, if there is an account at all.
UpdateCompletes ==
    (\E a \in Account : Has(a)) => <>[](lastVersion = "current")

\* A program works on groups of the table of its phase.
InTable(p) ==
    pc[p] \in {"list", "read", "each", "delete"} =>
        /\ \A n \in names[p] : n.id \in Table(phase[p])
        /\ \A g \in all[p] : g.id \in Table(phase[p])

\* The inductive invariant: the group that is about to be deleted has been
\* written under its new name, and copies, however old, know the users.
IInv ==
    /\ TypeOK
    /\ \A p \in Proc : InTable(p)
    /\ \A p \in Proc : pc[p] = "delete" =>
                       \E g \in store : NameOf(g) = Derived(cur[p].id)
    /\ \A g \in store : KnowsAll(g)
    /\ \A p \in Proc : \A g \in all[p] : KnowsAll(g)
=============================================================================
