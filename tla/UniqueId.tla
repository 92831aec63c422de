------------------------------ MODULE UniqueId ------------------------------
(***************************************************************************)
(* AB_Banking_GetNamedUniqueId() (src/libs/aqbanking/banking.c), called by *)
(* several applications at once.  All counters live in ONE config group,   *)
(* main/uniqueId.  A call locks the group, reads it as a whole into a      *)
(* private copy, increments one counter of the copy, writes the whole      *)
(* group back and unlocks it.  Every one of these calls of the config      *)
(* manager may fail, and the process may die between any two of them.      *)
(*                                                                         *)
(* The config manager (GWEN_CONFIGMGR, gwenhywfar) is external: a lock is  *)
(* exclusive and not reentrant, an attempt on a held lock gives up after a *)
(* while, reading and writing a group is atomic.  The lock of a process    *)
(* that died is either stale or detected and removed: both are allowed.    *)
(***************************************************************************)
EXTENDS Integers

CONSTANTS
    App,      \* processes that share the settings folder
    IdName,   \* counters asked for by name
    Std,      \* the standard counter "uniqueId" new counters start at
    Nobody,   \* no process holds the lock
    MaxCalls  \* bound: number of calls made in a behaviour

ASSUME UniqueIdAssumption ==
    /\ Nobody \notin App
    /\ Std \notin IdName
    /\ MaxCalls \in Nat

VARIABLES
    owner,    \* holder of the lock of group main/uniqueId
    counter,  \* the stored group: [Counter -> last id given from it]
    pc,       \* where the call of an application stands
    name,     \* the counter it asks for (idName)
    buf,      \* its private copy of the group (dbConfig)
    uid,      \* the id it computed
    ret,      \* what its last call returned
    calls,    \* number of calls made so far
    taken     \* history: ids written to the store, by counter name

vars == <<owner, counter, pc, name, buf, uid, ret, calls, taken>>

Counter == IdName \cup {Std}
Failed  == -1                      \* any negative error code
PC      == {"idle", "lock", "get", "set", "unlock", "abort", "dead"}
Holding == {"get", "set", "unlock", "abort"}

Init ==
    /\ owner = Nobody
    /\ counter = [c \in Counter |-> 0]
    /\ pc    = [p \in App |-> "idle"]
    /\ name \in [App -> IdName]
    /\ buf   = [p \in App |-> [c \in Counter |-> 0]]
    /\ uid   = [p \in App |-> 0]
    /\ ret   = [p \in App |-> 0]
    /\ calls = 0
    /\ taken = [n \in IdName |-> {}]

Goto(p, l) == pc' = [pc EXCEPT ![p] = l]

Return(p, r) ==
    /\ Goto(p, "idle")
    /\ ret' = [ret EXCEPT ![p] = r]

\* An application asks for an id; startAtStdUniqueId is 1 in every call.
Call(p, n) ==
    /\ pc[p] = "idle"
    /\ calls < MaxCalls
    /\ calls' = calls + 1
    /\ name' = [name EXCEPT ![p] = n]
    /\ Goto(p, "lock")
    /\ UNCHANGED <<owner, counter, buf, uid, ret, taken>>

\* Mutant: the group is not locked before it is read.
LockGroup_Unlocked(p) ==
    /\ pc[p] = "lock"
    /\ owner' = p
    /\ Goto(p, "get")
    /\ UNCHANGED <<counter, name, buf, uid, ret, calls, taken>>

LockGroup(p) ==
    /\ pc[p] = "lock"
    /\ owner = Nobody
    /\ owner' = p
    /\ Goto(p, "get")
    /\ UNCHANGED <<counter, name, buf, uid, ret, calls, taken>>

\* Mutant: a lock attempt waits for the holder and never gives up.
LockFails_Waits(p) ==
    /\ pc[p] = "lock"
    /\ owner = Nobody
    /\ Return(p, Failed)
    /\ UNCHANGED <<owner, counter, name, buf, uid, calls, taken>>

\* The lock is held by somebody (this process included), or I/O failed.
LockFails(p) ==
    /\ pc[p] = "lock"
    /\ Return(p, Failed)
    /\ UNCHANGED <<owner, counter, name, buf, uid, calls, taken>>

GetGroup(p) ==
    /\ pc[p] = "get"
    /\ buf' = [buf EXCEPT ![p] = counter]
    /\ Goto(p, "set")
    /\ UNCHANGED <<owner, counter, name, uid, ret, calls, taken>>

\* This error path returns WITHOUT unlocking the group.
GetFails(p) ==
    /\ pc[p] = "get"
    /\ Return(p, Failed)
    /\ UNCHANGED <<owner, counter, name, buf, uid, calls, taken>>

\* Mutant: the id is not incremented before it is stored.
NewId_NoIncrement(b, n) == IF b[n] = 0 THEN b[Std] + 1 ELSE b[n]

\* A counter that is still zero starts at the standard counter, which then
\* counts as well; every other counter is incremented on its own.
NewId(b, n) == IF b[n] = 0 THEN b[Std] + 1 ELSE b[n] + 1

NewGroup(b, n) ==
    [c \in Counter |->
        IF c = n \/ (c = Std /\ b[n] = 0) THEN NewId(b, n) ELSE b[c]]

SetGroup(p) ==
    /\ pc[p] = "set"
    /\ LET n == name[p] IN
        /\ uid' = [uid EXCEPT ![p] = NewId(buf[p], n)]
        /\ counter' = NewGroup(buf[p], n)
        /\ taken' = [taken EXCEPT ![n] = @ \cup {NewId(buf[p], n)}]
    /\ Goto(p, "unlock")
    /\ UNCHANGED <<owner, name, buf, ret, calls>>

SetFails(p) ==
    /\ pc[p] = "set"
    /\ Goto(p, "abort")
    /\ UNCHANGED <<owner, counter, name, buf, uid, ret, calls, taken>>

\* The unlock after a failed write: its result is not looked at.
AbortUnlock(p) ==
    /\ pc[p] = "abort"
    /\ owner' \in {Nobody, owner}
    /\ Return(p, Failed)
    /\ UNCHANGED <<counter, name, buf, uid, calls, taken>>

UnlockGroup(p) ==
    /\ pc[p] = "unlock"
    /\ owner' = Nobody
    /\ Return(p, uid[p])
    /\ UNCHANGED <<counter, name, buf, uid, calls, taken>>

\* Mutant: the result of the unlock is ignored.
UnlockFails_Ignored(p) ==
    /\ pc[p] = "unlock"
    /\ Return(p, uid[p])
    /\ UNCHANGED <<owner, counter, name, buf, uid, calls, taken>>

\* The id is stored but the caller gets an error: the id is lost.
UnlockFails(p) ==
    /\ pc[p] = "unlock"
    /\ Return(p, Failed)
    /\ UNCHANGED <<owner, counter, name, buf, uid, calls, taken>>

Crash(p) ==
    /\ pc[p] # "dead"
    /\ Goto(p, "dead")
    /\ owner' \in IF owner = p THEN {Nobody, p} ELSE {owner}
    /\ UNCHANGED <<counter, name, buf, uid, ret, calls, taken>>

\* One step of a call that has been made.
Step(p) ==
    \/ LockGroup(p) \/ LockFails(p)
    \/ GetGroup(p)  \/ GetFails(p)
    \/ SetGroup(p)  \/ SetFails(p) \/ AbortUnlock(p)
    \/ UnlockGroup(p) \/ UnlockFails(p)

Next ==
    \E p \in App :
        \/ \E n \in IdName : Call(p, n)
        \/ Step(p)
        \/ Crash(p)

\* A call runs to its end: it is straight-line code and a lock attempt gives
\* up by itself.  Nothing obliges an application to call or to die.
Fairness == \A p \in App : WF_vars(Step(p))

Spec == Init /\ [][Next]_vars /\ Fairness

-----------------------------------------------------------------------------
\* Types of the variables.
TypeOK ==
    /\ owner \in App \cup {Nobody}
    /\ counter \in [Counter -> Nat]
    /\ pc \in [App -> PC]
    /\ name \in [App -> IdName]
    /\ buf \in [App -> [Counter -> Nat]]
    /\ uid \in [App -> Nat]
    /\ ret \in [App -> Nat \cup {Failed}]
    /\ calls \in 0 .. MaxCalls
    /\ taken \in [IdName -> SUBSET Nat]

\* A process between GWEN_ConfigMgr_LockGroup() and the unlock holds the
\* lock, so no two processes are between them at once.
LockProtects == \A p \in App : pc[p] \in Holding => owner = p

\* The private copy of a process about to write is the stored group.
CopyIsCurrent == \A p \in App : pc[p] = "set" => buf[p] = counter

\* An id that left a counter is not above what is stored for the counter.
TakenBelowCounter == \A n \in IdName : \A i \in taken[n] : i <= counter[n]

\* The id of a call that wrote its counter is one that left the counter.
DrawnIsTaken ==
    \A p \in App : pc[p] = "unlock" => uid[p] \in taken[name[p]] \ {0}

\* A call that handed out an id has released the lock: whoever leaves the
\* group locked behind its back got an error from its last call.
OnlyErrorsLeak ==
    \A p \in App :
        pc[p] \in {"idle", "lock"} /\ owner = p => ret[p] = Failed

\* The inductive invariant.
IInv ==
    /\ TypeOK
    /\ LockProtects
    /\ CopyIsCurrent
    /\ TakenBelowCounter
    /\ DrawnIsTaken
    /\ OnlyErrorsLeak

\* An id is handed out at most once per counter name, however the calls of
\* several processes overlap, fail or die (banking.c GetNamedUniqueId).
NoReissue ==
    [][\A p \in App :
          pc[p] = "set" /\ pc'[p] = "unlock" => uid'[p] \notin taken[name[p]]]_vars

\* Writing the whole group back never rolls back a counter that another
\* process advanced in the meantime (banking.c GetNamedUniqueId).
CountersNeverFall == [][\A c \in Counter : counter'[c] >= counter[c]]_vars

\* Every call ends, with an id or with an error, unless the process dies:
\* a lock left behind by another process does not block it for ever.
CallReturns == \A p \in App : pc[p] = "lock" ~> pc[p] \in {"idle", "dead"}

-----------------------------------------------------------------------------
\* Refinement: the allocation takes place when the group is written.
AbsPhase(p) ==
    CASE pc[p] \in {"idle", "dead"}                -> pc[p]
      [] pc[p] \in {"lock", "get", "set", "abort"} -> "asked"
      [] pc[p] = "unlock"                          -> "drawn"

Abs == INSTANCE UniqueIdAbs WITH
    phase <- [p \in App |-> AbsPhase(p)],
    id    <- uid

\* The locked read-modify-write of banking.c implements the atomic
\* allocation of UniqueIdAbs.
ImplementsAbs == Abs!Spec
=============================================================================
