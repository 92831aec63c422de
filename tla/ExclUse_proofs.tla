--------------------------- MODULE ExclUse_proofs ---------------------------
(***************************************************************************)
(* Proofs about ExclUse, for any set of processes and users, any number of *)
(* sessions and any faults.  For the sessions the program really has (no   *)
(* "reopen"): the inductive invariant, and that no stored change is lost.  *)
(* For sessions of every kind: which locks stay behind.                    *)
(***************************************************************************)
EXTENDS ExclUse, TLAPS

\* The sessions are those of the dialogs, commands and the outbox.
NoReopen == "reopen" \notin Kind

Inv == NoReopen /\ IInv

\* The invariant holds initially.
LEMMA IInvInit == Init => IInv
<1>1. ASSUME Init PROVE TypeOK
  <2>1. leaky \in BOOLEAN
    BY <1>1, Zenon DEF Init
  <2>2. /\ started \in Nat
        /\ err \in [Proc -> BOOLEAN]
        /\ exists \in [User -> BOOLEAN]
    BY <1>1 DEF Init
  <2> QED
    BY <1>1, <2>1, <2>2, ExclUseAssumption DEF Init, TypeOK, PC
<1>2. Init => PhaseOK /\ Exclusive /\ CopyIsCurrent /\ EndedIsReleased
  BY DEF Init, PhaseOK, Exclusive, Claims, CopyIsCurrent, EndedIsReleased
<1> QED
  BY <1>1, <1>2 DEF IInv

\* A new session claims nothing yet.
LEMMA StartKeeps ==
    ASSUME Inv, NEW p \in Proc, NEW k \in Kind, NEW us \in SUBSET User,
           Start(p, k, us)
    PROVE  IInv'
BY DEF Start, store, Goto, Inv, IInv, TypeOK, PhaseOK, Exclusive, Claims,
       CopyIsCurrent, EndedIsReleased, PC

\* A lock is taken only when it is free.
LEMMA LockUserKeeps ==
    ASSUME Inv, NEW p \in Proc, NEW u \in User, LockUser(p, u)
    PROVE  IInv'
BY ExclUseAssumption
DEF LockUser, store, Goto, Inv, IInv, TypeOK, PhaseOK, Exclusive, Claims,
    CopyIsCurrent, EndedIsReleased, PC

\* A session that gives up keeps its claims on the users it has locked.
LEMMA LockFailsKeeps ==
    ASSUME Inv, NEW p \in Proc, NEW u \in User, LockFails(p, u)
    PROVE  IInv'
BY DEF LockFails, GiveUp, Failed, store, Goto, Inv, IInv, TypeOK, PhaseOK,
       Exclusive, Claims, CopyIsCurrent, EndedIsReleased, PC

\* The copy of the user just read is the stored configuration.
LEMMA ReadUserKeeps ==
    ASSUME Inv, NEW p \in Proc, ReadUser(p)
    PROVE  IInv'
<1>1. /\ pc[p] = "read"
      /\ copy' = [copy EXCEPT ![p][cur[p]] = stored[cur[p]]]
      /\ locked' = [locked EXCEPT ![p] = @ \cup {cur[p]}]
      /\ pc' = [pc EXCEPT ![p] = IF locked'[p] = users[p] THEN "use"
                                                         ELSE "lock"]
      /\ UNCHANGED <<owner, exists, stored, kind, users, cur, err, sess,
                     started>>
      /\ leaky' \in BOOLEAN
  BY DEF ReadUser, AddLocked, Goto, store, Inv, NoReopen, IInv, TypeOK
<1>2. /\ cur[p] \in users[p] \ locked[p] /\ owner[cur[p]] = p
      /\ cur[p] \in User
  BY <1>1 DEF Inv, IInv, TypeOK, PhaseOK, Exclusive, Claims
<1>3. TypeOK'
  BY <1>1, <1>2 DEF Inv, IInv, TypeOK, PC
<1>4. PhaseOK'
  BY <1>1, <1>2 DEF Inv, IInv, TypeOK, PhaseOK, PC
<1>5. Exclusive'
  BY <1>1, <1>2 DEF Inv, IInv, TypeOK, Exclusive, Claims
<1>6. CopyIsCurrent'
  <2> SUFFICES ASSUME NEW q \in Proc, NEW u \in locked'[q]
               PROVE  stored'[u] \subseteq copy'[q][u]
    BY DEF CopyIsCurrent
  <2>1. CASE q = p /\ u = cur[p]
    BY <1>1, <1>2, <2>1 DEF Inv, IInv, TypeOK
  <2>2. CASE ~(q = p /\ u = cur[p])
    <3>1. u \in locked[q] /\ u \in User
      BY <1>1, <2>2 DEF Inv, IInv, TypeOK
    <3>2. copy'[q][u] = copy[q][u]
      BY <1>1, <2>2, <3>1 DEF Inv, IInv, TypeOK
    <3> QED
      BY <1>1, <3>1, <3>2 DEF Inv, IInv, CopyIsCurrent
  <2> QED
    BY <2>1, <2>2
<1>7. EndedIsReleased'
  BY <1>1 DEF Inv, IInv, TypeOK, EndedIsReleased
<1> QED
  BY <1>3, <1>4, <1>5, <1>6, <1>7 DEF IInv

\* The failed read gives back the lock just taken, or leaves it behind.
LEMMA ReadErrorKeeps ==
    ASSUME Inv, NEW p \in Proc, ReadFails(p) \/ ReadNotFound(p)
    PROVE  IInv'
<1>1. /\ pc[p] = "read"
      /\ pc' = [pc EXCEPT ![p] = "abandon"]
      /\ err' = [err EXCEPT ![p] = TRUE]
      /\ owner' = owner \/ owner' = [owner EXCEPT ![cur[p]] = Nobody]
      /\ UNCHANGED <<exists, stored, kind, users, locked, cur, copy, sess,
                     started>>
      /\ leaky' \in BOOLEAN
  BY DEF Inv, IInv, TypeOK, ReadFails, ReadNotFound, GiveUp, Failed, Goto, store
<1>2. /\ cur[p] \in User \ locked[p]
      /\ \A q \in Proc : cur[p] \in Claims(q) => q = p
  BY <1>1 DEF Inv, IInv, TypeOK, PhaseOK, Exclusive, Claims
<1>3. TypeOK'
  BY <1>1 DEF Inv, IInv, TypeOK, PC
<1>4. PhaseOK'
  BY <1>1 DEF Inv, IInv, TypeOK, PhaseOK, PC
<1>5. Exclusive'
  BY <1>1, <1>2 DEF Inv, IInv, TypeOK, Exclusive, Claims
<1>6. CopyIsCurrent'
  BY <1>1 DEF Inv, IInv, TypeOK, CopyIsCurrent
<1>7. EndedIsReleased'
  BY <1>1, ExclUseAssumption DEF Inv, IInv, TypeOK, EndedIsReleased
<1> QED
  BY <1>3, <1>4, <1>5, <1>6, <1>7 DEF IInv

\* Nobody unlocks a user after reading it.
LEMMA NoDrop ==
    ASSUME Inv, NEW p \in Proc
    PROVE  ~DropLock(p) /\ ~DropFails(p)
BY DEF DropLock, DropFails, Inv, NoReopen, IInv, TypeOK, PhaseOK

\* A change only adds to the copies of the session.
LEMMA UseKeeps ==
    ASSUME Inv, NEW p \in Proc, Use(p) \/ UseFails(p)
    PROVE  IInv'
<1>1. CASE UseFails(p)
  BY <1>1 DEF UseFails, GiveUp, Failed, store, Goto, Inv, IInv, TypeOK,
     PhaseOK, Exclusive, Claims, CopyIsCurrent, EndedIsReleased, PC
<1>2. CASE Use(p)
  <2>1. /\ pc[p] = "use" /\ locked[p] = users[p]
        /\ pc' = [pc EXCEPT ![p] = "end"]
        /\ UNCHANGED <<owner, exists, stored, kind, users, locked, cur, err,
                       sess, started>>
        /\ leaky' \in BOOLEAN
    BY <1>2 DEF Use, Goto, store, Inv, IInv, TypeOK, PhaseOK
  <2>2. /\ copy' \in [Proc -> [User -> SUBSET Nat]]
        /\ \A q \in Proc, u \in User : copy[q][u] \subseteq copy'[q][u]
    BY <1>2 DEF Use, Inv, IInv, TypeOK
  <2>3. TypeOK'
    BY <2>1, <2>2 DEF Inv, IInv, TypeOK, PC
  <2>4. PhaseOK' /\ Exclusive' /\ EndedIsReleased'
    BY <2>1 DEF Inv, IInv, TypeOK, PhaseOK, PC, Exclusive, Claims,
                EndedIsReleased
  <2>5. CopyIsCurrent'
    BY <2>1, <2>2 DEF Inv, IInv, TypeOK, CopyIsCurrent
  <2> QED
    BY <2>3, <2>4, <2>5 DEF IInv
<1> QED
  BY <1>1, <1>2

\* A write is that of the lock's holder, whose copy it makes the stored one.
LEMMA WriteUserKeeps ==
    ASSUME Inv, NEW p \in Proc, NEW u \in User, WriteUser(p, u)
    PROVE  IInv'
BY DEF WriteUser, Goto, Inv, IInv, TypeOK, PhaseOK,
       Exclusive, Claims, CopyIsCurrent, EndedIsReleased, PC

\* A failed write or unlock records an error.
LEMMA EndFailsKeeps ==
    ASSUME Inv, NEW p \in Proc, NEW u \in User,
           WriteFails(p, u) \/ UnlockFails(p)
    PROVE  IInv'
<1>1. /\ pc[p] \in {"end", "unlock"}
      /\ pc'[p] \in {"abandon", "end"}
      /\ pc' = [pc EXCEPT ![p] = pc'[p]]
      /\ err' = [err EXCEPT ![p] = TRUE]
      /\ locked'[p] \subseteq locked[p]
      /\ locked' = [locked EXCEPT ![p] = locked'[p]]
      /\ UNCHANGED <<owner, exists, stored, kind, users, cur, copy, sess,
                     started>>
      /\ leaky' \in BOOLEAN
  <2>1. leaky' \in BOOLEAN
    <3>1. leaky' = TRUE \/ leaky' = (leaky \/ owner[cur[p]] = p)
      BY DEF WriteFails, UnlockFails
    <3> QED
      BY <3>1, Zenon
  <2> QED
    BY <2>1 DEF WriteFails, UnlockFails, EndFails, Failed, Goto, store, Inv,
                IInv, TypeOK
<1>2. TypeOK'
  BY <1>1 DEF Inv, IInv, TypeOK, PC
<1>3. PhaseOK'
  BY <1>1 DEF Inv, IInv, TypeOK, PhaseOK, PC
<1>4. Exclusive'
  BY <1>1 DEF Inv, IInv, TypeOK, Exclusive, Claims
<1>5. CopyIsCurrent'
  BY <1>1 DEF Inv, IInv, TypeOK, CopyIsCurrent
<1>6. EndedIsReleased'
  BY <1>1 DEF Inv, IInv, TypeOK, EndedIsReleased
<1> QED
  BY <1>2, <1>3, <1>4, <1>5, <1>6 DEF IInv

\* An unlocked user is no longer claimed.
LEMMA UnlockKeeps ==
    ASSUME Inv, NEW p \in Proc, NEW u \in User,
           UnlockUser(p) \/ AbandonUser(p, u)
    PROVE  IInv'
<1>1. PICK v \in locked[p] :
         /\ pc[p] \in {"unlock", "abandon"} /\ v \in User
         /\ owner' = owner \/ owner' = [owner EXCEPT ![v] = Nobody]
         /\ pc[p] = "unlock" => owner' = [owner EXCEPT ![v] = Nobody]
         /\ locked' = [locked EXCEPT ![p] = @ \ {v}]
         /\ pc[p] = "unlock" => pc' = [pc EXCEPT ![p] = "end"]
         /\ pc[p] = "abandon" => pc' = pc
         /\ UNCHANGED <<exists, stored, kind, users, cur, copy, err, sess,
                        started>>
         /\ leaky' \in BOOLEAN
  <2>1. CASE UnlockUser(p)
    <3>1. cur[p] \in locked[p] /\ cur[p] \in User
      BY <2>1 DEF UnlockUser, Inv, IInv, TypeOK, PhaseOK
    <3>2. /\ pc[p] = "unlock"
          /\ owner' = [owner EXCEPT ![cur[p]] = Nobody]
          /\ locked' = [locked EXCEPT ![p] = @ \ {cur[p]}]
          /\ pc' = [pc EXCEPT ![p] = "end"]
          /\ UNCHANGED <<exists, stored, kind, users, cur, copy, err, sess,
                         started>>
          /\ leaky' \in BOOLEAN
      BY <2>1 DEF UnlockUser, Goto, store, Inv, IInv, TypeOK
    <3> QED
      BY <3>1, <3>2
  <2>2. CASE AbandonUser(p, u)
    BY <2>2 DEF AbandonUser, store, Inv, IInv, TypeOK
  <2> QED
    BY <2>1, <2>2
<1>2. \A q \in Proc : v \in Claims(q) => q = p
  BY <1>1 DEF Inv, IInv, TypeOK, Exclusive, Claims
<1>3. TypeOK'
  BY <1>1 DEF Inv, IInv, TypeOK, PC
<1>4. PhaseOK'
  BY <1>1 DEF Inv, IInv, TypeOK, PhaseOK, PC
<1>5. Exclusive'
  BY <1>1, <1>2 DEF Inv, IInv, TypeOK, Exclusive, Claims
<1>6. CopyIsCurrent'
  BY <1>1 DEF Inv, IInv, TypeOK, CopyIsCurrent
<1>7. EndedIsReleased'
  BY <1>1, ExclUseAssumption DEF Inv, IInv, TypeOK, EndedIsReleased
<1> QED
  BY <1>3, <1>4, <1>5, <1>6, <1>7 DEF IInv

LEMMA FinishKeeps ==
    ASSUME Inv, NEW p \in Proc, Finish(p)
    PROVE  IInv'
BY DEF Finish, store, Goto, Inv, IInv, TypeOK, PhaseOK, Exclusive, Claims,
       CopyIsCurrent, EndedIsReleased, PC

\* A dead process claims nothing, and only its own locks may vanish.
LEMMA CrashKeeps ==
    ASSUME Inv, NEW p \in Proc, Crash(p)
    PROVE  IInv'
BY ExclUseAssumption
DEF Crash, store, Goto, Inv, IInv, TypeOK, PhaseOK, Exclusive, Claims,
    CopyIsCurrent, EndedIsReleased, PC

\* Deleting a user empties its configuration.
LEMMA DeleteKeeps ==
    ASSUME Inv, NEW u \in User, DeleteUser(u)
    PROVE  IInv'
BY DEF DeleteUser, Inv, IInv, TypeOK, PhaseOK, Exclusive, Claims,
       CopyIsCurrent, EndedIsReleased, PC

\* Every step of the specification keeps the invariant.
LEMMA IInvStep == Inv /\ [Next]_vars => IInv'
<1> SUFFICES ASSUME Inv, [Next]_vars PROVE IInv'
  OBVIOUS
<1>1. CASE UNCHANGED vars
  BY <1>1 DEF vars, store, Inv, IInv, TypeOK, PhaseOK, Exclusive, Claims,
              CopyIsCurrent, EndedIsReleased
<1>2. ASSUME NEW p \in Proc, NEW k \in Kind, NEW us \in SUBSET User,
             Start(p, k, us)
      PROVE  IInv'
  BY <1>2, StartKeeps
<1>3. ASSUME NEW p \in Proc, Begin(p) PROVE IInv'
  BY <1>3, LockUserKeeps, LockFailsKeeps, ReadUserKeeps, ReadErrorKeeps, NoDrop
  DEF Begin
<1>4. ASSUME NEW p \in Proc, End(p) PROVE IInv'
  <2>1. ASSUME NEW u \in User,
               WriteUser(p, u) \/ WriteFails(p, u) \/ AbandonUser(p, u)
        PROVE  IInv'
    BY <2>1, WriteUserKeeps, EndFailsKeeps, UnlockKeeps
  <2>2. CASE UnlockUser(p) \/ UnlockFails(p)
    <3>1. cur[p] \in User
      BY DEF Inv, IInv, TypeOK
    <3> QED
      BY <2>2, <3>1, EndFailsKeeps, UnlockKeeps
  <2>3. CASE Finish(p)
    BY <2>3, FinishKeeps
  <2> QED
    BY <1>4, <2>1, <2>2, <2>3 DEF End
<1>5. ASSUME NEW p \in Proc, Step(p) PROVE IInv'
  BY <1>5, <1>3, <1>4, UseKeeps DEF Step
<1>6. ASSUME NEW p \in Proc, Crash(p) PROVE IInv'
  BY <1>6, CrashKeeps
<1>7. ASSUME NEW u \in User, DeleteUser(u) PROVE IInv'
  BY <1>7, DeleteKeeps
<1>8. \A u \in User : {u} \in SUBSET User
  OBVIOUS
<1> QED
  BY <1>1, <1>2, <1>5, <1>6, <1>7, <1>8 DEF Next

\* In every behaviour of the real sessions: a user in use is locked by its
\* user alone, and the copy a session will write back is never outdated.
THEOREM Invariant ==
    ASSUME NoReopen
    PROVE  Spec => []IInv
<1>1. IInv /\ [Next]_vars => IInv'
  BY IInvStep DEF Inv
<1> QED
  BY <1>1, IInvInit, PTL DEF Spec

\* The banks are contacted only while every user concerned is locked
\* (outbox.c AH_Outbox_Execute).
THEOREM AllLocksWhileSending ==
    ASSUME NoReopen
    PROVE  Spec => []SendsWithAllLocks
<1>1. IInv => SendsWithAllLocks
  BY DEF IInv, PhaseOK, Exclusive, Claims, SendsWithAllLocks
<1> QED
  BY <1>1, Invariant, PTL

\* What a step does to the stored configurations.
LEMMA StoredGrows ==
    ASSUME Inv, [Next]_vars, NEW u \in User
    PROVE  stored[u] \subseteq stored'[u] \/ ~exists'[u]
<1>1. CASE stored' = stored
  BY <1>1
<1>2. ASSUME NEW p \in Proc, NEW v \in User, WriteUser(p, v)
      PROVE  stored[u] \subseteq stored'[u]
  <2>1. stored[v] \subseteq copy[p][v]
    BY <1>2 DEF WriteUser, Inv, IInv, CopyIsCurrent
  <2> QED
    BY <1>2, <2>1 DEF WriteUser, Inv, IInv, TypeOK
<1>3. ASSUME NEW v \in User, DeleteUser(v)
      PROVE  stored[u] \subseteq stored'[u] \/ ~exists'[u]
  BY <1>3 DEF DeleteUser, Inv, IInv, TypeOK
<1>4. CASE stored' # stored
  <2>1. \/ \E p \in Proc, v \in User : WriteUser(p, v)
        \/ \E v \in User : DeleteUser(v)
    BY <1>4 DEF Next, vars, store, Start, Step, Begin, Use, UseFails, End,
       LockUser, LockFails, ReadUser, ReadFails, ReadNotFound, DropLock,
       DropFails, GiveUp, WriteFails, UnlockUser, UnlockFails, EndFails,
       AbandonUser, Finish, Crash
  <2> QED
    BY <2>1, <1>2, <1>3
<1> QED
  BY <1>1, <1>4

\* No change of a user's configuration that was stored is lost while the
\* user exists, whatever sessions overlap, fail or die.
THEOREM NothingLost ==
    ASSUME NoReopen
    PROVE  Spec => NoLostUpdate
<1>1. IInv /\ [Next]_vars =>
        [\A u \in User : stored[u] \subseteq stored'[u] \/ ~exists'[u]]_vars
  BY StoredGrows DEF Inv
<1> QED
  BY <1>1, Invariant, PTL DEF Spec, NoLostUpdate

-----------------------------------------------------------------------------
(* Locks that stay behind, in sessions of every kind.                      *)

\* Why no lock stays behind: whatever a process holds it means to release.
HeldIsClaimed ==
    ~leaky => \A p \in Proc, u \in User : owner[u] = p => u \in Claims(p)

LeakInv ==
    /\ owner \in [User -> Proc \cup {Nobody}]
    /\ pc \in [Proc -> PC]
    /\ locked \in [Proc -> SUBSET User]
    /\ cur \in [Proc -> User]
    /\ \A p \in Proc : pc[p] = "idle" => locked[p] = {}
    /\ HeldIsClaimed

\* Locking and reading a user: the claim changes its name, nothing is lost.
LEMMA BeginClaims ==
    ASSUME LeakInv, NEW p \in Proc, Begin(p)
    PROVE  LeakInv'
<1>1. ASSUME NEW u \in User, LockUser(p, u) \/ LockFails(p, u)
      PROVE  LeakInv'
  BY <1>1, ExclUseAssumption
  DEF LockUser, LockFails, GiveUp, Goto, LeakInv, HeldIsClaimed, Claims, PC
<1>2. CASE ReadUser(p)
  <2>1. CASE kind[p] = "reopen"
    BY <1>2, <2>1, ExclUseAssumption
    DEF ReadUser, Goto, LeakInv, HeldIsClaimed, Claims, PC
  <2>2. CASE kind[p] # "reopen"
    <3>1. pc'[p] \in {"use", "lock"} /\ pc' = [pc EXCEPT ![p] = pc'[p]]
      BY <1>2, <2>2 DEF ReadUser, AddLocked, Goto, LeakInv
    <3> QED
      BY <1>2, <2>2, <3>1, ExclUseAssumption
      DEF ReadUser, AddLocked, LeakInv, HeldIsClaimed, Claims, PC
  <2> QED
    BY <2>1, <2>2
<1>3. CASE ReadFails(p) \/ ReadNotFound(p)
  BY <1>3, ExclUseAssumption
  DEF ReadFails, ReadNotFound, GiveUp, Goto, LeakInv, HeldIsClaimed, Claims, PC
<1>4. CASE DropLock(p)
  <2>1. pc'[p] \in {"use", "lock"} /\ pc' = [pc EXCEPT ![p] = pc'[p]]
    BY <1>4 DEF DropLock, AddLocked, Goto, LeakInv
  <2> QED
    BY <1>4, <2>1, ExclUseAssumption
    DEF DropLock, AddLocked, LeakInv, HeldIsClaimed, Claims, PC
<1>5. CASE DropFails(p)
  BY <1>5 DEF DropFails, GiveUp, Goto, LeakInv, HeldIsClaimed, PC
<1> QED
  BY <1>1, <1>2, <1>3, <1>4, <1>5 DEF Begin

\* Ending the use of a user: a claim is given up with its lock.
LEMMA EndClaims ==
    ASSUME LeakInv, NEW p \in Proc, End(p)
    PROVE  LeakInv'
<1>1. ASSUME NEW u \in User, WriteUser(p, u) PROVE LeakInv'
  BY <1>1 DEF WriteUser, Goto, LeakInv, HeldIsClaimed, Claims, PC
<1>2. ASSUME NEW u \in User, WriteFails(p, u) PROVE LeakInv'
  BY <1>2 DEF WriteFails, EndFails, Goto, LeakInv, HeldIsClaimed, PC
<1>3. ASSUME NEW u \in User, AbandonUser(p, u) PROVE LeakInv'
  <2>1. /\ locked' = [locked EXCEPT ![p] = @ \ {u}] /\ pc[p] = "abandon"
        /\ UNCHANGED <<pc, cur>>
    BY <1>3 DEF AbandonUser
  <2>2. \/ owner' = [owner EXCEPT ![u] = Nobody] /\ UNCHANGED leaky
        \/ owner' = owner /\ leaky' = (leaky \/ owner[u] = p)
    BY <1>3 DEF AbandonUser
  <2>3. leaky' = (leaky \/ owner[u] = p) =>
            (~leaky' => ~leaky /\ owner[u] # p)
    BY Zenon
  <2>4. /\ ~leaky' => ~leaky
        /\ \/ owner' = [owner EXCEPT ![u] = Nobody]
           \/ owner' = owner /\ (~leaky' => owner[u] # p)
    BY <2>2, <2>3, Zenon
  <2> QED
    BY <2>1, <2>4, ExclUseAssumption DEF LeakInv, HeldIsClaimed, Claims
<1>4. CASE UnlockUser(p)
  BY <1>4, ExclUseAssumption
  DEF UnlockUser, Goto, LeakInv, HeldIsClaimed, Claims, PC
<1>5. CASE UnlockFails(p)
  <2>1. /\ pc[p] = "unlock" /\ pc'[p] \in {"abandon", "end"}
        /\ pc' = [pc EXCEPT ![p] = pc'[p]]
        /\ \/ locked' = locked
           \/ locked' = [locked EXCEPT ![p] = @ \ {cur[p]}]
        /\ UNCHANGED <<owner, cur>>
    BY <1>5 DEF UnlockFails, EndFails, Goto, LeakInv
  <2>2. leaky' = (leaky \/ owner[cur[p]] = p)
    BY <1>5 DEF UnlockFails
  <2>3. leaky' = (leaky \/ owner[cur[p]] = p) =>
            (~leaky' => ~leaky /\ owner[cur[p]] # p)
    BY Zenon
  <2>4. ~leaky' => ~leaky /\ owner[cur[p]] # p
    BY <2>2, <2>3, Zenon
  <2> QED
    BY <2>1, <2>4 DEF LeakInv, HeldIsClaimed, Claims, PC
<1>6. CASE Finish(p)
  BY <1>6 DEF Finish, Goto, LeakInv, HeldIsClaimed, Claims, PC
<1> QED
  BY <1>1, <1>2, <1>3, <1>4, <1>5, <1>6 DEF End

\* Every step of the specification keeps it.
LEMMA LeakInvStep == LeakInv /\ [Next]_vars => LeakInv'
<1> SUFFICES ASSUME LeakInv, [Next]_vars PROVE LeakInv'
  OBVIOUS
<1>1. ASSUME NEW p \in Proc, NEW k \in Kind, NEW us \in SUBSET User,
             Start(p, k, us)
      PROVE  LeakInv'
  BY <1>1 DEF Start, Goto, LeakInv, HeldIsClaimed, Claims, PC
<1>2. ASSUME NEW p \in Proc, Step(p) PROVE LeakInv'
  <2>1. CASE Use(p)
    BY <2>1 DEF Use, Goto, LeakInv, HeldIsClaimed, Claims, PC
  <2>2. CASE UseFails(p)
    BY <2>2 DEF UseFails, GiveUp, Goto, LeakInv, HeldIsClaimed, Claims, PC
  <2> QED
    BY <1>2, <2>1, <2>2, BeginClaims, EndClaims DEF Step
<1>3. ASSUME NEW p \in Proc, Crash(p) PROVE LeakInv'
  <2>1. owner' \in [User -> Proc \cup {Nobody}]
    BY <1>3 DEF Crash, LeakInv
  <2> QED
    BY <1>3, <2>1 DEF Crash, Goto, LeakInv, HeldIsClaimed, PC
<1>4. ASSUME NEW u \in User, DeleteUser(u) PROVE LeakInv'
  BY <1>4 DEF DeleteUser, LeakInv, HeldIsClaimed
<1>5. CASE UNCHANGED vars
  BY <1>5 DEF vars, LeakInv, HeldIsClaimed, Claims
<1>6. \A u \in User : {u} \in SUBSET User
  OBVIOUS
<1> QED
  BY <1>1, <1>2, <1>3, <1>4, <1>5, <1>6 DEF Next

\* Sessions of any kind and number leave no lock behind, unless a write or an
\* unlock has failed or a process has died.
THEOREM NothingLeaks == Spec => []NoLeak
<1>1. Init => LeakInv
  BY ExclUseAssumption DEF Init, LeakInv, HeldIsClaimed, Claims, PC
<1>2. LeakInv => NoLeak
  BY DEF LeakInv, HeldIsClaimed, Claims, NoLeak
<1> QED
  BY <1>1, <1>2, LeakInvStep, PTL DEF Spec

-----------------------------------------------------------------------------
(* What a session that has succeeded has released.                         *)

\* A session that uses its users has locked them all.
ReleaseInv ==
    /\ owner \in [User -> Proc \cup {Nobody}]
    /\ pc \in [Proc -> PC]
    /\ locked \in [Proc -> SUBSET User]
    /\ users \in [Proc -> SUBSET User]
    /\ cur \in [Proc -> User]
    /\ err \in [Proc -> BOOLEAN]
    /\ \A p \in Proc : pc[p] = "use" => locked[p] = users[p]
    /\ EndedIsReleased

\* A step that neither ends the use of a user nor takes a lock.
LEMMA BeginReleases ==
    ASSUME ReleaseInv, NEW p \in Proc, Begin(p)
    PROVE  ReleaseInv'
<1>1. ASSUME NEW u \in User, LockUser(p, u) PROVE ReleaseInv'
  BY <1>1, ExclUseAssumption
  DEF LockUser, Goto, ReleaseInv, EndedIsReleased, PC
<1>2. ASSUME GiveUp(p), owner' \in [User -> Proc \cup {Nobody}],
             \A u \in User : owner'[u] \in {owner[u], Nobody}
      PROVE  ReleaseInv'
  <2>1. /\ pc' = [pc EXCEPT ![p] = "abandon"] /\ err' = [err EXCEPT ![p] = TRUE]
        /\ UNCHANGED <<locked, users, cur>>
    BY <1>2 DEF GiveUp, Goto, Failed
  <2>2. EndedIsReleased'
    BY <1>2, <2>1, ExclUseAssumption DEF ReleaseInv, EndedIsReleased
  <2> QED
    BY <1>2, <2>1, <2>2 DEF ReleaseInv, PC
<1>3. ASSUME AddLocked(p), UNCHANGED <<users, cur, err>>,
             owner' \in [User -> Proc \cup {Nobody}],
             \A u \in User : owner'[u] \in {owner[u], Nobody}
      PROVE  ReleaseInv'
  <2>1. /\ locked' = [locked EXCEPT ![p] = locked[p] \cup {cur[p]}]
        /\ \/ locked'[p] = users[p] /\ pc' = [pc EXCEPT ![p] = "use"]
           \/ pc' = [pc EXCEPT ![p] = "lock"]
    BY <1>3 DEF AddLocked, Goto
  <2>2. locked' \in [Proc -> SUBSET User]
    BY <2>1 DEF ReleaseInv
  <2>3. EndedIsReleased'
    BY <1>3, <2>1, ExclUseAssumption DEF ReleaseInv, EndedIsReleased
  <2> QED
    BY <1>3, <2>1, <2>2, <2>3 DEF ReleaseInv, PC
<1>4. CASE ReadUser(p)
  <2>1. CASE kind[p] = "reopen"
    BY <1>4, <2>1 DEF ReadUser, Goto, ReleaseInv, EndedIsReleased, PC
  <2>2. CASE kind[p] # "reopen"
    BY <1>3, <1>4, <2>2 DEF ReadUser, ReleaseInv
  <2> QED
    BY <2>1, <2>2
<1>5. CASE DropLock(p)
  BY <1>3, <1>5 DEF DropLock, ReleaseInv
<1>6. CASE ReadFails(p) \/ ReadNotFound(p) \/ DropFails(p)
  BY <1>2, <1>6 DEF ReadFails, ReadNotFound, DropFails, ReleaseInv
<1>7. ASSUME NEW u \in User, LockFails(p, u) PROVE ReleaseInv'
  BY <1>2, <1>7 DEF LockFails, ReleaseInv
<1> QED
  BY <1>1, <1>4, <1>5, <1>6, <1>7 DEF Begin

\* Using the users, and ending the use of each.
LEMMA EndReleases ==
    ASSUME ReleaseInv, NEW p \in Proc, Use(p) \/ UseFails(p) \/ End(p)
    PROVE  ReleaseInv'
<1>1. CASE Use(p)
  BY <1>1 DEF Use, Goto, ReleaseInv, EndedIsReleased, PC
<1>2. CASE UseFails(p)
  BY <1>2 DEF UseFails, GiveUp, Failed, Goto, ReleaseInv, EndedIsReleased, PC
<1>3. ASSUME NEW u \in User, WriteUser(p, u) PROVE ReleaseInv'
  BY <1>3 DEF WriteUser, Goto, ReleaseInv, EndedIsReleased, PC
<1>4. ASSUME NEW u \in User, EndFails(p, u), UNCHANGED cur PROVE ReleaseInv'
  <2>1. /\ err' = [err EXCEPT ![p] = TRUE]
        /\ pc' \in {[pc EXCEPT ![p] = "abandon"], [pc EXCEPT ![p] = "end"]}
        /\ locked' \in {locked, [locked EXCEPT ![p] = locked[p] \ {u}]}
        /\ UNCHANGED <<owner, users, cur>>
    BY <1>4 DEF EndFails, Failed, Goto
  <2>2. EndedIsReleased'
    BY <2>1 DEF ReleaseInv, EndedIsReleased
  <2> QED
    BY <2>1, <2>2 DEF ReleaseInv, PC
<1>5. ASSUME NEW u \in User, WriteFails(p, u) PROVE ReleaseInv'
  BY <1>4, <1>5 DEF WriteFails
<1>6. CASE UnlockFails(p)
  BY <1>4, <1>6 DEF UnlockFails, ReleaseInv
<1>7. CASE UnlockUser(p)
  BY <1>7, ExclUseAssumption DEF UnlockUser, Goto, ReleaseInv, EndedIsReleased, PC
<1>8. ASSUME NEW u \in User, AbandonUser(p, u) PROVE ReleaseInv'
  <2>1. /\ locked' = [locked EXCEPT ![p] = locked[p] \ {u}] /\ pc[p] = "abandon"
        /\ UNCHANGED <<pc, users, cur, err>>
        /\ owner' \in {owner, [owner EXCEPT ![u] = Nobody]}
    BY <1>8 DEF AbandonUser
  <2> QED
    BY <2>1, ExclUseAssumption DEF ReleaseInv, EndedIsReleased
<1>9. CASE Finish(p)
  BY <1>9 DEF Finish, Goto, ReleaseInv, EndedIsReleased, PC
<1> QED
  BY <1>1, <1>2, <1>3, <1>5, <1>6, <1>7, <1>8, <1>9 DEF End

LEMMA ReleaseInvStep == ReleaseInv /\ [Next]_vars => ReleaseInv'
<1> SUFFICES ASSUME ReleaseInv, [Next]_vars PROVE ReleaseInv'
  OBVIOUS
<1>1. ASSUME NEW p \in Proc, NEW k \in Kind, NEW us \in SUBSET User,
             Start(p, k, us)
      PROVE  ReleaseInv'
  BY <1>1 DEF Start, Goto, ReleaseInv, EndedIsReleased, PC
<1>2. ASSUME NEW p \in Proc, Crash(p) PROVE ReleaseInv'
  <2>1. /\ pc' = [pc EXCEPT ![p] = "dead"] /\ locked' = [locked EXCEPT ![p] = {}]
        /\ UNCHANGED <<users, cur, err>>
        /\ owner' \in [User -> Proc \cup {Nobody}]
        /\ \A u \in User : owner'[u] \in {owner[u], Nobody}
    BY <1>2 DEF Crash, Goto, ReleaseInv
  <2> QED
    BY <2>1, ExclUseAssumption DEF ReleaseInv, EndedIsReleased, PC
<1>3. ASSUME NEW u \in User, DeleteUser(u) PROVE ReleaseInv'
  BY <1>3 DEF DeleteUser, ReleaseInv, EndedIsReleased
<1>4. CASE UNCHANGED vars
  BY <1>4 DEF vars, ReleaseInv, EndedIsReleased
<1>5. \A u \in User : {u} \in SUBSET User
  OBVIOUS
<1> QED
  BY <1>1, <1>2, <1>3, <1>4, <1>5, BeginReleases, EndReleases DEF Next, Step

\* A session of any kind that ends its use of all its users without an error
\* holds none of them any more (AB_Provider_EndExclUseUser()).
THEOREM SuccessReleasesAll == Spec => SuccessReleases
<1>1. Init => ReleaseInv
  BY ExclUseAssumption DEF Init, ReleaseInv, EndedIsReleased, PC
<1>2. ReleaseInv /\ [Next]_vars =>
        [\A p \in Proc :
            pc[p] = "end" /\ pc'[p] = "idle" /\ ~err[p]
              => \A u \in users[p] : owner'[u] # p]_vars
  <2> SUFFICES ASSUME ReleaseInv, [Next]_vars, NEW p \in Proc,
                      pc[p] = "end", pc'[p] = "idle", ~err[p],
                      NEW u \in users[p]
               PROVE  owner'[u] # p
    OBVIOUS
  <2>1. Finish(p)
    BY DEF Next, vars, Start, Step, Begin, Use, UseFails, End, LockUser,
       LockFails, ReadUser, ReadFails, ReadNotFound, DropLock, DropFails,
       AddLocked, GiveUp, WriteUser, WriteFails, UnlockUser, UnlockFails,
       EndFails, AbandonUser, Crash, DeleteUser, Goto, ReleaseInv, Finish
  <2> QED
    BY <2>1 DEF Finish, ReleaseInv, EndedIsReleased
<1> QED
  BY <1>1, <1>2, ReleaseInvStep, PTL DEF Spec, SuccessReleases
=============================================================================
