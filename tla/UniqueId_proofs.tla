-------------------------- MODULE UniqueId_proofs --------------------------
(***************************************************************************)
(* Proofs about UniqueId, for any set of applications, any set of counter  *)
(* names and any number of calls: the inductive invariant IInv, that no id *)
(* is handed out twice, that no counter is rolled back, and that the       *)
(* locked read-modify-write implements the atomic allocation.              *)
(***************************************************************************)
EXTENDS UniqueId, TLAPS

\* The group written back is a group of counters, gives the named counter
\* the new id, and has no counter below the group that was read.
LEMMA NewGroupFacts ==
    ASSUME NEW b \in [Counter -> Nat], NEW n \in IdName
    PROVE  /\ NewGroup(b, n) \in [Counter -> Nat]
           /\ NewId(b, n) \in Nat
           /\ NewId(b, n) > b[n]
           /\ NewGroup(b, n)[n] = NewId(b, n)
           /\ \A c \in Counter : NewGroup(b, n)[c] >= b[c]
<1>1. n \in Counter /\ Std \in Counter
  BY DEF Counter
<1>2. b[n] \in Nat /\ b[Std] \in Nat
  BY <1>1
<1>3. NewId(b, n) \in Nat /\ NewId(b, n) > b[n]
  BY <1>2 DEF NewId
<1>4. b[n] = 0 => NewId(b, n) > b[Std]
  BY <1>2 DEF NewId
<1>5. NewGroup(b, n) \in [Counter -> Nat]
  BY <1>3 DEF NewGroup
<1>6. NewGroup(b, n)[n] = NewId(b, n)
  BY <1>1 DEF NewGroup
<1>7. ASSUME NEW c \in Counter PROVE NewGroup(b, n)[c] >= b[c]
  <2>1. b[c] \in Nat
    OBVIOUS
  <2>2. CASE c = n
    BY <2>1, <2>2, <1>3, <1>6
  <2>3. CASE c # n /\ c = Std /\ b[n] = 0
    <3>1. NewGroup(b, n)[c] = NewId(b, n)
      BY <2>3 DEF NewGroup
    <3> QED
      BY <3>1, <2>3, <1>2, <1>3, <1>4
  <2>4. CASE c # n /\ ~(c = Std /\ b[n] = 0)
    <3>1. NewGroup(b, n)[c] = b[c]
      BY <2>4 DEF NewGroup
    <3> QED
      BY <3>1, <2>1
  <2> QED
    BY <2>2, <2>3, <2>4
<1> QED
  BY <1>3, <1>5, <1>6, <1>7

-----------------------------------------------------------------------------
\* The invariant holds initially.
LEMMA IInvInit == Init => IInv
BY UniqueIdAssumption
DEF Init, IInv, TypeOK, LockProtects, CopyIsCurrent, TakenBelowCounter,
    DrawnIsTaken, OnlyErrorsLeak, Counter, PC, Holding, Failed

\* A new call changes nothing but where its process stands.
LEMMA CallKeeps ==
    ASSUME IInv, NEW p \in App, NEW n \in IdName, Call(p, n)
    PROVE  IInv'
BY UniqueIdAssumption
DEF Call, Goto, IInv, TypeOK, LockProtects, CopyIsCurrent,
       TakenBelowCounter, DrawnIsTaken, OnlyErrorsLeak, PC, Holding

\* The lock is taken only when it is free, so nobody else is inside.
LEMMA LockGroupKeeps ==
    ASSUME IInv, NEW p \in App, LockGroup(p)
    PROVE  IInv'
BY UniqueIdAssumption
DEF LockGroup, Goto, IInv, TypeOK, LockProtects, CopyIsCurrent,
    TakenBelowCounter, DrawnIsTaken, OnlyErrorsLeak, PC, Holding

\* A failed attempt changes neither the lock nor the store.
LEMMA LockFailsKeeps ==
    ASSUME IInv, NEW p \in App, LockFails(p)
    PROVE  IInv'
BY DEF LockFails, Return, Goto, IInv, TypeOK, LockProtects, CopyIsCurrent,
       TakenBelowCounter, DrawnIsTaken, OnlyErrorsLeak, PC, Holding

\* The private copy is the stored group at the moment it is read.
LEMMA GetGroupKeeps ==
    ASSUME IInv, NEW p \in App, GetGroup(p)
    PROVE  IInv'
BY DEF GetGroup, Goto, IInv, TypeOK, LockProtects, CopyIsCurrent,
       TakenBelowCounter, DrawnIsTaken, OnlyErrorsLeak, PC, Holding

\* The read that fails leaves the lock behind, with an error.
LEMMA GetFailsKeeps ==
    ASSUME IInv, NEW p \in App, GetFails(p)
    PROVE  IInv'
BY DEF GetFails, Return, Goto, IInv, TypeOK, LockProtects, CopyIsCurrent,
       TakenBelowCounter, DrawnIsTaken, OnlyErrorsLeak, PC, Holding

\* The write: nobody else holds a copy, and the new id is above all ids the
\* counter gave before.
LEMMA SetGroupKeeps ==
    ASSUME IInv, NEW p \in App, SetGroup(p)
    PROVE  IInv'
<1> DEFINE n == name[p]
<1> DEFINE b == buf[p]
<1>1. n \in IdName /\ b \in [Counter -> Nat] /\ b = counter /\ n \in Counter
  BY DEF SetGroup, IInv, TypeOK, CopyIsCurrent, Counter
<1>2. /\ NewGroup(b, n) \in [Counter -> Nat]
      /\ NewId(b, n) \in Nat
      /\ NewId(b, n) > b[n]
      /\ NewGroup(b, n)[n] = NewId(b, n)
      /\ \A c \in Counter : NewGroup(b, n)[c] >= b[c]
  <2> HIDE DEF n, b
  <2> QED
    BY <1>1, NewGroupFacts
<1>3. /\ pc[p] = "set"
      /\ uid' = [uid EXCEPT ![p] = NewId(b, n)]
      /\ counter' = NewGroup(b, n)
      /\ taken' = [taken EXCEPT ![n] = @ \cup {NewId(b, n)}]
      /\ pc' = [pc EXCEPT ![p] = "unlock"]
      /\ UNCHANGED <<owner, name, buf, ret, calls>>
  BY DEF SetGroup, Goto
<1> HIDE DEF n, b
<1>4. TypeOK'
  BY <1>1, <1>2, <1>3 DEF IInv, TypeOK, PC
<1>5. LockProtects'
  BY <1>3 DEF IInv, TypeOK, LockProtects, Holding
<1>6. CopyIsCurrent'
  BY <1>3 DEF IInv, TypeOK, LockProtects, CopyIsCurrent, Holding
<1>7. TakenBelowCounter'
  <2> SUFFICES ASSUME NEW m \in IdName, NEW i \in taken'[m]
               PROVE  i <= counter'[m]
    BY DEF TakenBelowCounter
  <2>1. m \in Counter /\ counter[m] \in Nat /\ counter'[m] \in Nat
    BY <1>4 DEF IInv, TypeOK, Counter
  <2>2. i \in Nat
    BY <1>4 DEF TypeOK
  <2>3. CASE i \in taken[m]
    <3>1. i <= counter[m] /\ counter'[m] >= counter[m]
      BY <2>3, <2>1, <1>1, <1>2, <1>3 DEF IInv, TakenBelowCounter
    <3> QED
      BY <3>1, <2>1, <2>2
  <2>4. CASE i \notin taken[m]
    <3>1. m = n /\ i = NewId(b, n)
      BY <2>4, <1>3 DEF IInv, TypeOK
    <3> QED
      BY <3>1, <1>2, <1>3
  <2> QED
    BY <2>3, <2>4
<1>8. DrawnIsTaken'
  <2> SUFFICES ASSUME NEW q \in App, pc'[q] = "unlock"
               PROVE  uid'[q] \in taken'[name'[q]] \ {0}
    BY DEF DrawnIsTaken
  <2>1. b[n] \in Nat /\ NewId(b, n) # 0
    BY <1>1, <1>2
  <2>2. CASE q = p
    <3>1. name'[q] = n /\ uid'[q] = NewId(b, n)
      BY <2>2, <1>3 DEF IInv, TypeOK, n
    <3>2. NewId(b, n) \in taken'[n]
      BY <1>1, <1>3 DEF IInv, TypeOK
    <3> QED
      BY <3>1, <3>2, <2>1
  <2>3. CASE q # p
    <3>1. pc[q] = "unlock" /\ uid'[q] = uid[q] /\ name'[q] = name[q]
      BY <2>3, <1>3 DEF IInv, TypeOK
    <3>2. uid[q] \in taken[name[q]] \ {0} /\ name[q] \in IdName
      BY <3>1 DEF IInv, TypeOK, DrawnIsTaken
    <3>3. taken[name[q]] \subseteq taken'[name[q]]
      BY <3>2, <1>3 DEF IInv, TypeOK
    <3> QED
      BY <3>1, <3>2, <3>3
  <2> QED
    BY <2>2, <2>3
<1>9. OnlyErrorsLeak'
  BY <1>3 DEF IInv, TypeOK, OnlyErrorsLeak
<1> QED
  BY <1>4, <1>5, <1>6, <1>7, <1>8, <1>9 DEF IInv

\* The write that fails changes nothing but where the process stands.
LEMMA SetFailsKeeps ==
    ASSUME IInv, NEW p \in App, SetFails(p)
    PROVE  IInv'
BY DEF SetFails, Goto, IInv, TypeOK, LockProtects, CopyIsCurrent,
       TakenBelowCounter, DrawnIsTaken, OnlyErrorsLeak, PC, Holding

\* The unlocks: their process leaves, and no other is inside.
LEMMA UnlockKeeps ==
    ASSUME IInv, NEW p \in App,
           AbortUnlock(p) \/ UnlockGroup(p) \/ UnlockFails(p)
    PROVE  IInv'
<1>1. pc[p] \in {"abort", "unlock"} /\ owner = p
  BY DEF AbortUnlock, UnlockGroup, UnlockFails, IInv, LockProtects, Holding
<1>2. CASE AbortUnlock(p)
  BY <1>1, <1>2, UniqueIdAssumption
  DEF AbortUnlock, Return, Goto, IInv, TypeOK, LockProtects, CopyIsCurrent,
      TakenBelowCounter, DrawnIsTaken, OnlyErrorsLeak, PC, Holding
<1>3. CASE UnlockGroup(p)
  BY <1>1, <1>3, UniqueIdAssumption
  DEF UnlockGroup, Return, Goto, IInv, TypeOK, LockProtects, CopyIsCurrent,
      TakenBelowCounter, DrawnIsTaken, OnlyErrorsLeak, PC, Holding
<1>4. CASE UnlockFails(p)
  BY <1>1, <1>4
  DEF UnlockFails, Return, Goto, IInv, TypeOK, LockProtects, CopyIsCurrent,
      TakenBelowCounter, DrawnIsTaken, OnlyErrorsLeak, PC, Holding
<1> QED
  BY <1>2, <1>3, <1>4

\* A process that dies writes nothing any more; only its own lock may go.
LEMMA CrashKeeps ==
    ASSUME IInv, NEW p \in App, Crash(p)
    PROVE  IInv'
<1>1. /\ owner' = owner \/ (owner = p /\ owner' = Nobody)
      /\ pc' = [pc EXCEPT ![p] = "dead"]
      /\ UNCHANGED <<counter, name, buf, uid, ret, calls, taken>>
  BY DEF Crash, Goto
<1> QED
  BY <1>1, UniqueIdAssumption
  DEF IInv, TypeOK, LockProtects, CopyIsCurrent,
      TakenBelowCounter, DrawnIsTaken, OnlyErrorsLeak, PC, Holding

\* Every step of the specification keeps the invariant.
LEMMA IInvStep == IInv /\ [Next]_vars => IInv'
<1> SUFFICES ASSUME IInv, [Next]_vars PROVE IInv'
  OBVIOUS
<1>1. CASE UNCHANGED vars
  BY <1>1 DEF vars, IInv, TypeOK, LockProtects, CopyIsCurrent,
              TakenBelowCounter, DrawnIsTaken, OnlyErrorsLeak
<1>2. ASSUME NEW p \in App, NEW n \in IdName, Call(p, n) PROVE IInv'
  BY <1>2, CallKeeps
<1>3. ASSUME NEW p \in App, Step(p) PROVE IInv'
  BY <1>3, LockGroupKeeps, LockFailsKeeps, GetGroupKeeps, GetFailsKeeps,
     SetGroupKeeps, SetFailsKeeps, UnlockKeeps DEF Step
<1>4. ASSUME NEW p \in App, Crash(p) PROVE IInv'
  BY <1>4, CrashKeeps
<1> QED
  BY <1>1, <1>2, <1>3, <1>4 DEF Next

\* In every behaviour: the types, mutual exclusion of the processes inside
\* AB_Banking_GetNamedUniqueId(), copies that are never stale when written
\* back, and no lock left behind by a call that succeeded.
THEOREM Invariant == Spec => []IInv
<1> QED
  BY IInvInit, IInvStep, PTL DEF Spec

\* A call that returned an id has released main/uniqueId (banking.c 250-259).
THEOREM SuccessReleasesLock == Spec => []OnlyErrorsLeak
<1>1. IInv => OnlyErrorsLeak
  BY DEF IInv
<1> QED
  BY <1>1, Invariant, PTL

-----------------------------------------------------------------------------
\* The write of a group is the only step that enters "unlock", and its id is
\* above every id its counter gave before.
LEMMA FreshId ==
    ASSUME IInv, NEW p \in App, SetGroup(p)
    PROVE  /\ uid'[p] \in Nat \ {0}
           /\ uid'[p] \notin taken[name[p]]
           /\ \A c \in Counter : counter'[c] >= counter[c]
<1> DEFINE n == name[p]
<1> DEFINE b == buf[p]
<1>1. /\ n \in IdName /\ b \in [Counter -> Nat] /\ b = counter /\ n \in Counter
      /\ uid'[p] = NewId(b, n) /\ counter' = NewGroup(b, n)
  BY DEF SetGroup, IInv, TypeOK, CopyIsCurrent, Counter
<1>2. \A i \in taken[n] : i \in Nat /\ i <= b[n]
  BY <1>1 DEF IInv, TypeOK, TakenBelowCounter
<1>3. b[n] \in Nat
  BY <1>1
<1> HIDE DEF n, b
<1>4. /\ NewId(b, n) \in Nat
      /\ NewId(b, n) > b[n]
      /\ \A c \in Counter : NewGroup(b, n)[c] >= b[c]
  BY <1>1, NewGroupFacts
<1>5. NewId(b, n) # 0 /\ NewId(b, n) \notin taken[n]
  BY <1>2, <1>3, <1>4
<1> QED
  BY <1>1, <1>4, <1>5 DEF n

\* No process but the writing one enters "unlock".
LEMMA EntersUnlock ==
    ASSUME IInv, [Next]_vars, NEW p \in App, pc[p] = "set", pc'[p] = "unlock"
    PROVE  SetGroup(p)
<1>1. pc' # pc
  BY DEF IInv, TypeOK
<1>2. ASSUME NEW q \in App, NEW n \in IdName, Call(q, n) PROVE FALSE
  BY <1>2 DEF Call, Goto, IInv, TypeOK
<1>3. ASSUME NEW q \in App, Crash(q) PROVE FALSE
  BY <1>3 DEF Crash, Goto, IInv, TypeOK
<1>4. ASSUME NEW q \in App, Step(q) PROVE SetGroup(p)
  <2>1. CASE SetGroup(q)
    <3>1. q = p
      BY <2>1 DEF SetGroup, Goto, IInv, TypeOK
    <3> QED
      BY <2>1, <3>1
  <2>2. CASE ~SetGroup(q)
    BY <1>4, <2>2
    DEF Step, LockGroup, LockFails, GetGroup, GetFails, SetFails, AbortUnlock,
        UnlockGroup, UnlockFails, Return, Goto, IInv, TypeOK
  <2> QED
    BY <2>1, <2>2
<1> QED
  BY <1>1, <1>2, <1>3, <1>4 DEF Next, vars

\* No id is handed out twice from a counter: the id a call writes is one
\* that no earlier call took (banking.c AB_Banking_GetNamedUniqueId).
THEOREM IdsAreUnique == Spec => NoReissue
<1>1. IInv /\ [Next]_vars =>
        [\A p \in App : pc[p] = "set" /\ pc'[p] = "unlock"
                          => uid'[p] \notin taken[name[p]]]_vars
  BY EntersUnlock, FreshId
<1> QED
  BY <1>1, Invariant, PTL DEF Spec, NoReissue

\* A step that is not a write leaves the stored group alone.
LEMMA CountersRise ==
    ASSUME IInv, [Next]_vars
    PROVE  \A c \in Counter : counter'[c] >= counter[c]
<1>1. \A c \in Counter : counter[c] \in Nat
  BY DEF IInv, TypeOK
<1>2. CASE counter' = counter
  BY <1>1, <1>2
<1>3. CASE counter' # counter
  <2>1. PICK p \in App : SetGroup(p)
    BY <1>3 DEF Next, vars, Call, Step, Crash, LockGroup, LockFails, GetGroup,
       GetFails, SetFails, AbortUnlock, UnlockGroup, UnlockFails
  <2> QED
    BY <2>1, FreshId
<1> QED
  BY <1>2, <1>3

\* No process rolls back a counter another process advanced.
THEOREM CountersOnlyRise == Spec => CountersNeverFall
<1>1. IInv /\ [Next]_vars =>
        [\A c \in Counter : counter'[c] >= counter[c]]_vars
  BY CountersRise
<1> QED
  BY <1>1, Invariant, PTL DEF Spec, CountersNeverFall

-----------------------------------------------------------------------------
\* Where the call of a process stands, seen from outside, after a step that
\* moved process p to l.
LEMMA PhaseMoves ==
    ASSUME TypeOK, NEW p \in App, NEW l \in PC, Goto(p, l)
    PROVE  [q \in App |-> AbsPhase(q)]' =
             [[q \in App |-> AbsPhase(q)] EXCEPT ![p] =
                CASE l \in {"idle", "dead"}                -> l
                  [] l \in {"lock", "get", "set", "abort"} -> "asked"
                  [] l = "unlock"                          -> "drawn"]
BY DEF Goto, TypeOK, PC, AbsPhase

\* Every step of the code is a step of the abstract allocation, or leaves
\* the abstract state as it is.
LEMMA StepRefines ==
    ASSUME IInv, [Next]_vars
    PROVE  [Abs!Next]_(Abs!absVars)
<1> DEFINE ph == [q \in App |-> AbsPhase(q)]
<1>1. TypeOK
  BY DEF IInv
<1>2. CASE UNCHANGED vars
  <2>1. ph' = ph
    BY <1>2 DEF vars, AbsPhase
  <2> QED
    BY <1>2, <2>1 DEF vars, Abs!absVars
<1>3. ASSUME NEW p \in App, NEW n \in IdName, Call(p, n) PROVE Abs!Ask(p)
  <2>1. ph[p] = "idle" /\ ph' = [ph EXCEPT ![p] = "asked"]
    BY <1>1, <1>3, PhaseMoves DEF Call, AbsPhase, PC
  <2> QED
    BY <1>3, <2>1 DEF Call, Abs!Ask
<1>4. ASSUME NEW p \in App, Crash(p) PROVE Abs!Die(p)
  <2>1. ph' = [ph EXCEPT ![p] = "dead"]
    BY <1>1, <1>4, PhaseMoves DEF Crash, PC
  <2> QED
    BY <1>4, <2>1 DEF Crash, Abs!Die
<1>5. ASSUME NEW p \in App,
             LockFails(p) \/ GetFails(p) \/ AbortUnlock(p) \/ UnlockFails(p)
      PROVE  Abs!Fail(p)
  <2>1. /\ ph[p] \in {"asked", "drawn"}
        /\ Return(p, Failed)
        /\ UNCHANGED <<taken, uid>>
    BY <1>5 DEF LockFails, GetFails, AbortUnlock, UnlockFails, AbsPhase
  <2>2. ph' = [ph EXCEPT ![p] = "idle"]
    BY <1>1, <2>1, PhaseMoves DEF Return, PC
  <2> QED
    BY <2>1, <2>2 DEF Return, Abs!Fail, Abs!Failed, Failed
<1>6. ASSUME NEW p \in App, UnlockGroup(p) PROVE Abs!Succeed(p)
  <2>1. ph[p] = "drawn" /\ ph' = [ph EXCEPT ![p] = "idle"]
    BY <1>1, <1>6, PhaseMoves DEF UnlockGroup, Return, AbsPhase, PC
  <2> QED
    BY <1>6, <2>1 DEF UnlockGroup, Return, Abs!Succeed
<1>7. ASSUME NEW p \in App,
             LockGroup(p) \/ GetGroup(p) \/ SetFails(p)
      PROVE  UNCHANGED <<taken, ph, uid, ret>>
  <2>1. /\ ph[p] = "asked"
        /\ \E l \in {"get", "set", "abort"} : Goto(p, l)
        /\ UNCHANGED <<taken, uid, ret>>
    BY <1>7 DEF LockGroup, GetGroup, SetFails, AbsPhase
  <2>2. ph' = [ph EXCEPT ![p] = "asked"]
    BY <1>1, <2>1, PhaseMoves DEF PC
  <2> QED
    BY <2>1, <2>2
<1>8. ASSUME NEW p \in App, SetGroup(p) PROVE Abs!Take(p, name[p])
  <2>1. ph[p] = "asked" /\ ph' = [ph EXCEPT ![p] = "drawn"]
    BY <1>1, <1>8, PhaseMoves DEF SetGroup, AbsPhase, PC
  <2>2. uid'[p] \in Nat \ {0} /\ uid'[p] \notin taken[name[p]]
    BY <1>8, FreshId
  <2>3. /\ uid' = [uid EXCEPT ![p] = uid'[p]]
        /\ taken' = [taken EXCEPT ![name[p]] = @ \cup {uid'[p]}]
        /\ ret' = ret
    BY <1>1, <1>8 DEF SetGroup, TypeOK
  <2> QED
    BY <2>1, <2>2, <2>3 DEF Abs!Take
<1>9. \A p \in App : name[p] \in IdName
  BY <1>1 DEF TypeOK
<1>10. ASSUME NEW p \in App, Step(p) PROVE [Abs!Next]_(Abs!absVars)
  <2>1. CASE SetGroup(p)
    BY <1>8, <1>9, <2>1 DEF Abs!Next
  <2>2. CASE LockGroup(p) \/ GetGroup(p) \/ SetFails(p)
    BY <1>7, <2>2 DEF Abs!absVars
  <2>3. CASE LockFails(p) \/ GetFails(p) \/ AbortUnlock(p) \/ UnlockFails(p)
    BY <1>5, <2>3 DEF Abs!Next
  <2>4. CASE UnlockGroup(p)
    BY <1>6, <2>4 DEF Abs!Next
  <2> QED
    BY <1>10, <2>1, <2>2, <2>3, <2>4 DEF Step
<1> QED
  BY <1>2, <1>3, <1>4, <1>10 DEF Next, Abs!Next

\* The locked read-modify-write of several processes implements the atomic
\* allocation of UniqueIdAbs.
THEOREM Refinement == Spec => ImplementsAbs
<1>1. Init => Abs!Init
  BY DEF Init, Abs!Init, AbsPhase
<1>2. IInv /\ [Next]_vars => [Abs!Next]_(Abs!absVars)
  BY StepRefines
<1> QED
  BY <1>1, <1>2, Invariant, PTL DEF Spec, ImplementsAbs, Abs!Spec
=============================================================================
