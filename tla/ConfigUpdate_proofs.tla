------------------------ MODULE ConfigUpdate_proofs -------------------------
(***************************************************************************)
(* Proofs about ConfigUpdate, for any accounts, users and programs and any *)
(* number of faults: no group is lost, an account keeps its user as long   *)
(* as it is converted once, and the version is stored only when the update *)
(* of a program that ran alone is complete.                                *)
(***************************************************************************)
EXTENDS ConfigUpdate, TLAPS

-----------------------------------------------------------------------------
(* Groups that are written and deleted.                                    *)

LEMMA DerivedName ==
    ASSUME NEW k \in Id
    PROVE  Derived(k) \in Name /\ Derived(k).id = k /\ Derived(k).form = "derived"
BY DEF Derived, Name, Form

LEMMA NameOfGroup ==
    ASSUME NEW g \in Group
    PROVE  /\ NameOf(g) \in Name
           /\ NameOf(g).id = g.id
           /\ NameOf(g).form = g.form
BY DEF NameOf, Name, Group

LEMMA WrittenIsGroup ==
    ASSUME store \subseteq Group, NEW n \in Name, NEW c \in Content
    PROVE  /\ Put(n, c) \subseteq Group
           /\ \E g \in Put(n, c) : NameOf(g) = n /\ g.content = c
           /\ \A g \in Put(n, c) :
                 g \in store \/ (g.content = c /\ g.id = n.id /\ g.form = n.form)
<1> DEFINE new == [id |-> n.id, form |-> n.form, content |-> c]
<1>1. /\ new \in Group /\ NameOf(new) = n
      /\ new.content = c /\ new.id = n.id /\ new.form = n.form
  BY DEF Group, Name, NameOf
<1>2. Put(n, c) = {g \in store : NameOf(g) # n} \cup {new}
  BY DEF Put
<1> HIDE DEF new
<1> QED
  BY <1>1, <1>2

LEMMA WritingKeeps ==
    ASSUME store \subseteq Group, NEW n \in Name, NEW c \in Content,
           NEW h \in store
    PROVE  \E g \in Put(n, c) : NameOf(g) = NameOf(h)
<1>1. CASE NameOf(h) = n
  BY <1>1, WrittenIsGroup
<1>2. CASE NameOf(h) # n
  BY <1>2 DEF Put
<1> QED
  BY <1>1, <1>2

LEMMA DeletingKeeps ==
    ASSUME store \subseteq Group, NEW n \in Name, NEW h \in store,
           NameOf(h) # n
    PROVE  h \in Remove(n)
BY DEF Remove

\* What makes an account keep its user does not depend on anything else.
LEMMA KnowsStays ==
    ASSUME NEW g, converted' = converted, KnowsAll(g)
    PROVE  KnowsAll(g)'
BY DEF KnowsAll, KnowsOwner


-----------------------------------------------------------------------------
(* Types.                                                                  *)

LEMMA Except ==
    ASSUME NEW S, NEW T, NEW f \in [S -> T], NEW x \in S, NEW v \in T
    PROVE  [f EXCEPT ![x] = v] \in [S -> T]
OBVIOUS

\* The types of the variables of the programs, and of those on the disk.
LocalOK ==
    /\ pc \in [Proc -> PC]
    /\ phase \in [Proc -> Phase]
    /\ names \in [Proc -> SUBSET Name]
    /\ all \in [Proc -> SUBSET Group]
    /\ cur \in [Proc -> [id: Id, form: {"old"}]]
PartialOK == partial \in [Proc -> BOOLEAN]
DiskOK ==
    /\ store \subseteq Group
    /\ spec \subseteq Account
    /\ lastVersion \in Version
    /\ backendVersion \in Version
    /\ converted \in [Account -> 0..2]

LEMMA TypeParts ==
    TypeOK <=> /\ LocalOK /\ PartialOK /\ DiskOK
               /\ overlap \in BOOLEAN /\ faults \in 0..MaxFault
BY Zenon DEF TypeOK, LocalOK, PartialOK, DiskOK

LEMMA HistoryType == KeepsHistory => overlap' \in BOOLEAN
BY Zenon DEF KeepsHistory

LEMMA FaultType == faults \in 0..MaxFault /\ Fault => faults' \in 0..MaxFault
BY ConfigUpdateAssumption DEF Fault

LEMMA BeginType ==
    ASSUME LocalOK, PartialOK, DiskOK, NEW p \in Proc, NEW ph \in Phase,
           Begin(p, ph)
    PROVE  LocalOK' /\ PartialOK' /\ DiskOK' /\ faults' = faults
<1>1. PartialOK'
  BY Except, Zenon DEF Begin, PartialOK
<1>2. LocalOK'
  BY DEF Begin, LocalOK, Goto, PC
<1>3. DiskOK' /\ faults' = faults
  BY DEF Begin, DiskOK, disk
<1> QED
  BY <1>1, <1>2, <1>3

LEMMA GotoType ==
    ASSUME LocalOK, PartialOK, DiskOK, NEW p \in Proc, NEW l \in PC,
           Goto(p, l), UNCHANGED <<disk, local>>
    PROVE  LocalOK' /\ PartialOK' /\ DiskOK'
<1>1. PartialOK'
  BY Zenon DEF PartialOK, local
<1>2. LocalOK'
  BY DEF LocalOK, Goto, local
<1>3. DiskOK'
  BY DEF DiskOK, disk
<1> QED
  BY <1>1, <1>2, <1>3

LEMMA FailType ==
    ASSUME LocalOK, PartialOK, DiskOK, NEW p \in Proc, Fail(p)
    PROVE  LocalOK' /\ PartialOK' /\ DiskOK'
<1> DEFINE l == IF phase[p] = "backends" THEN "running" ELSE "idle"
<1>1. l \in PC
  BY DEF PC
<1>2. Goto(p, l) /\ UNCHANGED <<disk, local>>
  BY DEF Fail
<1> HIDE DEF l
<1> QED
  BY <1>1, <1>2, GotoType

LEMMA WriteType ==
    ASSUME store \subseteq Group, NEW g \in Group, NEW c \in Content
    PROVE  Put(Derived(g.id), c) \subseteq Group
<1>1. Derived(g.id) \in Name
  BY DerivedName DEF Group
<1> QED
  BY <1>1, WrittenIsGroup

\* What the update writes.
LEMMA ContentType ==
    ASSUME NEW g \in Group
    PROVE  /\ g.content \in Content
           /\ [g.content EXCEPT !.userId = g.content.user, !.user = NoUser] \in Content
           /\ [g.content EXCEPT !.backendName = TRUE] \in Content
BY DEF Group, Content

LEMMA StepType ==
    ASSUME IInv, NEW p \in Proc, Step(p), KeepsHistory
    PROVE  TypeOK'
<1> USE ConfigUpdateAssumption
<1>1. LocalOK /\ PartialOK /\ DiskOK /\ faults \in 0..MaxFault
  BY TypeParts DEF IInv
<1>2. SUFFICES LocalOK' /\ PartialOK' /\ DiskOK' /\ faults' \in 0..MaxFault
  BY <1>1, HistoryType, TypeParts, Zenon DEF TypeOK, LocalOK, PartialOK, DiskOK
<1>3. CASE StartUp(p)
  <2>1. "accountList" \in Phase
    BY DEF Phase
  <2> QED
    BY <1>1, <1>3, <2>1, BeginType DEF StartUp
<1>4. CASE UseBackend(p)
  <2>1. "backends" \in Phase
    BY DEF Phase
  <2> QED
    BY <1>1, <1>4, <2>1, BeginType DEF UseBackend
<1>5. CASE StartUpToDate(p)
  <2>1. "running" \in PC
    BY DEF PC
  <2> QED
    BY <1>1, <1>5, <2>1, GotoType DEF StartUpToDate
<1>6. CASE Fini(p)
  <2>1. PartialOK'
    BY <1>1, <1>6, Zenon DEF Fini, PartialOK, local
  <2> QED
    BY <1>1, <1>6, <2>1 DEF Fini, LocalOK, DiskOK, local, Goto, PC, Version
<1>7. CASE FiniFails(p) \/ Crash(p)
  <2>1. "idle" \in PC
    BY DEF PC
  <2> QED
    BY <1>1, <1>7, <2>1, GotoType, FaultType DEF FiniFails, Crash
<1>8. CASE ListGroups(p)
  <2>1. PartialOK'
    BY <1>1, <1>8, Zenon DEF ListGroups, PartialOK
  <2>2. {NameOf(g) : g \in {h \in store : h.id \in Table(phase[p])}} \subseteq Name
    BY <1>1, NameOfGroup DEF DiskOK
  <2> QED
    BY <1>1, <1>8, <2>1, <2>2 DEF ListGroups, LocalOK, DiskOK, disk, Goto, PC
<1>9. CASE NothingListed(p)
  <2>1. CASE phase[p] = "backends"
    <3>1. "endUse" \in PC
      BY DEF PC
    <3> QED
      BY <1>1, <1>9, <2>1, <3>1, GotoType DEF NothingListed
  <2>2. CASE phase[p] # "backends"
    BY <1>1, <1>9, <2>2, FailType DEF NothingListed
  <2> QED
    BY <2>1, <2>2
<1>10. ASSUME NEW n \in names[p], ReadGroup(p, n)
      PROVE  LocalOK' /\ PartialOK' /\ DiskOK' /\ faults' \in 0..MaxFault
  <2>1. PartialOK'
    BY <1>1, <1>10, Zenon DEF ReadGroup, PartialOK
  <2> QED
    BY <1>1, <1>10, <2>1 DEF ReadGroup, LocalOK, DiskOK, disk
<1>11. ASSUME NEW n \in names[p], GroupGone(p, n) \/ ReadFails(p, n)
      PROVE  LocalOK' /\ PartialOK' /\ DiskOK' /\ faults' \in 0..MaxFault
  <2>1. PartialOK'
    BY <1>1, <1>11, Except, Zenon DEF GroupGone, ReadFails, PartialOK
  <2>2. faults' \in 0..MaxFault
    BY <1>1, <1>11, FaultType DEF GroupGone, ReadFails
  <2>3. names' = [names EXCEPT ![p] = @ \ {n}] /\ UNCHANGED <<disk, pc, phase, all, cur>>
    BY <1>11 DEF GroupGone, ReadFails
  <2> QED
    BY <1>1, <2>1, <2>2, <2>3 DEF LocalOK, DiskOK, disk
<1>12. CASE ReadDone(p)
  <2>1. "each" \in PC
    BY DEF PC
  <2>2. Fail(p) \/ (Goto(p, "each") /\ UNCHANGED <<disk, local>>)
    BY <1>12 DEF ReadDone
  <2>3. faults' = faults
    BY <1>12 DEF ReadDone
  <2> QED
    BY <1>1, <2>1, <2>2, <2>3, FailType, GotoType
<1>13. ASSUME NEW g \in all[p],
             \/ KeepName(p, g) \/ WriteDerived(p, g)
             \/ SetUserId(p, g) \/ SetBackendName(p, g)
             \/ CreateSpec(p, g) \/ CreateSpecFails(p, g)
      PROVE  LocalOK' /\ PartialOK' /\ DiskOK' /\ faults' \in 0..MaxFault
  <2>0. g \in Group /\ faults \in 0..MaxFault
    BY <1>1 DEF LocalOK
  <2>1. CASE KeepName(p, g)
    <3>1. PartialOK'
      BY <1>1, <2>1, Zenon DEF KeepName, PartialOK
    <3> QED
      BY <1>1, <2>1, <3>1 DEF KeepName, LocalOK, DiskOK, disk, Took
  <2>2. CASE WriteDerived(p, g)
    <3>1. PartialOK'
      BY <1>1, <2>2, Zenon DEF WriteDerived, PartialOK
    <3>2. DiskOK'
      BY <1>1, <2>0, <2>2, WriteType, ContentType DEF WriteDerived, DiskOK
    <3>3. NameOf(g) \in [id: Id, form: {"old"}]
      BY <2>0, <2>2 DEF WriteDerived, NameOf, Group
    <3> QED
      BY <1>1, <2>0, <2>2, <3>1, <3>2, <3>3 DEF WriteDerived, LocalOK, Took, Goto, PC
  <2>3. CASE SetUserId(p, g)
    <3>1. PartialOK'
      BY <1>1, <2>3, Zenon DEF SetUserId, PartialOK
    <3>2. store' \subseteq Group
      BY <1>1, <2>0, <2>3, WriteType, ContentType DEF SetUserId, DiskOK
    <3>3. (IF converted[g.id] = 0 THEN 1 ELSE 2) \in 0..2
      OBVIOUS
    <3>4. g.id \in Account
      BY <2>3 DEF SetUserId, IInv, InTable, Table
    <3>5. converted' \in [Account -> 0..2]
      BY <1>1, <2>3, <3>3, <3>4, Except DEF SetUserId, DiskOK
    <3>6. DiskOK'
      BY <1>1, <2>3, <3>2, <3>5 DEF SetUserId, DiskOK
    <3> QED
      BY <1>1, <2>3, <3>1, <3>6 DEF SetUserId, LocalOK, Took
  <2>4. CASE SetBackendName(p, g)
    <3>1. PartialOK'
      BY <1>1, <2>4, Zenon DEF SetBackendName, PartialOK
    <3>2. DiskOK'
      BY <1>1, <2>0, <2>4, WriteType, ContentType DEF SetBackendName, DiskOK
    <3> QED
      BY <1>1, <2>4, <3>1, <3>2 DEF SetBackendName, LocalOK, Took
  <2>5. CASE CreateSpec(p, g)
    <3>1. PartialOK'
      BY <1>1, <2>5, Zenon DEF CreateSpec, PartialOK
    <3>2. g.id \in Account
      BY <2>0, <2>5 DEF CreateSpec, IInv, InTable, Table
    <3> QED
      BY <1>1, <2>5, <3>1, <3>2 DEF CreateSpec, LocalOK, DiskOK, Took
  <2>6. CASE CreateSpecFails(p, g)
    BY <1>1, <2>6, FailType DEF CreateSpecFails
  <2> QED
    BY <1>13, <2>1, <2>2, <2>3, <2>4, <2>5, <2>6
<1>14. CASE DeleteOld(p)
  <2>1. PartialOK'
    BY <1>1, <1>14, Zenon DEF DeleteOld, PartialOK, local
  <2> QED
    BY <1>1, <1>14, <2>1 DEF DeleteOld, LocalOK, DiskOK, local, Goto, PC, Remove
<1>15. CASE DeleteGone(p)
  BY <1>1, <1>15, FailType DEF DeleteGone
<1>16. CASE WriteFails(p)
  BY <1>1, <1>16, FailType, FaultType DEF WriteFails
<1>17. CASE EachDone(p)
  <2>1. CASE phase[p] = "backends"
    <3>1. "endUse" \in PC
      BY DEF PC
    <3> QED
      BY <1>1, <1>17, <2>1, <3>1, GotoType DEF EachDone
  <2>2. CASE phase[p] # "backends"
    <3>1. After(phase[p]) \in Phase
      BY <1>1, <2>2 DEF LocalOK, Phase, After
    <3> QED
      BY <1>1, <1>17, <2>2, <3>1, BeginType DEF EachDone
  <2> QED
    BY <2>1, <2>2
<1>18. CASE EndUse(p)
  <2>1. PartialOK'
    BY <1>1, <1>18, Zenon DEF EndUse, PartialOK, local
  <2> QED
    BY <1>1, <1>18, <2>1 DEF EndUse, LocalOK, DiskOK, local, Goto, PC, Version
<1> QED
  BY <1>3, <1>4, <1>5, <1>6, <1>7, <1>8, <1>9, <1>10, <1>11, <1>12, <1>13, <1>14, <1>15, <1>16, <1>17, <1>18
  DEF Step, Work, Read, OneGroup

-----------------------------------------------------------------------------
(* Accounts keep their users.                                              *)

\* The rest of the inductive invariant.
SafeToDelete(p) ==
    pc[p] = "delete" => \E g \in store : NameOf(g) = Derived(cur[p].id)
CopiesKnow == /\ \A g \in store : KnowsAll(g)
              /\ \A p \in Proc : \A g \in all[p] : KnowsAll(g)

LEMMA InvParts ==
    IInv <=> /\ TypeOK
             /\ \A p \in Proc : InTable(p) /\ SafeToDelete(p)
             /\ CopiesKnow
BY Zenon DEF IInv, SafeToDelete, CopiesKnow

\* Steps that write no group: copies are taken of groups, or dropped.
LEMMA QuietStep ==
    ASSUME IInv, UNCHANGED <<store, converted>>,
           \A q \in Proc : all'[q] \subseteq all[q] \cup store,
           \A q \in Proc : pc'[q] = "delete" => /\ pc[q] = "delete"
                                                /\ cur'[q] = cur[q]
    PROVE  (\A q \in Proc : SafeToDelete(q)') /\ CopiesKnow'
<1>1. ASSUME NEW q \in Proc PROVE SafeToDelete(q)'
  BY <1>1 DEF IInv, SafeToDelete
<1>2. ASSUME NEW g \in store' PROVE KnowsAll(g)'
  BY <1>2, KnowsStays DEF IInv
<1>3. ASSUME NEW q \in Proc, NEW g \in all'[q] PROVE KnowsAll(g)'
  <2>1. g \in all[q] \/ g \in store
    BY <1>3
  <2> QED
    BY <2>1, KnowsStays DEF IInv
<1> QED
  BY <1>1, <1>2, <1>3 DEF CopiesKnow

\* Steps that write the group of an account or a user.
LEMMA WriteStep ==
    ASSUME IInv, NEW p \in Proc, NEW g \in all[p], NEW c \in Content,
           g \in Group,
           store' = Put(Derived(g.id), c),
           Took(p, g),
           \A q \in Proc \ {p} : pc'[q] = pc[q],
           pc'[p] = "delete" => cur'[p].id = g.id,
           \A q \in Proc \ {p} : cur'[q] = cur[q],
           \A h \in store : KnowsAll(h)',
           \A q \in Proc : \A h \in all[q] : KnowsAll(h)',
           \A h : h.id = g.id /\ h.content = c => KnowsAll(h)'
    PROVE  (\A q \in Proc : SafeToDelete(q)') /\ CopiesKnow'
<1>1. store \subseteq Group /\ Derived(g.id) \in Name /\ Derived(g.id).id = g.id
  BY DerivedName DEF IInv, TypeOK, Group
<1>2. ASSUME NEW q \in Proc PROVE SafeToDelete(q)'
  <2>1. SUFFICES ASSUME pc'[q] = "delete"
                 PROVE  \E h \in store' : NameOf(h) = Derived(cur'[q].id)
    BY DEF SafeToDelete, NameOf, Derived
  <2>2. CASE q = p
    BY <1>1, <2>1, <2>2, WrittenIsGroup
  <2>3. CASE q # p
    <3>1. PICK h \in store : NameOf(h) = Derived(cur[q].id)
      BY <2>1, <2>3 DEF IInv
    <3>2. PICK k \in store' : NameOf(k) = NameOf(h)
      BY <1>1, WritingKeeps
    <3> QED
      BY <2>3, <3>1, <3>2
  <2> QED
    BY <2>2, <2>3
<1>3. ASSUME NEW h \in store' PROVE KnowsAll(h)'
  <2>1. h \in store \/ (h.content = c /\ h.id = g.id)
    BY <1>1, WrittenIsGroup
  <2> QED
    BY <2>1
<1>4. ASSUME NEW q \in Proc, NEW h \in all'[q] PROVE KnowsAll(h)'
  <2>1. h \in all[q]
    BY <1>4 DEF Took, IInv, TypeOK
  <2> QED
    BY <2>1
<1> QED
  BY <1>2, <1>3, <1>4 DEF CopiesKnow

\* Conversion of an account: if it was the first one, the user is kept.
LEMMA ConversionKeeps ==
    ASSUME NEW g \in Group, NEW h, g.id \in Account,
           converted \in [Account -> 0..2],
           converted' = [converted EXCEPT ![g.id] = IF @ = 0 THEN 1 ELSE 2],
           KnowsAll(h)
    PROVE  KnowsAll(h)'
<1>1. CASE h.id = g.id
  BY <1>1 DEF KnowsAll, KnowsOwner
<1>2. CASE h.id # g.id
  BY <1>2 DEF KnowsAll, KnowsOwner
<1> QED
  BY <1>1, <1>2

LEMMA FailQuiet ==
    ASSUME IInv, NEW p \in Proc, Fail(p)
    PROVE  (\A q \in Proc : SafeToDelete(q)') /\ CopiesKnow'
<1>1. /\ UNCHANGED <<store, converted, all, cur>>
      /\ pc' = [pc EXCEPT ![p] = IF phase[p] = "backends" THEN "running" ELSE "idle"]
  BY DEF Fail, Goto, disk, local
<1>2. pc \in [Proc -> PC]
  BY DEF IInv, TypeOK
<1> QED
  BY <1>1, <1>2, QuietStep

LEMMA GotoQuiet ==
    ASSUME IInv, NEW p \in Proc, NEW l, l # "delete", Goto(p, l),
           UNCHANGED <<store, converted, all, cur>>
    PROVE  (\A q \in Proc : SafeToDelete(q)') /\ CopiesKnow'
<1>1. pc \in [Proc -> PC] /\ pc' = [pc EXCEPT ![p] = l]
  BY DEF IInv, TypeOK, Goto
<1> QED
  BY <1>1, QuietStep

LEMMA BeginQuiet ==
    ASSUME IInv, NEW p \in Proc, NEW ph, Begin(p, ph)
    PROVE  (\A q \in Proc : SafeToDelete(q)') /\ CopiesKnow'
<1>1. pc \in [Proc -> PC] /\ all \in [Proc -> SUBSET Group]
  BY DEF IInv, TypeOK
<1>2. /\ UNCHANGED <<store, converted, cur>>
      /\ \A q \in Proc : all'[q] \subseteq all[q]
      /\ \A q \in Proc : pc'[q] = "delete" => pc[q] = "delete"
  BY <1>1 DEF Begin, disk, Goto
<1> QED
  BY <1>2, QuietStep

LEMMA StepKeeps ==
    ASSUME IInv, NEW p \in Proc, Step(p)
    PROVE  (\A q \in Proc : SafeToDelete(q)') /\ CopiesKnow'
<1>1. /\ pc \in [Proc -> PC] /\ phase \in [Proc -> Phase]
      /\ all \in [Proc -> SUBSET Group] /\ store \subseteq Group
      /\ cur \in [Proc -> [id: Id, form: {"old"}]]
      /\ converted \in [Account -> 0..2]
  BY DEF IInv, TypeOK
<1>2. CASE StartUp(p) \/ UseBackend(p)
  BY <1>2, BeginQuiet DEF StartUp, UseBackend
<1>3. CASE StartUpToDate(p)
  BY <1>3, GotoQuiet DEF StartUpToDate, disk, local
<1>4. CASE Fini(p)
  BY <1>4, GotoQuiet DEF Fini, local
<1>5. CASE FiniFails(p) \/ Crash(p)
  BY <1>5, GotoQuiet DEF FiniFails, Crash, disk, local
<1>6. CASE ListGroups(p)
  BY <1>6, GotoQuiet DEF ListGroups, disk
<1>7. CASE NothingListed(p)
  BY <1>7, FailQuiet, GotoQuiet DEF NothingListed, disk, local
<1>8. CASE \E n \in names[p] : ReadGroup(p, n)
  BY <1>1, <1>8, QuietStep DEF ReadGroup, disk
<1>9. CASE \E n \in names[p] : GroupGone(p, n) \/ ReadFails(p, n)
  BY <1>1, <1>9, QuietStep DEF GroupGone, ReadFails, disk
<1>10. CASE ReadDone(p)
  BY <1>10, FailQuiet, GotoQuiet DEF ReadDone, disk, local
<1>11. ASSUME NEW g \in all[p],
              KeepName(p, g) \/ CreateSpec(p, g) \/ CreateSpecFails(p, g)
       PROVE  (\A q \in Proc : SafeToDelete(q)') /\ CopiesKnow'
  <2>1. CASE KeepName(p, g) \/ CreateSpec(p, g)
    BY <1>1, <2>1, QuietStep DEF KeepName, CreateSpec, Took, disk
  <2>2. CASE CreateSpecFails(p, g)
    BY <2>2, FailQuiet DEF CreateSpecFails
  <2> QED
    BY <1>11, <2>1, <2>2
<1>12. ASSUME NEW g \in all[p], WriteDerived(p, g)
       PROVE  (\A q \in Proc : SafeToDelete(q)') /\ CopiesKnow'
  <2>1. g \in Group /\ g.content \in Content /\ NameOf(g).id = g.id /\ KnowsAll(g)
    BY <1>1, ContentType, NameOfGroup DEF IInv
  <2>2. \A h : KnowsAll(h) => KnowsAll(h)'
    BY <1>12, KnowsStays DEF WriteDerived
  <2>3. \A h : h.id = g.id /\ h.content = g.content => KnowsAll(h)
    BY <2>1 DEF KnowsAll
  <2>4. /\ store' = Put(Derived(g.id), g.content) /\ Took(p, g)
        /\ pc' = [pc EXCEPT ![p] = "delete"] /\ cur' = [cur EXCEPT ![p] = NameOf(g)]
    BY <1>12 DEF WriteDerived, Goto
  <2>5. /\ \A q \in Proc \ {p} : pc'[q] = pc[q] /\ cur'[q] = cur[q]
        /\ cur'[p].id = g.id
    BY <1>1, <2>1, <2>4
  <2>6. /\ \A h \in store : KnowsAll(h)'
        /\ \A q \in Proc : \A h \in all[q] : KnowsAll(h)'
        /\ \A h : h.id = g.id /\ h.content = g.content => KnowsAll(h)'
    BY <2>2, <2>3 DEF IInv
  <2> HIDE DEF KnowsAll
  <2> QED
    BY <2>1, <2>4, <2>5, <2>6, WriteStep
<1>13. ASSUME NEW g \in all[p], SetUserId(p, g)
       PROVE  (\A q \in Proc : SafeToDelete(q)') /\ CopiesKnow'
  <2> DEFINE c == [g.content EXCEPT !.userId = g.content.user, !.user = NoUser]
  <2>1. g \in Group /\ c \in Content /\ KnowsAll(g) /\ g.content \in Content
    BY <1>1, ContentType DEF IInv
  <2>2. g.id \in Account
    BY <1>13 DEF SetUserId, IInv, InTable, Table
  <2>3. /\ converted' = [converted EXCEPT ![g.id] = IF @ = 0 THEN 1 ELSE 2]
        /\ store' = Put(Derived(g.id), c) /\ Took(p, g)
        /\ UNCHANGED <<pc, cur>> /\ pc[p] = "each"
    BY <1>13 DEF SetUserId
  <2>4. \A h : KnowsAll(h) => KnowsAll(h)'
    BY <1>1, <2>1, <2>2, <2>3, ConversionKeeps
  <2>5. converted'[g.id] = 1 => converted[g.id] = 0
    BY <1>1, <2>2, <2>3
  <2>6. converted'[g.id] \in {1, 2}
    BY <1>1, <2>2, <2>3
  <2>7. c.userId = g.content.user
    BY <2>1 DEF Content
  <2>8. \A h : h.id = g.id /\ h.content = c => KnowsAll(h)'
    BY <2>1, <2>2, <2>5, <2>6, <2>7 DEF KnowsAll, KnowsOwner
  <2>9. /\ \A h \in store : KnowsAll(h)'
        /\ \A q \in Proc : \A h \in all[q] : KnowsAll(h)'
    BY <2>4 DEF IInv
  <2> HIDE DEF c
  <2> QED
    BY <2>1, <2>3, <2>8, <2>9, WriteStep
<1>14. ASSUME NEW g \in all[p], SetBackendName(p, g)
       PROVE  (\A q \in Proc : SafeToDelete(q)') /\ CopiesKnow'
  <2> DEFINE c == [g.content EXCEPT !.backendName = TRUE]
  <2>1. g \in Group /\ c \in Content /\ KnowsAll(g) /\ g.content \in Content
    BY <1>1, ContentType DEF IInv
  <2>2. /\ UNCHANGED <<converted, pc, cur>> /\ pc[p] = "each"
        /\ store' = Put(Derived(g.id), c) /\ Took(p, g)
    BY <1>14 DEF SetBackendName
  <2>3. \A h : KnowsAll(h) => KnowsAll(h)'
    BY <2>2, KnowsStays
  <2>4. c.user = g.content.user /\ c.userId = g.content.userId
    BY <2>1 DEF Content
  <2>5. \A h : h.id = g.id /\ h.content = c => KnowsAll(h)
    BY <2>1, <2>4 DEF KnowsAll, KnowsOwner
  <2>6. /\ \A h \in store : KnowsAll(h)'
        /\ \A q \in Proc : \A h \in all[q] : KnowsAll(h)'
        /\ \A h : h.id = g.id /\ h.content = c => KnowsAll(h)'
    BY <2>3, <2>5 DEF IInv
  <2> HIDE DEF c
  <2> QED
    BY <2>1, <2>2, <2>6, WriteStep
<1>15. CASE DeleteOld(p)
  <2>1. /\ store' = Remove(cur[p]) /\ pc' = [pc EXCEPT ![p] = "each"]
        /\ UNCHANGED <<converted, all, cur>>
    BY <1>15 DEF DeleteOld, local, Goto
  <2>2. ASSUME NEW q \in Proc PROVE SafeToDelete(q)'
    <3>1. SUFFICES ASSUME pc'[q] = "delete"
                   PROVE  \E h \in store' : NameOf(h) = Derived(cur[q].id)
      BY <2>1 DEF SafeToDelete, NameOf, Derived
    <3>2. pc[q] = "delete"
      BY <1>1, <2>1, <3>1
    <3>3. PICK h \in store : NameOf(h) = Derived(cur[q].id)
      BY <3>2 DEF IInv
    <3>4. NameOf(h).form = "derived" /\ cur[p].form = "old"
      BY <1>1, <3>3 DEF Derived
    <3>5. h \in store'
      BY <2>1, <3>4 DEF Remove
    <3> QED
      BY <3>3, <3>5
  <2>3. store' \subseteq store
    BY <2>1 DEF Remove
  <2>4. CopiesKnow'
    <3>1. ASSUME NEW h \in store' PROVE KnowsAll(h)'
      BY <2>1, <2>3, KnowsStays DEF IInv
    <3>2. ASSUME NEW q \in Proc, NEW h \in all'[q] PROVE KnowsAll(h)'
      BY <2>1, <3>2, KnowsStays DEF IInv
    <3> QED
      BY <3>1, <3>2 DEF CopiesKnow
  <2> QED
    BY <2>2, <2>4
<1>16. CASE DeleteGone(p) \/ WriteFails(p)
  BY <1>16, FailQuiet DEF DeleteGone, WriteFails
<1>17. CASE EachDone(p)
  BY <1>17, BeginQuiet, GotoQuiet DEF EachDone, disk, local
<1>18. CASE EndUse(p)
  BY <1>18, GotoQuiet DEF EndUse, local
<1> QED
  BY <1>2, <1>3, <1>4, <1>5, <1>6, <1>7, <1>8, <1>9, <1>10, <1>11, <1>12,
     <1>13, <1>14, <1>15, <1>16, <1>17, <1>18
  DEF Step, Work, Read, OneGroup

-----------------------------------------------------------------------------
(* A program works on groups of the table of its phase.                    *)

Busy == {"list", "read", "each", "delete"}

LEMMA TableStep ==
    ASSUME IInv, NEW p \in Proc, Step(p), NEW q \in Proc
    PROVE  InTable(q)'
<1>1. /\ pc \in [Proc -> PC] /\ phase \in [Proc -> Phase]
      /\ names \in [Proc -> SUBSET Name] /\ all \in [Proc -> SUBSET Group]
      /\ store \subseteq Group
  BY DEF IInv, TypeOK
<1>2. InTable(q)
  BY DEF IInv
\* Steps that go on with the same names and copies, or with less.
<1>3. ASSUME phase'[q] = phase[q],
             pc'[q] \in Busy => pc[q] \in Busy,
             names'[q] \subseteq names[q], all'[q] \subseteq all[q]
      PROVE  InTable(q)'
  BY <1>2, <1>3 DEF InTable, Table, Busy
<1>4. ASSUME pc'[q] \notin Busy PROVE InTable(q)'
  BY <1>4 DEF InTable, Busy
<1>5. ASSUME NEW l, Goto(p, l), UNCHANGED <<phase, names, all>>,
             l \in Busy => pc[p] \in Busy
      PROVE  InTable(q)'
  <2>1. CASE q = p
    BY <1>1, <1>3, <1>5, <2>1 DEF Goto
  <2>2. CASE q # p
    BY <1>1, <1>3, <1>5, <2>2 DEF Goto
  <2> QED
    BY <2>1, <2>2
<1>6. ASSUME NEW ph, Begin(p, ph) PROVE InTable(q)'
  <2>1. CASE q = p
    <3>1. names'[q] = {} /\ all'[q] = {}
      BY <1>1, <1>6, <2>1 DEF Begin
    <3> QED
      BY <3>1 DEF InTable
  <2>2. CASE q # p
    BY <1>1, <1>3, <1>6, <2>2 DEF Begin, Goto
  <2> QED
    BY <2>1, <2>2
<1>7. ASSUME Fail(p) PROVE InTable(q)'
  BY <1>5, <1>7 DEF Fail, local, Busy
<1>8. CASE StartUp(p) \/ UseBackend(p)
  BY <1>6, <1>8 DEF StartUp, UseBackend
<1>9. CASE StartUpToDate(p) \/ Fini(p) \/ FiniFails(p) \/ Crash(p)
  BY <1>5, <1>9 DEF StartUpToDate, Fini, FiniFails, Crash, local, Busy
<1>10. CASE ListGroups(p)
  <2>1. CASE q = p
    <3>1. /\ phase'[p] = phase[p] /\ all' = all
          /\ names'[p] = {NameOf(g) : g \in {h \in store : h.id \in Table(phase[p])}}
      BY <1>1, <1>10 DEF ListGroups
    <3>2. \A n \in names'[p] : n.id \in Table(phase[p])
      BY <1>1, <3>1, NameOfGroup
    <3>3. pc[p] = "list"
      BY <1>10 DEF ListGroups
    <3>4. \A g \in all[p] : g.id \in Table(phase[p])
      BY <1>2, <2>1, <3>3 DEF InTable
    <3> QED
      BY <2>1, <3>1, <3>2, <3>4 DEF InTable, Table
  <2>2. CASE q # p
    BY <1>1, <1>3, <1>10, <2>2 DEF ListGroups, Goto
  <2> QED
    BY <2>1, <2>2
<1>11. CASE NothingListed(p)
  BY <1>5, <1>7, <1>11 DEF NothingListed, local, Busy
<1>12. ASSUME NEW n \in names[p], ReadGroup(p, n) PROVE InTable(q)'
  <2>1. CASE q = p
    <3>1. /\ pc[p] = "read" /\ UNCHANGED <<pc, phase>> /\ names'[p] \subseteq names[p]
          /\ \A g \in all'[p] : g \in all[p] \/ (g \in store /\ NameOf(g) = n)
      BY <1>1, <1>12 DEF ReadGroup
    <3>2. n.id \in Table(phase[p])
      BY <1>2, <2>1, <3>1 DEF InTable
    <3>3. \A g \in all'[p] : g.id \in Table(phase[p])
      BY <1>1, <1>2, <2>1, <3>1, <3>2, NameOfGroup DEF InTable
    <3> QED
      BY <1>2, <2>1, <3>1, <3>3 DEF InTable, Table
  <2>2. CASE q # p
    BY <1>1, <1>3, <1>12, <2>2 DEF ReadGroup
  <2> QED
    BY <2>1, <2>2
<1>13. ASSUME NEW n \in names[p], GroupGone(p, n) \/ ReadFails(p, n)
       PROVE  InTable(q)'
  BY <1>1, <1>3, <1>13 DEF GroupGone, ReadFails
<1>14. CASE ReadDone(p)
  BY <1>5, <1>7, <1>14 DEF ReadDone, local, Busy
<1>15. ASSUME NEW g \in all[p],
              \/ KeepName(p, g) \/ WriteDerived(p, g)
              \/ SetUserId(p, g) \/ SetBackendName(p, g) \/ CreateSpec(p, g)
       PROVE  InTable(q)'
  <2>1. Took(p, g) /\ UNCHANGED <<phase, names>>
    BY <1>15 DEF KeepName, WriteDerived, SetUserId, SetBackendName, CreateSpec
  <2>2. pc[p] = "each" /\ (pc' = pc \/ pc' = [pc EXCEPT ![p] = "delete"])
    BY <1>15 DEF KeepName, WriteDerived, SetUserId, SetBackendName, CreateSpec, Goto
  <2>3. all'[q] \subseteq all[q]
    BY <1>1, <2>1 DEF Took
  <2>4. pc'[q] \in Busy => pc[q] \in Busy
    BY <1>1, <2>2 DEF Busy
  <2> QED
    BY <1>3, <2>1, <2>3, <2>4
<1>16. ASSUME NEW g \in all[p], CreateSpecFails(p, g) PROVE InTable(q)'
  BY <1>7, <1>16 DEF CreateSpecFails
<1>17. CASE DeleteOld(p)
  BY <1>5, <1>17 DEF DeleteOld, local, Busy
<1>18. CASE DeleteGone(p) \/ WriteFails(p)
  BY <1>7, <1>18 DEF DeleteGone, WriteFails
<1>19. CASE EachDone(p)
  BY <1>5, <1>6, <1>19 DEF EachDone, local, Busy
<1>20. CASE EndUse(p)
  BY <1>5, <1>20 DEF EndUse, local, Busy
<1> QED
  BY <1>8, <1>9, <1>10, <1>11, <1>12, <1>13, <1>14, <1>15, <1>16, <1>17,
     <1>18, <1>19, <1>20
  DEF Step, Work, Read, OneGroup

-----------------------------------------------------------------------------
(* The invariant.                                                          *)

LEMMA IInvInit == Init => IInv
<1> SUFFICES ASSUME Init PROVE IInv
  OBVIOUS
<1> USE ConfigUpdateAssumption
<1>1. PICK As \in SUBSET Account, f \in [Id -> Form] :
         store = {[id |-> k, form |-> f[k], content |-> Legacy(k)] : k \in As \cup User}
  BY DEF Init
<1>2. \A k \in As \cup User :
         /\ [id |-> k, form |-> f[k], content |-> Legacy(k)] \in Group
         /\ KnowsAll([id |-> k, form |-> f[k], content |-> Legacy(k)])
  <2>1. \A k \in Id : Legacy(k) \in Content
    BY DEF Legacy, Content, Id
  <2>2. \A a \in Account : Legacy(a).user = Owner[a]
    BY DEF Legacy
  <2> HIDE DEF Legacy
  <2> QED
    BY <1>1, <2>1, <2>2 DEF Group, Id, KnowsAll, KnowsOwner
<1>3. store \subseteq Group /\ \A g \in store : KnowsAll(g)
  BY <1>1, <1>2
<1>4. partial \in [Proc -> BOOLEAN] /\ overlap \in BOOLEAN
  <2>1. partial = [p \in Proc |-> FALSE] /\ overlap = FALSE
    BY DEF Init
  <2>2. \A S, T : \A v \in T : [s \in S |-> v] \in [S -> T]
    OBVIOUS
  <2>3. FALSE \in BOOLEAN
    OBVIOUS
  <2> QED
    BY <2>1, <2>2, <2>3, Zenon
<1>5. TypeOK
  BY <1>3, <1>4 DEF Init, TypeOK, Version, PC, Phase
<1>6. \A p \in Proc : pc[p] = "idle" /\ all[p] = {}
  BY DEF Init
<1> QED
  BY <1>3, <1>5, <1>6 DEF IInv, InTable

LEMMA IInvNext == IInv /\ [Next]_vars => IInv'
<1> SUFFICES ASSUME IInv, [Next]_vars PROVE IInv'
  OBVIOUS
<1>1. CASE UNCHANGED vars
  BY <1>1 DEF vars, IInv, TypeOK, InTable, Table, KnowsAll, KnowsOwner
<1>2. ASSUME NEW p \in Proc, Step(p), KeepsHistory PROVE IInv'
  <2>1. TypeOK'
    BY <1>2, StepType
  <2>2. (\A q \in Proc : SafeToDelete(q)') /\ CopiesKnow'
    BY <1>2, StepKeeps
  <2>3. \A q \in Proc : InTable(q)'
    BY <1>2, TableStep
  <2> QED
    BY <2>1, <2>2, <2>3, Zenon DEF IInv, SafeToDelete, CopiesKnow
<1> QED
  BY <1>1, <1>2 DEF Next

\* The inductive invariant: before an old group is deleted its new one has
\* been written, and the groups and all copies of them know the users.
THEOREM Invariant == Spec => []IInv
<1> QED
  BY IInvInit, IInvNext, PTL DEF Spec

\* The groups, the copies and the state of each program have their types.
THEOREM TypeCorrect == Spec => []TypeOK
<1>1. IInv => TypeOK
  BY DEF IInv
<1> QED
  BY <1>1, Invariant, PTL

\* However often the update is interrupted and started again, and however
\* many programs run it: an account that is converted once keeps its user.
THEOREM UserKept == Spec => []UserKeptByOneUpdate
<1>1. IInv => UserKeptByOneUpdate
  BY DEF IInv, KnowsAll, UserKeptByOneUpdate
<1> QED
  BY <1>1, Invariant, PTL

\* What a step can do to the groups.
LEMMA StoreSteps ==
    ASSUME NEW p \in Proc, Step(p)
    PROVE  \/ DeleteOld(p)
           \/ \E g \in all[p] : WriteDerived(p, g) \/ SetUserId(p, g) \/ SetBackendName(p, g)
           \/ store' = store
BY DEF Step, Work, Read, OneGroup, StartUp, StartUpToDate, Fini, FiniFails,
   Crash, UseBackend, Begin, Fail, ListGroups, NothingListed, ReadGroup,
   GroupGone, ReadFails, ReadDone, KeepName, CreateSpec, CreateSpecFails,
   DeleteGone, WriteFails, EachDone, EndUse, disk

LEMMA StepLosesNothing ==
    ASSUME IInv, NEW p \in Proc, Step(p), NEW k \in Id, Has(k)
    PROVE  Has(k)'
<1>1. store \subseteq Group /\ all \in [Proc -> SUBSET Group]
      /\ cur \in [Proc -> [id: Id, form: {"old"}]]
  BY DEF IInv, TypeOK
<1>2. PICK h \in store : h.id = k
  BY DEF Has
<1>3. CASE store' = store
  BY <1>2, <1>3 DEF Has
<1>4. ASSUME NEW g \in Group, NEW c \in Content, store' = Put(Derived(g.id), c)
      PROVE  Has(k)'
  <2>1. Derived(g.id) \in Name
    BY DerivedName DEF Group
  <2>2. PICK j \in store' : NameOf(j) = NameOf(h)
    BY <1>1, <1>4, <2>1, WritingKeeps
  <2>3. j.id = h.id
    BY <2>2 DEF NameOf
  <2> QED
    BY <1>2, <2>3 DEF Has
<1>5. CASE DeleteOld(p)
  <2>1. store' = Remove(cur[p]) /\ pc[p] = "delete"
    BY <1>5 DEF DeleteOld
  <2>2. CASE NameOf(h) # cur[p]
    BY <1>2, <2>1, <2>2 DEF Remove, Has
  <2>3. CASE NameOf(h) = cur[p]
    <3>1. PICK j \in store : NameOf(j) = Derived(cur[p].id)
      BY <2>1 DEF IInv
    <3>2. j.form = "derived" /\ j.id = cur[p].id /\ cur[p].form = "old"
      BY <1>1, <3>1 DEF NameOf, Derived
    <3>3. NameOf(j) # cur[p]
      BY <3>2 DEF NameOf
    <3>4. h.id = cur[p].id
      BY <2>3 DEF NameOf
    <3> QED
      BY <1>2, <2>1, <3>2, <3>3, <3>4 DEF Remove, Has
  <2> QED
    BY <2>2, <2>3
<1>6. ASSUME NEW g \in all[p],
             WriteDerived(p, g) \/ SetUserId(p, g) \/ SetBackendName(p, g)
      PROVE  Has(k)'
  <2>1. g \in Group
    BY <1>1
  <2>2. \E c \in Content : store' = Put(Derived(g.id), c)
    BY <1>6, <2>1, ContentType DEF WriteDerived, SetUserId, SetBackendName
  <2> QED
    BY <1>4, <2>1, <2>2
<1> QED
  BY <1>3, <1>5, <1>6, StoreSteps

\* A group is written under its new name before the old one is deleted, by
\* whatever program: no account and no user is lost.
THEOREM NothingLost == Spec => NoGroupLost
<1>1. IInv /\ [Next]_vars => [\A k \in Id : Has(k) => Has(k)']_vars
  BY StepLosesNothing DEF Next
<1> QED
  BY <1>1, Invariant, PTL DEF Spec, NoGroupLost

-----------------------------------------------------------------------------
(* What is so when no two programs have run at once.                       *)

\* A phase has done what it is for with a group; with every group.
Conforms(ph, g) ==
    /\ ph \in {"accountList", "userList"} => g.form = "derived"
    /\ ph = "setUserId" => g.content.user = NoUser
    /\ ph = "backendName" => g.content.backendName
DoneWith(ph) == \A g \in store : g.id \in Table(ph) => Conforms(ph, g)

Before(ph) ==
    CASE ph = "accountList" -> {}
      [] ph = "userList"    -> {"accountList"}
      [] ph = "setUserId"   -> {"accountList", "userList"}
      [] ph = "backendName" -> {"accountList", "userList", "setUserId"}
      [] ph = "backends"    -> Phase \ {"backends"}
AllDone == \A ph \in Before("backends") : DoneWith(ph)

\* A group that has yet to be worked on was listed or read, or is about to be
\* deleted.
InHand(p, g) ==
    \/ pc[p] = "read" /\ NameOf(g) \in names[p]
    \/ g \in all[p]
    \/ pc[p] = "delete" /\ NameOf(g) = cur[p]

\* How far a program has got: the phases behind it are done, ...
Behind(p) ==
    /\ pc[p] \in Busy => \A ph \in Before(phase[p]) : DoneWith(ph)
    /\ pc[p] \in {"endUse", "running"} => AllDone
    /\ pc[p] = "endUse" => phase[p] = "backends"
\* ... the version is old while groups are written, ...
Writes(p) ==
    /\ pc[p] \in Busy /\ phase[p] # "backends" => lastVersion = "old"
    /\ pc[p] = "delete" => phase[p] \in {"accountList", "userList"}
\* ... the copies are what the phases behind it have made of the groups, ...
Copies(p) ==
    pc[p] \in Busy =>
        /\ phase[p] \in {"setUserId", "backendName"} =>
              \A g \in all[p] : g.form = "derived"
        /\ phase[p] = "backendName" =>
              \A g \in all[p] : g.content.user = NoUser
\* ... and its own phase is done except for the groups it has in hand.
Covered(p) ==
    /\ pc[p] \in {"read", "each", "delete"} /\ ~partial[p] =>
          \A g \in store : \/ g.id \notin Table(phase[p])
                           \/ Conforms(phase[p], g)
                           \/ InHand(p, g)
    /\ pc[p] \in {"each", "delete"} => ~partial[p]

Progress(p) == Behind(p) /\ Writes(p) /\ Copies(p) /\ Covered(p)

AloneInv ==
    ~overlap =>
       /\ \A p, q \in Proc : pc[p] # "idle" /\ pc[q] # "idle" => p = q
       /\ lastVersion = "current" => AllDone
       /\ \A p \in Proc : Progress(p)

\* Nothing is expected of a program that does not run; little of one whose
\* update is over, or that has not listed the groups of its phase.
LEMMA IdleProgress ==
    ASSUME NEW p, pc'[p] = "idle"
    PROVE  Progress(p)'
BY DEF Progress, Behind, Writes, Copies, Covered, Busy

LEMMA RunningProgress ==
    ASSUME NEW p, pc'[p] = "running", AllDone'
    PROVE  Progress(p)'
BY DEF Progress, Behind, Writes, Copies, Covered, Busy

LEMMA EndUseProgress ==
    ASSUME NEW p, pc'[p] = "endUse", phase'[p] = "backends", AllDone'
    PROVE  Progress(p)'
BY DEF Progress, Behind, Writes, Copies, Covered, Busy

LEMMA ListProgress ==
    ASSUME NEW p, pc'[p] = "list", all'[p] = {},
           \A ph \in Before(phase'[p]) : DoneWith(ph)',
           phase'[p] # "backends" => lastVersion' = "old"
    PROVE  Progress(p)'
<1> HIDE DEF DoneWith
<1> QED
  BY DEF Progress, Behind, Writes, Copies, Covered, Busy, Before

LEMMA DoneStays ==
    ASSUME store' = store
    PROVE  /\ \A ph : DoneWith(ph) => DoneWith(ph)'
           /\ AllDone => AllDone'
BY DEF DoneWith, AllDone, Before, Table, Conforms

\* A program that has not come to its end, and fails.
LEMMA FailProgress ==
    ASSUME IInv, NEW p \in Proc, Progress(p), Fail(p),
           pc[p] \in Busy \cup {"endUse"}
    PROVE  Progress(p)'
<1>1. pc \in [Proc -> PC] /\ store' = store
  BY DEF IInv, TypeOK, Fail, disk
<1>2. CASE phase[p] = "backends"
  <2>1. AllDone
    BY <1>2 DEF Progress, Behind, AllDone, Busy
  <2>2. pc'[p] = "running" /\ AllDone'
    BY <1>1, <1>2, <2>1, DoneStays DEF Fail, Goto
  <2> QED
    BY <2>2, RunningProgress
<1>3. CASE phase[p] # "backends"
  <2>1. pc'[p] = "idle"
    BY <1>1, <1>3 DEF Fail, Goto
  <2> QED
    BY <2>1, IdleProgress
<1> QED
  BY <1>2, <1>3

\* A step that writes and deletes no group.
LEMMA QuietProgress ==
    ASSUME IInv, NEW p \in Proc, Step(p), store' = store, ~DeleteOld(p),
           \A g \in all[p] :
              ~WriteDerived(p, g) /\ ~SetUserId(p, g) /\ ~SetBackendName(p, g),
           pc[p] # "idle" => Progress(p),
           lastVersion = "current" => AllDone
    PROVE  Progress(p)'
<1>1. /\ pc \in [Proc -> PC] /\ phase \in [Proc -> Phase]
      /\ names \in [Proc -> SUBSET Name] /\ all \in [Proc -> SUBSET Group]
      /\ partial \in [Proc -> BOOLEAN] /\ store \subseteq Group
      /\ lastVersion \in Version
  BY DEF IInv, TypeOK
<1>2. (\A ph : DoneWith(ph) => DoneWith(ph)') /\ (AllDone => AllDone')
  BY DoneStays
<1>3. pc[p] \in Busy \cup {"endUse"} /\ Fail(p) => Progress(p)'
  BY FailProgress DEF Busy
<1>4. CASE StartUp(p)
  <2>1. pc'[p] = "list" /\ all'[p] = {} /\ phase'[p] = "accountList"
        /\ lastVersion' = "old"
    BY <1>1, <1>4 DEF StartUp, Begin, Goto, disk
  <2>2. Before("accountList") = {}
    BY DEF Before
  <2> QED
    BY <2>1, <2>2, ListProgress
<1>5. CASE UseBackend(p)
  <2>1. pc'[p] = "list" /\ all'[p] = {} /\ phase'[p] = "backends" /\ AllDone'
    BY <1>1, <1>2, <1>5 DEF UseBackend, Begin, Goto, Progress, Behind
  <2>2. \A ph \in Before("backends") : DoneWith(ph)'
    BY <2>1 DEF AllDone
  <2> QED
    BY <2>1, <2>2, ListProgress
<1>6. CASE StartUpToDate(p)
  BY <1>1, <1>2, <1>6, RunningProgress DEF StartUpToDate, Goto
<1>7. CASE Fini(p) \/ FiniFails(p) \/ Crash(p)
  BY <1>1, <1>7, IdleProgress DEF Fini, FiniFails, Crash, Goto
<1>8. CASE EndUse(p)
  BY <1>1, <1>2, <1>8, RunningProgress DEF EndUse, Goto, Progress, Behind
<1>9. CASE ListGroups(p)
  <2>1. /\ names'[p] = {NameOf(g) : g \in {h \in store : h.id \in Table(phase[p])}}
        /\ pc'[p] = "read" /\ pc[p] = "list"
        /\ UNCHANGED <<phase, all, store, lastVersion>>
    BY <1>1, <1>9 DEF ListGroups, Goto, disk
  <2>2. Progress(p)
    BY <1>9 DEF ListGroups
  <2>3. Behind(p)' /\ Writes(p)' /\ Copies(p)'
    BY <1>2, <2>1, <2>2 DEF Progress, Behind, Writes, Copies, Busy, Before
  <2>4. Covered(p)'
    BY <2>1 DEF Covered, InHand, Table
  <2> QED
    BY <2>3, <2>4 DEF Progress
<1>10. CASE NothingListed(p)
  <2>1. pc[p] = "list" /\ Progress(p)
    BY <1>10 DEF NothingListed
  <2>2. CASE phase[p] = "backends"
    <3>1. pc'[p] = "endUse" /\ phase'[p] = "backends"
      BY <1>1, <1>10, <2>2 DEF NothingListed, Goto, local
    <3>2. AllDone'
      BY <1>2, <2>1, <2>2 DEF Progress, Behind, Busy, AllDone
    <3> QED
      BY <3>1, <3>2, EndUseProgress
  <2>3. CASE phase[p] # "backends"
    BY <1>3, <1>10, <2>1, <2>3 DEF NothingListed, Busy
  <2> QED
    BY <2>2, <2>3
<1>11. ASSUME NEW n \in names[p], ReadGroup(p, n) PROVE Progress(p)'
  <2>1. /\ pc[p] = "read" /\ UNCHANGED <<pc, phase, partial, store, lastVersion>>
        /\ names'[p] = names[p] \ {n}
        /\ all'[p] = all[p] \cup {g \in store : NameOf(g) = n /\ Wanted(p, g)}
    BY <1>1, <1>11 DEF ReadGroup, disk
  <2>2. Progress(p)
    BY <2>1
  <2>3. Behind(p)' /\ Writes(p)'
    BY <1>2, <2>1, <2>2 DEF Progress, Behind, Writes, Busy, Before
  <2>4. \A g \in all'[p] : g.id \in Table(phase[p]) /\ (g \in all[p] \/ g \in store)
    <3>1. n.id \in Table(phase[p]) /\ \A g \in all[p] : g.id \in Table(phase[p])
      BY <2>1 DEF IInv, InTable
    <3> QED
      BY <1>1, <2>1, <3>1, NameOfGroup
  <2>5. Copies(p)'
    <3>1. ASSUME phase[p] \in {"setUserId", "backendName"}, NEW g \in store,
                 g.id \in Table(phase[p])
          PROVE  g.form = "derived"
      <4>1. DoneWith("accountList") /\ g.id \in Table("accountList")
        BY <2>1, <2>2, <3>1 DEF Progress, Behind, Busy, Before, Table
      <4> QED
        BY <4>1 DEF DoneWith, Conforms
    <3>2. ASSUME phase[p] = "backendName", NEW g \in store, g.id \in Table(phase[p])
          PROVE  g.content.user = NoUser
      <4>1. DoneWith("setUserId") /\ g.id \in Table("setUserId")
        BY <2>1, <2>2, <3>2 DEF Progress, Behind, Busy, Before, Table
      <4> QED
        BY <4>1 DEF DoneWith, Conforms
    <3> QED
      BY <2>1, <2>2, <2>4, <3>1, <3>2 DEF Progress, Copies, Busy
  <2>6. Covered(p)'
    <3>1. ASSUME NEW g \in store, g.id \in Table(phase[p]), ~Conforms(phase[p], g),
                 InHand(p, g)
          PROVE  InHand(p, g)'
      <4>1. CASE NameOf(g) = n
        <5>1. phase[p] = "backends" \/ g \in all'[p]
          BY <2>1, <3>1, <4>1 DEF Wanted
        <5> QED
          BY <3>1, <5>1 DEF Conforms, InHand
      <4>2. CASE NameOf(g) # n
        BY <2>1, <3>1, <4>2 DEF InHand
      <4> QED
        BY <4>1, <4>2
    <3> QED
      BY <2>1, <2>2, <3>1 DEF Progress, Covered, Table, Conforms
  <2> QED
    BY <2>3, <2>5, <2>6 DEF Progress
<1>12. ASSUME NEW n \in names[p], GroupGone(p, n) \/ ReadFails(p, n)
       PROVE  Progress(p)'
  <2>1. /\ pc[p] = "read" /\ UNCHANGED <<pc, phase, all, store, lastVersion>>
        /\ partial' = [partial EXCEPT ![p] = TRUE]
    BY <1>12, Zenon DEF GroupGone, ReadFails, disk
  <2>2. Progress(p)
    BY <2>1
  <2>3. partial'[p]
    BY <1>1, <2>1
  <2>4. Covered(p)'
    BY <2>1, <2>3 DEF Covered
  <2>5. Behind(p)' /\ Writes(p)' /\ Copies(p)'
    BY <1>2, <2>1, <2>2 DEF Progress, Behind, Writes, Copies, Busy, Before
  <2> QED
    BY <2>4, <2>5 DEF Progress
<1>13. CASE ReadDone(p)
  <2>1. pc[p] = "read" /\ Progress(p)
    BY <1>13 DEF ReadDone
  <2>2. CASE Fail(p)
    BY <1>3, <2>1, <2>2 DEF Busy
  <2>3. CASE ~Fail(p)
    <3>1. /\ pc'[p] = "each" /\ names[p] = {} /\ ~partial[p]
          /\ UNCHANGED <<phase, all, names, partial, store, lastVersion>>
      BY <1>1, <1>13, <2>3 DEF ReadDone, Goto, disk, local
    <3>2. Behind(p)' /\ Writes(p)' /\ Copies(p)'
      BY <1>2, <2>1, <3>1 DEF Progress, Behind, Writes, Copies, Busy, Before
    <3>3. Covered(p)'
      BY <2>1, <3>1 DEF Progress, Covered, InHand, Table, Conforms
    <3> QED
      BY <3>2, <3>3 DEF Progress
  <2> QED
    BY <2>2, <2>3
<1>14. ASSUME NEW g \in all[p], KeepName(p, g) \/ CreateSpec(p, g)
       PROVE  Progress(p)'
  <2>1. /\ pc[p] = "each" /\ all'[p] = all[p] \ {g} /\ Conforms(phase[p], g)
        /\ UNCHANGED <<pc, phase, partial, store, lastVersion>>
    BY <1>1, <1>14 DEF KeepName, CreateSpec, Took, disk, Conforms
  <2>2. Progress(p)
    BY <2>1
  <2>3. Behind(p)' /\ Writes(p)' /\ Copies(p)'
    BY <1>2, <2>1, <2>2 DEF Progress, Behind, Writes, Copies, Busy, Before
  <2>4. Covered(p)'
    BY <2>1, <2>2 DEF Progress, Covered, InHand, Table, Conforms
  <2> QED
    BY <2>3, <2>4 DEF Progress
<1>15. ASSUME NEW g \in all[p], CreateSpecFails(p, g) PROVE Progress(p)'
  BY <1>3, <1>15 DEF CreateSpecFails, Busy
<1>16. CASE DeleteGone(p) \/ WriteFails(p)
  BY <1>3, <1>16 DEF DeleteGone, WriteFails, Busy
<1>17. CASE EachDone(p)
  <2>1. pc[p] = "each" /\ all[p] = {} /\ Progress(p)
    BY <1>17 DEF EachDone
  <2>2. CASE phase[p] = "backends"
    <3>1. pc'[p] = "endUse" /\ phase'[p] = "backends"
      BY <1>1, <1>17, <2>2 DEF EachDone, Goto, local
    <3>2. AllDone'
      BY <1>2, <2>1, <2>2 DEF Progress, Behind, Busy, AllDone
    <3> QED
      BY <3>1, <3>2, EndUseProgress
  <2>3. CASE phase[p] # "backends"
    <3>1. DoneWith(phase[p])
      BY <2>1 DEF Progress, Covered, InHand, DoneWith
    <3>2. \A ph \in Before(phase[p]) : DoneWith(ph)
      BY <2>1 DEF Progress, Behind, Busy
    <3>3. Before(After(phase[p])) = Before(phase[p]) \cup {phase[p]}
      BY <1>1, <2>3 DEF Before, After, Phase
    <3>4. \A ph \in Before(After(phase[p])) : DoneWith(ph)'
      BY <1>2, <3>1, <3>2, <3>3
    <3>5. /\ Begin(p, After(phase[p])) /\ phase'[p] = After(phase[p])
          /\ all'[p] = {} /\ lastVersion' = lastVersion
      BY <1>1, <1>17, <2>3 DEF EachDone, Begin, disk
    <3>6. lastVersion = "old"
      BY <2>1, <2>3 DEF Progress, Writes, Busy
    <3>7. CASE pc'[p] = "list"
      BY <3>4, <3>5, <3>6, <3>7, ListProgress
    <3>8. CASE pc'[p] # "list"
      <4>1. pc'[p] = "endUse" /\ After(phase[p]) = "backends"
        BY <1>1, <3>5, <3>8 DEF Begin, Goto
      <4>2. AllDone'
        BY <3>4, <4>1 DEF AllDone
      <4> QED
        BY <3>5, <4>1, <4>2, EndUseProgress
    <3> QED
      BY <3>7, <3>8
  <2> QED
    BY <2>2, <2>3
<1> QED
  BY <1>4, <1>5, <1>6, <1>7, <1>8, <1>9, <1>10, <1>11, <1>12, <1>13, <1>14,
     <1>15, <1>16, <1>17
  DEF Step, Work, Read, OneGroup

\* The old group is deleted: there is less to be done.
LEMMA DeleteProgress ==
    ASSUME IInv, NEW p \in Proc, DeleteOld(p), Progress(p)
    PROVE  Progress(p)'
<1>1. pc \in [Proc -> PC]
  BY DEF IInv, TypeOK
<1>2. /\ pc[p] = "delete" /\ pc'[p] = "each" /\ store' = Remove(cur[p])
      /\ UNCHANGED <<phase, all, partial, lastVersion>>
  BY <1>1 DEF DeleteOld, Goto, local
<1>3. /\ store' \subseteq store
      /\ \A g \in store' : NameOf(g) # cur[p]
  BY <1>2 DEF Remove
<1>4. \A ph : DoneWith(ph) => DoneWith(ph)'
  BY <1>3 DEF DoneWith, Conforms, Table
<1>5. Behind(p)' /\ Writes(p)' /\ Copies(p)'
  BY <1>2, <1>4 DEF Progress, Behind, Writes, Copies, Busy, Before
<1>6. Covered(p)'
  BY <1>2, <1>3 DEF Progress, Covered, InHand, Table, Conforms
<1> QED
  BY <1>5, <1>6 DEF Progress

\* A group is written as its phase, and the phases before, want it.
LEMMA WriteProgress ==
    ASSUME IInv, NEW p \in Proc, NEW g \in all[p], NEW c \in Content,
           Progress(p), pc[p] = "each",
           store' = Put(Derived(g.id), c), Took(p, g),
           UNCHANGED <<phase, names, partial, lastVersion>>,
           \/ pc' = pc /\ g.form = "derived"
           \/ /\ pc' = [pc EXCEPT ![p] = "delete"] /\ cur'[p] = NameOf(g)
              /\ phase[p] \in {"accountList", "userList"},
           phase[p] # "backends",
           phase[p] = "setUserId" => c.user = NoUser,
           phase[p] = "backendName" => c.user = NoUser /\ c.backendName
    PROVE  Progress(p)'
<1>1. /\ pc \in [Proc -> PC] /\ phase \in [Proc -> Phase]
      /\ all \in [Proc -> SUBSET Group] /\ store \subseteq Group
  BY DEF IInv, TypeOK
<1>2. /\ g \in Group /\ g.id \in Table(phase[p])
      /\ Derived(g.id) \in Name /\ Derived(g.id).id = g.id
      /\ Derived(g.id).form = "derived"
  BY <1>1, DerivedName DEF IInv, InTable, Group
<1>3. \A h \in store' : \/ h \in store /\ NameOf(h) # Derived(g.id)
                        \/ h.id = g.id /\ h.form = "derived" /\ h.content = c
  BY <1>1, <1>2 DEF Put
<1>4. pc'[p] \in {"each", "delete"} /\ all'[p] = all[p] \ {g}
  BY <1>1 DEF Took
<1>5. \A ph \in Before(phase[p]) : DoneWith(ph)'
  <2>1. SUFFICES ASSUME NEW ph \in Before(phase[p]), NEW h \in store', h.id \in Table(ph)
                 PROVE  Conforms(ph, h)
    BY DEF DoneWith, Conforms, Table
  <2>2. DoneWith(ph)
    BY DEF Progress, Behind, Busy
  <2>3. CASE h \in store
    BY <2>1, <2>2, <2>3 DEF DoneWith
  <2>4. CASE h.id = g.id /\ h.form = "derived" /\ h.content = c
    <3>1. phase[p] # "accountList" /\ ph # "backendName" /\ ph # "backends"
      BY <1>1 DEF Before, Phase
    <3>2. ph = "setUserId" => phase[p] = "backendName"
      BY <1>1, <3>1 DEF Before, Phase
    <3> QED
      BY <2>4, <3>1, <3>2 DEF Conforms
  <2> QED
    BY <1>3, <2>3, <2>4
<1>6. Behind(p)'
  BY <1>4, <1>5 DEF Behind, Busy, Before
<1>7. Writes(p)' /\ Copies(p)'
  BY <1>4 DEF Progress, Writes, Copies, Busy
<1>8. Covered(p)'
  <2>1. ASSUME NEW h \in store', h.id \in Table(phase[p])
        PROVE  Conforms(phase[p], h) \/ InHand(p, h)'
    <3>1. CASE h.id = g.id /\ h.form = "derived" /\ h.content = c
      BY <3>1 DEF Conforms
    <3>2. CASE h \in store /\ NameOf(h) # Derived(g.id)
      <4>1. Conforms(phase[p], h) \/ h \in all[p]
        BY <2>1, <3>2 DEF Progress, Covered, InHand
      <4>2. CASE h = g
        <5>1. g.form # "derived"
          BY <3>2, <4>2 DEF NameOf, Derived
        <5> QED
          BY <1>1, <4>2, <5>1 DEF InHand
      <4>3. CASE h # g
        BY <1>4, <4>1, <4>3 DEF InHand
      <4> QED
        BY <4>2, <4>3
    <3> QED
      BY <1>3, <3>1, <3>2
  <2>2. ~partial'[p]
    BY DEF Progress, Covered
  <2> QED
    BY <2>1, <2>2 DEF Covered, Table, Conforms
<1> QED
  BY <1>6, <1>7, <1>8 DEF Progress

\* The three actions that write a group.
LEMMA PhaseProgress ==
    ASSUME IInv, NEW p \in Proc, NEW g \in all[p], Progress(p),
           WriteDerived(p, g) \/ SetUserId(p, g) \/ SetBackendName(p, g)
    PROVE  Progress(p)'
<1>1. g \in Group /\ g.content \in Content /\ cur \in [Proc -> [id: Id, form: {"old"}]]
  BY ContentType DEF IInv, TypeOK
<1>2. CASE WriteDerived(p, g)
  <2>1. cur'[p] = NameOf(g)
    BY <1>1, <1>2 DEF WriteDerived
  <2>2. /\ pc[p] = "each" /\ phase[p] \in {"accountList", "userList"}
        /\ store' = Put(Derived(g.id), g.content) /\ Took(p, g)
        /\ pc' = [pc EXCEPT ![p] = "delete"]
        /\ UNCHANGED <<phase, names, partial, lastVersion>>
    BY <1>2, Zenon DEF WriteDerived, Goto
  <2>3. phase[p] # "backends" /\ phase[p] # "setUserId" /\ phase[p] # "backendName"
    BY <2>2
  <2> QED
    BY <1>1, <2>1, <2>2, <2>3, WriteProgress, Zenon
<1>3. CASE SetUserId(p, g)
  <2> DEFINE c == [g.content EXCEPT !.userId = g.content.user, !.user = NoUser]
  <2>1. c \in Content /\ c.user = NoUser
    BY <1>1, ContentType DEF Content
  <2>2. /\ pc[p] = "each" /\ phase[p] = "setUserId" /\ pc' = pc
        /\ store' = Put(Derived(g.id), c) /\ Took(p, g)
        /\ UNCHANGED <<phase, names, partial, lastVersion>>
    BY <1>3, Zenon DEF SetUserId
  <2>3. g.form = "derived"
    BY <2>2 DEF Progress, Copies, Busy
  <2>4. phase[p] # "backends" /\ phase[p] # "backendName"
    BY <2>2
  <2> HIDE DEF c
  <2> QED
    BY <2>1, <2>2, <2>3, <2>4, WriteProgress, Zenon
<1>4. CASE SetBackendName(p, g)
  <2> DEFINE c == [g.content EXCEPT !.backendName = TRUE]
  <2>1. c \in Content /\ c.user = g.content.user
    BY <1>1, ContentType DEF Content
  <2>2. c.backendName
    BY <1>1 DEF Content
  <2>3. /\ pc[p] = "each" /\ phase[p] = "backendName" /\ pc' = pc
        /\ store' = Put(Derived(g.id), c) /\ Took(p, g)
        /\ UNCHANGED <<phase, names, partial, lastVersion>>
    BY <1>4, Zenon DEF SetBackendName
  <2>4. g.form = "derived" /\ g.content.user = NoUser
    BY <2>3 DEF Progress, Copies, Busy
  <2>5. phase[p] # "backends" /\ phase[p] # "setUserId" /\ c.user = NoUser
    BY <2>1, <2>3, <2>4
  <2> HIDE DEF c
  <2> QED
    BY <2>1, <2>2, <2>3, <2>4, <2>5, WriteProgress, Zenon
<1> QED
  BY <1>2, <1>3, <1>4

LEMMA AloneInit == Init => AloneInv
BY DEF Init, AloneInv, Progress, Behind, Writes, Copies, Covered, Busy

LEMMA AloneStep ==
    ASSUME IInv, AloneInv, NEW p \in Proc, Step(p), KeepsHistory
    PROVE  AloneInv'
<1>1. /\ pc \in [Proc -> PC] /\ lastVersion \in Version
      /\ all \in [Proc -> SUBSET Group]
  BY DEF IInv, TypeOK
<1>2. SUFFICES ASSUME ~overlap'
               PROVE  /\ \A q, r \in Proc : pc'[q] # "idle" /\ pc'[r] # "idle" => q = r
                      /\ lastVersion' = "current" => AllDone'
                      /\ \A q \in Proc : Progress(q)'
  BY DEF AloneInv
<1>3. ~overlap /\ \A q, r \in Proc : pc'[q] # "idle" /\ pc'[r] # "idle" => q = r
  BY <1>2 DEF KeepsHistory
<1>4. /\ \A q, r \in Proc : pc[q] # "idle" /\ pc[r] # "idle" => q = r
      /\ lastVersion = "current" => AllDone
      /\ \A q \in Proc : Progress(q)
  BY <1>3 DEF AloneInv
<1>5. Progress(p)'
  <2>1. CASE DeleteOld(p)
    BY <1>4, <2>1, DeleteProgress
  <2>2. CASE \E g \in all[p] : WriteDerived(p, g) \/ SetUserId(p, g) \/ SetBackendName(p, g)
    BY <1>4, <2>2, PhaseProgress
  <2>3. CASE /\ ~DeleteOld(p)
             /\ \A g \in all[p] : ~WriteDerived(p, g) /\ ~SetUserId(p, g) /\ ~SetBackendName(p, g)
    <3>1. store' = store
      BY <2>3, StoreSteps, Zenon
    <3> QED
      BY <1>4, <2>3, <3>1, QuietProgress
  <2> QED
    BY <2>1, <2>2, <2>3
<1>6. \A q \in Proc \ {p} : pc'[q] = pc[q]
  BY <1>1 DEF Step, Work, Read, OneGroup, StartUp, StartUpToDate, Fini,
     FiniFails, Crash, UseBackend, Begin, Fail, ListGroups, NothingListed,
     ReadGroup, GroupGone, ReadFails, ReadDone, KeepName, WriteDerived,
     SetUserId, SetBackendName, CreateSpec, CreateSpecFails, DeleteOld,
     DeleteGone, WriteFails, EachDone, EndUse, Goto
<1>7. \A q \in Proc \ {p} : pc'[q] = "idle"
  <2>1. CASE pc[p] # "idle"
    BY <1>4, <1>6, <2>1
  <2>2. CASE pc[p] = "idle"
    <3>1. StartUp(p) \/ StartUpToDate(p)
      BY <2>2 DEF Step, Work, Read, OneGroup, Fini, FiniFails, Crash,
         UseBackend, ListGroups, NothingListed, ReadGroup, GroupGone,
         ReadFails, ReadDone, KeepName, WriteDerived, SetUserId,
         SetBackendName, CreateSpec, CreateSpecFails, DeleteOld, DeleteGone,
         WriteFails, EachDone, EndUse
    <3>2. pc'[p] # "idle"
      BY <1>1, <3>1 DEF StartUp, StartUpToDate, Begin, Goto
    <3> QED
      BY <1>3, <3>2
  <2> QED
    BY <2>1, <2>2
<1>8. \A q \in Proc : Progress(q)'
  BY <1>5, <1>7, IdleProgress
<1>9. lastVersion' = "current" => AllDone'
  <2>1. CASE lastVersion' # lastVersion
    <3>1. Fini(p)
      BY <2>1 DEF Step, Work, Read, OneGroup, StartUp, StartUpToDate,
         FiniFails, Crash, UseBackend, Begin, Fail, ListGroups, NothingListed,
         ReadGroup, GroupGone, ReadFails, ReadDone, KeepName, WriteDerived,
         SetUserId, SetBackendName, CreateSpec, CreateSpecFails, DeleteOld,
         DeleteGone, WriteFails, EachDone, EndUse, disk
    <3>2. AllDone /\ store' = store
      BY <1>4, <3>1 DEF Fini, Progress, Behind
    <3> QED
      BY <3>2, DoneStays
  <2>2. CASE store' = store /\ lastVersion' = lastVersion
    BY <1>4, <2>2, DoneStays
  <2>3. CASE store' # store /\ lastVersion' = lastVersion
    <3>1. pc[p] \in {"each", "delete"} /\ phase[p] # "backends"
      BY <1>4, <2>3, StoreSteps
      DEF DeleteOld, WriteDerived, SetUserId, SetBackendName, Progress, Writes
    <3>2. lastVersion = "old"
      BY <1>4, <3>1 DEF Progress, Writes, Busy
    <3> QED
      BY <2>3, <3>2
  <2> QED
    BY <2>1, <2>2, <2>3
<1> QED
  BY <1>3, <1>8, <1>9

LEMMA AloneNext == IInv /\ AloneInv /\ [Next]_vars => AloneInv'
<1>1. ASSUME AloneInv, UNCHANGED vars PROVE AloneInv'
  <2>1. UNCHANGED <<store, lastVersion, pc, phase, names, all, partial, cur, overlap>>
    BY <1>1 DEF vars
  <2>2. (\A ph : DoneWith(ph) => DoneWith(ph)') /\ (AllDone => AllDone')
    BY <2>1, DoneStays
  <2>3. ASSUME NEW p \in Proc, Progress(p) PROVE Progress(p)'
    <3>1. Behind(p)' /\ Writes(p)' /\ Copies(p)'
      BY <2>1, <2>2, <2>3 DEF Progress, Behind, Writes, Copies, Before
    <3>2. Covered(p)'
      BY <2>1, <2>3 DEF Progress, Covered, InHand, Conforms, Table
    <3> QED
      BY <3>1, <3>2 DEF Progress
  <2> QED
    BY <1>1, <2>1, <2>2, <2>3 DEF AloneInv
<1> QED
  BY <1>1, AloneStep DEF Next

\* When the new version is stored and no two programs have run at once, every
\* group is under its new name and every account has been converted: the
\* update is not taken for complete when it is not.
THEOREM CompleteWhenCurrent == Spec => []CurrentIsComplete
<1>1. IInv /\ AloneInv => CurrentIsComplete
  <2> SUFFICES ASSUME IInv, AloneInv, lastVersion = "current", ~overlap, NEW g \in store
               PROVE  UpToDate(g)
    BY DEF CurrentIsComplete
  <2>1. AllDone
    BY DEF AloneInv
  <2>2. g.id \in Account \cup User
    BY DEF IInv, TypeOK, Group, Id
  <2>3. \A ph \in {"accountList", "userList", "setUserId", "backendName"} : DoneWith(ph)
    BY <2>1 DEF AllDone, Before, Phase
  <2>4. CASE g.id \in Account
    <3>1. /\ Conforms("accountList", g) /\ Conforms("setUserId", g)
          /\ Conforms("backendName", g)
      BY <2>3, <2>4 DEF DoneWith, Table
    <3> QED
      BY <3>1 DEF Conforms, UpToDate
  <2>5. CASE g.id \in User \ Account
    <3>1. Conforms("userList", g)
      BY <2>3, <2>5 DEF DoneWith, Table
    <3> QED
      BY <2>5, <3>1 DEF Conforms, UpToDate
  <2> QED
    BY <2>2, <2>4, <2>5
<1> QED
  BY <1>1, Invariant, AloneInit, AloneNext, PTL DEF Spec
=============================================================================
