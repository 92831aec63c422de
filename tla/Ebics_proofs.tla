---------------------------- MODULE Ebics_proofs ----------------------------
(***************************************************************************)
(* Proofs about the two parts of the EBICS backend.                        *)
(*                                                                         *)
(* EbicsKeys, for any set of programs and any number of commands and       *)
(* dialogs: what the configuration says of a user is true, and no program  *)
(* takes back what another one has found out.                              *)
(*                                                                         *)
(* EbicsTransfer, for any number of calls, statements and segments: a call *)
(* which reports success has moved all there was to move, in its order.    *)
(***************************************************************************)
EXTENDS EbicsKeys, EbicsTransfer, SequenceTheorems, TLAPS

-----------------------------------------------------------------------------
(* EbicsKeys.                                                              *)

\* The invariant holds initially.
LEMMA IInvInit == Init => IInv
<1>1. Init => /\ exists \in BOOLEAN /\ active \in BOOLEAN
              /\ disturbed \in BOOLEAN
  BY Zenon DEF Init
<1>2. Init => dialog \in [Proc -> BOOLEAN]
  BY DEF Init
<1> QED
  BY <1>1, <1>2
  DEF Init, IInv, TypeOK, PC, Config, Flag, Status, NewUser, StatusIsTrue,
      IsTrue, BankOK, LockOK, Holds

\* A command or a dialog begins with a true copy, or none.
LEMMA BeginKeeps ==
    ASSUME IInv, NEW p \in Proc,
           \/ NewDialog(p)
           \/ \E r \in {"ini", "hia", "hpb"} : Command(p, "check", r)
           \/ Command(p, "lock", "reset") \/ Command(p, "create", "ini")
    PROVE  IInv'
<1>1. CASE NewDialog(p)
  <2>1. TypeOK'
    <3>1. exists' \in BOOLEAN /\ UNCHANGED <<active, disturbed>>
      BY <1>1, Zenon DEF NewDialog
    <3> QED
      BY <1>1, <3>1 DEF NewDialog, Start, Goto, IInv, TypeOK, PC, Config,
         Flag, Status, NewUser
  <2>2. StatusIsTrue' /\ \A q \in Proc : IsTrue(copy[q])'
    BY <1>1 DEF NewDialog, Start, Goto, IInv, TypeOK, Config, Flag, Status,
       NewUser, StatusIsTrue, IsTrue, BankOK
  <2>3. BankOK'
    BY <1>1 DEF NewDialog, Start, Goto, IInv, TypeOK, BankOK
  <2>4. LockOK'
    BY <1>1 DEF NewDialog, Start, Goto, IInv, TypeOK, LockOK, Holds, NewUser
  <2> QED
    BY <2>1, <2>2, <2>3, <2>4 DEF IInv
<1>2. ASSUME NEW l \in {"check", "lock", "create"},
             NEW r \in {"ini", "hia", "hpb", "reset"}, Command(p, l, r)
      PROVE  IInv'
  <2>1. TypeOK'
    <3>1. dialog' \in [Proc -> BOOLEAN]
      BY <1>2 DEF Command, Start, IInv, TypeOK
    <3> QED
      BY <1>2, <3>1 DEF Command, Start, Goto, world, IInv, TypeOK, PC
  <2>2. StatusIsTrue' /\ \A q \in Proc : IsTrue(copy[q])'
    BY <1>2 DEF Command, world, IInv, TypeOK, StatusIsTrue, IsTrue
  <2>3. BankOK'
    BY <1>2 DEF Command, Start, Goto, world, IInv, TypeOK, BankOK
  <2>4. LockOK'
    BY <1>2 DEF Command, Start, Goto, IInv, TypeOK, LockOK, Holds
  <2> QED
    BY <2>1, <2>2, <2>3, <2>4 DEF IInv
<1> QED
  BY <1>1, <1>2

\* What the check finds out changes nothing.
LEMMA CheckKeeps == ASSUME IInv, NEW p \in Proc, Check(p) PROVE IInv'
<1>1. TypeOK'
  BY DEF Check, Goto, Allowed, FlagOf, world, IInv, TypeOK, PC, Config,
         Flag, Status, NewUser
<1>2. StatusIsTrue' /\ \A q \in Proc : IsTrue(copy[q])'
  BY DEF Check, Goto, Allowed, FlagOf, world, IInv, TypeOK, PC, Config,
         Flag, Status, NewUser, StatusIsTrue, IsTrue, BankOK
<1>3. BankOK'
  BY DEF Check, Goto, Allowed, FlagOf, world, IInv, TypeOK, PC, Config,
         BankOK
<1>4. LockOK'
  BY EbicsKeysAssumption
  DEF Check, Goto, Allowed, FlagOf, world, IInv, TypeOK, PC, Config, LockOK,
      Holds, NewUser
<1> QED
  BY <1>1, <1>2, <1>3, <1>4 DEF IInv

\* A request that was sent already is left out.
LEMMA SentAlreadyKeeps ==
    ASSUME IInv, NEW p \in Proc, SentAlready(p)
    PROVE  IInv'
<1>1. TypeOK'
  BY DEF SentAlready, Goto, AfterRequest, FlagOf, world, IInv, TypeOK, PC,
         Config, Flag, Status, NewUser
<1>2. StatusIsTrue' /\ \A q \in Proc : IsTrue(copy[q])'
  BY DEF SentAlready, Goto, AfterRequest, FlagOf, world, IInv, TypeOK, PC,
         Config, Flag, Status, NewUser, StatusIsTrue, IsTrue, BankOK
<1>3. BankOK'
  BY DEF SentAlready, Goto, AfterRequest, FlagOf, world, IInv, TypeOK, PC,
         Config, BankOK
<1>4. LockOK'
  BY EbicsKeysAssumption
  DEF SentAlready, Goto, AfterRequest, FlagOf, world, IInv, TypeOK, PC,
      Config, LockOK, Holds, NewUser
<1> QED
  BY <1>1, <1>2, <1>3, <1>4 DEF IInv

\* The copy read under the lock is the stored configuration, or a new one.
LEMMA LockKeeps == ASSUME IInv, NEW p \in Proc, Lock(p) PROVE IInv'
<1>1. TypeOK'
  BY DEF Lock, Goto, Place, Reread, world, IInv, TypeOK, PC, Config, Flag,
         Status, NewUser
<1>2. StatusIsTrue' /\ \A q \in Proc : IsTrue(copy[q])'
  BY DEF Lock, Goto, Place, Reread, world, IInv, TypeOK, PC, Config, Flag,
         Status, NewUser, StatusIsTrue, IsTrue, BankOK
<1>3. BankOK'
  BY DEF Lock, Goto, Place, Reread, world, IInv, TypeOK, PC, Config, BankOK
<1>4. LockOK'
  BY EbicsKeysAssumption
  DEF Lock, Goto, Place, Reread, world, IInv, TypeOK, PC, Config, LockOK,
      Holds, NewUser
<1> QED
  BY <1>1, <1>2, <1>3, <1>4 DEF IInv

\* A process that gets no lock has changed nothing.
LEMMA LockFailsKeeps == ASSUME IInv, NEW p \in Proc, LockFails(p) PROVE IInv'
<1>1. TypeOK'
  BY DEF LockFails, Goto, world, IInv, TypeOK, PC, Config, Flag, Status,
         NewUser
<1>2. StatusIsTrue' /\ \A q \in Proc : IsTrue(copy[q])'
  BY DEF LockFails, Goto, world, IInv, TypeOK, PC, Config, Flag, Status,
         NewUser, StatusIsTrue, IsTrue, BankOK
<1>3. BankOK'
  BY DEF LockFails, Goto, world, IInv, TypeOK, PC, Config, BankOK
<1>4. LockOK'
  BY EbicsKeysAssumption
  DEF LockFails, Goto, world, IInv, TypeOK, PC, Config, LockOK, Holds,
      NewUser
<1> QED
  BY <1>1, <1>2, <1>3, <1>4 DEF IInv

\* New keys make no configuration wrong that speaks of the old ones: then the
\* keys were changed while the bank had some.
LEMMA CreateKeysKeeps == ASSUME IInv, NEW p \in Proc, CreateKeys(p) PROVE IInv'
<1>1. TypeOK'
  BY DEF CreateKeys, Goto, Disturbs, IInv, TypeOK, PC, Config, Flag, Status,
         NewUser
<1>2. StatusIsTrue' /\ \A q \in Proc : IsTrue(copy[q])'
  BY DEF CreateKeys, Goto, Disturbs, IInv, TypeOK, PC, Config, Flag, Status,
         NewUser, StatusIsTrue, IsTrue, BankOK
<1>3. BankOK'
  BY DEF CreateKeys, Goto, Disturbs, IInv, TypeOK, PC, Config, BankOK
<1>4. LockOK'
  BY EbicsKeysAssumption
  DEF CreateKeys, Goto, Disturbs, IInv, TypeOK, PC, Config, LockOK, Holds,
      NewUser
<1> QED
  BY <1>1, <1>2, <1>3, <1>4 DEF IInv

\* No keys were created.
LEMMA CreateFailsKeeps ==
    ASSUME IInv, NEW p \in Proc, CreateFails(p)
    PROVE  IInv'
<1>1. TypeOK'
  BY DEF CreateFails, Goto, world, IInv, TypeOK, PC, Config, Flag, Status,
         NewUser
<1>2. StatusIsTrue' /\ \A q \in Proc : IsTrue(copy[q])'
  BY DEF CreateFails, Goto, world, IInv, TypeOK, PC, Config, Flag, Status,
         NewUser, StatusIsTrue, IsTrue, BankOK
<1>3. BankOK'
  BY DEF CreateFails, Goto, world, IInv, TypeOK, PC, Config, BankOK
<1>4. LockOK'
  BY EbicsKeysAssumption
  DEF CreateFails, Goto, world, IInv, TypeOK, PC, Config, LockOK, Holds,
      NewUser
<1> QED
  BY <1>1, <1>2, <1>3, <1>4 DEF IInv

\* The flag comes with the key.
LEMMA SendKeysKeeps == ASSUME IInv, NEW p \in Proc, SendKeys(p) PROVE IInv'
<1>1. TypeOK'
  BY DEF SendKeys, Goto, BankTakes, WithFlag, FlagOf, IInv, TypeOK, PC,
         Config, Flag, Status, NewUser
<1>2. StatusIsTrue' /\ \A q \in Proc : IsTrue(copy[q])'
  <2>1. StatusIsTrue'
    BY DEF SendKeys, Goto, BankTakes, WithFlag, FlagOf, IInv, TypeOK, PC,
           Config, Flag, Status, NewUser, StatusIsTrue, IsTrue, BankOK
  <2>2. ASSUME NEW q \in Proc, q # p
        PROVE  IsTrue(copy[q])'
    BY <2>2
    DEF SendKeys, Goto, BankTakes, WithFlag, FlagOf, IInv, TypeOK, PC,
        Config, Flag, Status, NewUser, StatusIsTrue, IsTrue, BankOK
  <2>3. IsTrue(copy[p])'
    <3>1. CASE req[p] = "ini"
      BY <3>1
      DEF SendKeys, Goto, BankTakes, WithFlag, FlagOf, IInv, TypeOK, PC,
          Config, Flag, Status, NewUser, StatusIsTrue, IsTrue, BankOK
    <3>2. CASE req[p] # "ini"
      <4>1. req[p] = "hia"
        BY <3>2 DEF SendKeys, IInv, TypeOK, LockOK
      <4>2. /\ bank' = [bank EXCEPT !["hia"] = keyFile] /\ keyFile # 0
            /\ bank["hia"] = 0
            /\ copy'[p] = WithFlag(copy[p], "HIA")
            /\ UNCHANGED <<stored, active, disturbed, keyFile>>
        BY <4>1 DEF SendKeys, BankTakes, FlagOf, IInv, TypeOK
      <4>3. copy[p] \in Config /\ IsTrue(copy[p])
        BY DEF IInv, TypeOK
      <4> QED
        BY <4>2, <4>3 DEF IInv, TypeOK, Config, Flag, Status, WithFlag,
           IsTrue
    <3> QED
      BY <3>1, <3>2
  <2> QED
    BY <2>1, <2>2, <2>3
<1>3. BankOK'
  BY DEF SendKeys, Goto, BankTakes, WithFlag, FlagOf, IInv, TypeOK, PC,
         Config, BankOK
<1>4. LockOK'
  BY EbicsKeysAssumption
  DEF SendKeys, Goto, BankTakes, WithFlag, FlagOf, IInv, TypeOK, PC, Config,
      LockOK, Holds, NewUser
<1> QED
  BY <1>1, <1>2, <1>3, <1>4 DEF IInv

\* An answer to HPB comes from an active user.
LEMMA GetKeysKeeps == ASSUME IInv, NEW p \in Proc, GetKeys(p) PROVE IInv'
<1>1. TypeOK'
  BY DEF GetKeys, Goto, world, IInv, TypeOK, PC, Config, Flag, Status,
         NewUser
<1>2. StatusIsTrue' /\ \A q \in Proc : IsTrue(copy[q])'
  BY DEF GetKeys, Goto, world, IInv, TypeOK, PC, Config, Flag, Status,
         NewUser, StatusIsTrue, IsTrue, BankOK
<1>3. BankOK'
  BY DEF GetKeys, Goto, world, IInv, TypeOK, PC, Config, BankOK
<1>4. LockOK'
  BY EbicsKeysAssumption
  DEF GetKeys, Goto, world, IInv, TypeOK, PC, Config, LockOK, Holds, NewUser
<1> QED
  BY <1>1, <1>2, <1>3, <1>4 DEF IInv

\* The bank may have a key nobody knows of.
LEMMA ExchangeFailsKeeps ==
    ASSUME IInv, NEW p \in Proc, ExchangeFails(p)
    PROVE  IInv'
<1>1. TypeOK'
  BY DEF ExchangeFails, Goto, BankTakes, IInv, TypeOK, PC, Config, Flag,
         Status, NewUser
<1>2. StatusIsTrue' /\ \A q \in Proc : IsTrue(copy[q])'
  BY DEF ExchangeFails, Goto, BankTakes, IInv, TypeOK, PC, Config, Flag,
         Status, NewUser, StatusIsTrue, IsTrue, BankOK
<1>3. BankOK'
  BY DEF ExchangeFails, Goto, BankTakes, IInv, TypeOK, PC, Config, BankOK
<1>4. LockOK'
  BY EbicsKeysAssumption
  DEF ExchangeFails, Goto, BankTakes, IInv, TypeOK, PC, Config, LockOK,
      Holds, NewUser
<1> QED
  BY <1>1, <1>2, <1>3, <1>4 DEF IInv

\* The user stops the dialog.
LEMMA UserAbortsKeeps == ASSUME IInv, NEW p \in Proc, UserAborts(p) PROVE IInv'
<1>1. TypeOK'
  BY DEF UserAborts, Goto, world, IInv, TypeOK, PC, Config, Flag, Status,
         NewUser
<1>2. StatusIsTrue' /\ \A q \in Proc : IsTrue(copy[q])'
  BY DEF UserAborts, Goto, world, IInv, TypeOK, PC, Config, Flag, Status,
         NewUser, StatusIsTrue, IsTrue, BankOK
<1>3. BankOK'
  BY DEF UserAborts, Goto, world, IInv, TypeOK, PC, Config, BankOK
<1>4. LockOK'
  BY EbicsKeysAssumption
  DEF UserAborts, Goto, world, IInv, TypeOK, PC, Config, LockOK, Holds,
      NewUser
<1> QED
  BY <1>1, <1>2, <1>3, <1>4 DEF IInv

\* The first of the bank's keys is stored.
LEMMA StoreAuthKeyKeeps ==
    ASSUME IInv, NEW p \in Proc, StoreAuthKey(p)
    PROVE  IInv'
<1>1. TypeOK'
  BY DEF StoreAuthKey, Goto, IInv, TypeOK, PC, Config, Flag, Status, NewUser
<1>2. StatusIsTrue' /\ \A q \in Proc : IsTrue(copy[q])'
  BY DEF StoreAuthKey, Goto, IInv, TypeOK, PC, Config, Flag, Status,
         NewUser, StatusIsTrue, IsTrue, BankOK
<1>3. BankOK'
  BY DEF StoreAuthKey, Goto, IInv, TypeOK, PC, Config, BankOK
<1>4. LockOK'
  BY EbicsKeysAssumption
  DEF StoreAuthKey, Goto, IInv, TypeOK, PC, Config, LockOK, Holds, NewUser
<1> QED
  BY <1>1, <1>2, <1>3, <1>4 DEF IInv

\* Whoever is enabled has both keys of the bank, and the bank has the user's.
LEMMA StoreCryptKeyKeeps ==
    ASSUME IInv, NEW p \in Proc, StoreCryptKey(p)
    PROVE  IInv'
<1>1. TypeOK'
  BY DEF StoreCryptKey, Goto, Enabled, IInv, TypeOK, PC, Config, Flag,
         Status, NewUser
<1>2. StatusIsTrue' /\ \A q \in Proc : IsTrue(copy[q])'
  BY DEF StoreCryptKey, Goto, Enabled, IInv, TypeOK, PC, Config, Flag,
         Status, NewUser, StatusIsTrue, IsTrue, BankOK
<1>3. BankOK'
  BY DEF StoreCryptKey, Goto, Enabled, IInv, TypeOK, PC, Config, BankOK
<1>4. LockOK'
  BY EbicsKeysAssumption
  DEF StoreCryptKey, Goto, Enabled, IInv, TypeOK, PC, Config, LockOK, Holds,
      NewUser
<1> QED
  BY <1>1, <1>2, <1>3, <1>4 DEF IInv

\* A key cannot be stored.
LEMMA StoreFailsKeeps == ASSUME IInv, NEW p \in Proc, StoreFails(p) PROVE IInv'
<1>1. TypeOK'
  BY DEF StoreFails, Goto, world, IInv, TypeOK, PC, Config, Flag, Status,
         NewUser
<1>2. StatusIsTrue' /\ \A q \in Proc : IsTrue(copy[q])'
  BY DEF StoreFails, Goto, world, IInv, TypeOK, PC, Config, Flag, Status,
         NewUser, StatusIsTrue, IsTrue, BankOK
<1>3. BankOK'
  BY DEF StoreFails, Goto, world, IInv, TypeOK, PC, Config, BankOK
<1>4. LockOK'
  BY EbicsKeysAssumption
  DEF StoreFails, Goto, world, IInv, TypeOK, PC, Config, LockOK, Holds,
      NewUser
<1> QED
  BY <1>1, <1>2, <1>3, <1>4 DEF IInv

\* The copy that is written back is true and has the stored flags.
LEMMA WriteKeeps == ASSUME IInv, NEW p \in Proc, Write(p) PROVE IInv'
<1>1. TypeOK'
  BY DEF Write, Goto, AfterRequest, world, IInv, TypeOK, PC, Config, Flag,
         Status, NewUser
<1>2. StatusIsTrue' /\ \A q \in Proc : IsTrue(copy[q])'
  BY DEF Write, Goto, AfterRequest, world, IInv, TypeOK, PC, Config, Flag,
         Status, NewUser, StatusIsTrue, IsTrue, BankOK
<1>3. BankOK'
  BY DEF Write, Goto, AfterRequest, world, IInv, TypeOK, PC, Config, BankOK
<1>4. LockOK'
  BY EbicsKeysAssumption
  DEF Write, Goto, AfterRequest, world, IInv, TypeOK, PC, Config, LockOK,
      Holds, NewUser
<1> QED
  BY <1>1, <1>2, <1>3, <1>4 DEF IInv

\* Nothing is written.
LEMMA WriteFailsKeeps == ASSUME IInv, NEW p \in Proc, WriteFails(p) PROVE IInv'
<1>1. TypeOK'
  BY DEF WriteFails, Goto, world, IInv, TypeOK, PC, Config, Flag, Status,
         NewUser
<1>2. StatusIsTrue' /\ \A q \in Proc : IsTrue(copy[q])'
  BY DEF WriteFails, Goto, world, IInv, TypeOK, PC, Config, Flag, Status,
         NewUser, StatusIsTrue, IsTrue, BankOK
<1>3. BankOK'
  BY DEF WriteFails, Goto, world, IInv, TypeOK, PC, Config, BankOK
<1>4. LockOK'
  BY EbicsKeysAssumption
  DEF WriteFails, Goto, world, IInv, TypeOK, PC, Config, LockOK, Holds,
      NewUser
<1> QED
  BY <1>1, <1>2, <1>3, <1>4 DEF IInv

\* The use ends without a write.
LEMMA AbandonKeeps == ASSUME IInv, NEW p \in Proc, Abandon(p) PROVE IInv'
<1>1. TypeOK'
  BY DEF Abandon, Goto, world, IInv, TypeOK, PC, Config, Flag, Status,
         NewUser
<1>2. StatusIsTrue' /\ \A q \in Proc : IsTrue(copy[q])'
  BY DEF Abandon, Goto, world, IInv, TypeOK, PC, Config, Flag, Status,
         NewUser, StatusIsTrue, IsTrue, BankOK
<1>3. BankOK'
  BY DEF Abandon, Goto, world, IInv, TypeOK, PC, Config, BankOK
<1>4. LockOK'
  BY EbicsKeysAssumption
  DEF Abandon, Goto, world, IInv, TypeOK, PC, Config, LockOK, Holds, NewUser
<1> QED
  BY <1>1, <1>2, <1>3, <1>4 DEF IInv

\* The user is gone, and with it all that was said of it.
LEMMA UndoKeeps == ASSUME IInv, NEW p \in Proc, Undo(p) PROVE IInv'
<1>1. TypeOK'
  <2>1. exists' \in BOOLEAN /\ disturbed' \in BOOLEAN
    <3>1. exists' = FALSE /\ (disturbed' = (disturbed \/ Disturbs(p)))
      BY DEF Undo
    <3> QED
      BY <3>1, Zenon
  <2>2. /\ user' \in Config /\ keyFile' \in Nat
        /\ stored' \subseteq {"auth", "crypt"} /\ pc' \in [Proc -> PC]
    <3>1. /\ user' = NewUser /\ Goto(p, "idle")
          /\ keyFile' \in {0, keyFile} /\ stored' \subseteq stored
      BY DEF Undo
    <3>2. TypeOK
      BY DEF IInv
    <3>3. NewUser \in Config
      BY DEF NewUser, Config, Flag, Status
    <3>4. pc' \in [Proc -> PC]
      BY <3>1, <3>2 DEF Goto, TypeOK, PC
    <3>5. stored \subseteq {"auth", "crypt"} /\ keyFile \in Nat
      BY <3>2 DEF TypeOK
    <3> QED
      BY <3>1, <3>3, <3>4, <3>5
  <2>3. UNCHANGED <<lock, dialog, req, copy, runs, bank, active, created>>
    BY DEF Undo
  <2> QED
    BY <2>1, <2>2, <2>3 DEF IInv, TypeOK
<1>2. StatusIsTrue' /\ \A q \in Proc : IsTrue(copy[q])'
  BY DEF Undo, Goto, Disturbs, IInv, TypeOK, PC, Config, Flag, Status,
         NewUser, StatusIsTrue, IsTrue, BankOK
<1>3. BankOK'
  BY DEF Undo, Goto, Disturbs, IInv, TypeOK, PC, Config, BankOK
<1>4. LockOK'
  BY EbicsKeysAssumption
  DEF Undo, Goto, Disturbs, IInv, TypeOK, PC, Config, LockOK, Holds, NewUser
<1> QED
  BY <1>1, <1>2, <1>3, <1>4 DEF IInv

\* A process that dies, and the bank that enables the user.
LEMMA CrashKeeps == ASSUME IInv, NEW p \in Proc, Crash(p) PROVE IInv'
<1>1. TypeOK'
  BY DEF Crash, Goto, world, IInv, TypeOK, PC
<1>2. StatusIsTrue' /\ \A q \in Proc : IsTrue(copy[q])'
  BY DEF Crash, world, IInv, TypeOK, StatusIsTrue, IsTrue
<1>3. BankOK' /\ LockOK'
  BY EbicsKeysAssumption
  DEF Crash, Goto, world, IInv, TypeOK, BankOK, LockOK, Holds
<1> QED
  BY <1>1, <1>2, <1>3 DEF IInv

\* The bank enables a user of whom it has both keys.
LEMMA ActivateKeeps == ASSUME IInv, Activate PROVE IInv'
<1>1. TypeOK'
  <2>1. active' \in BOOLEAN
    BY Zenon DEF Activate
  <2> QED
    BY <2>1 DEF Activate, IInv, TypeOK
<1>2. StatusIsTrue' /\ \A q \in Proc : IsTrue(copy[q])'
  BY DEF Activate, IInv, TypeOK, StatusIsTrue, IsTrue
<1>3. BankOK' /\ LockOK'
  BY DEF Activate, IInv, TypeOK, BankOK, LockOK, Holds
<1> QED
  BY <1>1, <1>2, <1>3 DEF IInv

\* Every step keeps the invariant.
LEMMA IInvStep == IInv /\ [Next]_vars => IInv'
<1> SUFFICES ASSUME IInv, [Next]_vars PROVE IInv'
  OBVIOUS
<1>1. ASSUME NEW p \in Proc, Request(p) PROVE IInv'
  BY <1>1, CheckKeeps, SentAlreadyKeeps, LockKeeps, LockFailsKeeps,
     CreateKeysKeeps, CreateFailsKeeps, SendKeysKeeps, GetKeysKeeps,
     ExchangeFailsKeeps, UserAbortsKeeps, StoreAuthKeyKeeps,
     StoreCryptKeyKeeps, StoreFailsKeeps, WriteKeeps, WriteFailsKeeps,
     AbandonKeeps, UndoKeeps
  DEF Request
<1>2. CASE UNCHANGED vars
  BY <1>2 DEF vars, world, IInv, TypeOK, StatusIsTrue, IsTrue, BankOK, LockOK,
     Holds
<1> QED
  BY <1>1, <1>2, BeginKeeps, CrashKeeps, ActivateKeeps DEF Next

\* The inductive invariant of the initialisation of users.
THEOREM Invariant == Spec => []IInv
BY IInvInit, IInvStep, PTL DEF Spec

\* The variables have their types.
THEOREM TypeCorrect == Spec => []TypeOK
<1>1. IInv => TypeOK
  BY DEF IInv
<1> QED
  BY <1>1, Invariant, PTL

\* Flags and status of a user are what the bank has and has said, whichever
\* programs work on the user and wherever they fail or die.
THEOREM StatusStaysTrue == Spec => []StatusIsTrue
<1>1. IInv => StatusIsTrue
  BY DEF IInv
<1> QED
  BY <1>1, Invariant, PTL

Grows == \/ user.flags \subseteq user'.flags
         \/ \E p \in Proc : pc[p] = "write" /\ req[p] = "reset" /\ lock = p
         \/ ~exists'

\* A step that changes the stored flags takes none away, but for a reset or
\* the deletion of the user.
LEMMA GrowsStep == IInv /\ [Next]_vars => [Grows]_vars
<1> SUFFICES ASSUME IInv, Next PROVE Grows
  BY DEF vars
<1>1. ASSUME NEW p \in Proc, Write(p) PROVE Grows
  BY <1>1 DEF Write, Grows, IInv, TypeOK, LockOK, Holds
<1>2. ASSUME NEW p \in Proc, Undo(p) PROVE Grows
  BY <1>2, Zenon DEF Undo, Grows
<1>3. ASSUME NEW p \in Proc, NewDialog(p) PROVE Grows
  BY <1>3 DEF NewDialog, Grows, IInv, LockOK, NewUser
<1>4. ASSUME NEW p \in Proc, Request(p), ~Write(p), ~Undo(p) PROVE user' = user
  BY <1>4 DEF Request, Check, SentAlready, Lock, LockFails, CreateKeys,
     CreateFails, SendKeys, GetKeys, ExchangeFails, UserAborts, StoreAuthKey,
     StoreCryptKey, StoreFails, WriteFails, Abandon
<1>5. ASSUME NEW p \in Proc, NEW l, NEW r, Command(p, l, r) PROVE user' = user
  BY <1>5 DEF Command
<1>6. ASSUME NEW p \in Proc, Crash(p) PROVE user' = user
  BY <1>6 DEF Crash
<1>7. Activate => user' = user
  BY DEF Activate
<1>8. user' = user => Grows
  BY DEF Grows
<1> QED
  BY <1>1, <1>2, <1>3, <1>4, <1>5, <1>6, <1>7, <1>8 DEF Next

\* What one program has found out no other one takes back.
THEOREM FlagsOnlyGrow == Spec => FlagsGrow
<1>1. [][Grows]_vars => FlagsGrow
  BY DEF Grows, FlagsGrow
<1> QED
  BY <1>1, GrowsStep, Invariant, PTL DEF Spec

-----------------------------------------------------------------------------
(* EbicsTransfer.                                                          *)

\* A sequence that is a beginning of f, and the next element of f behind it.
LEMMA AppendNext ==
    ASSUME NEW s, NEW f, NEW k \in Nat \ {0},
           s = [j \in 1..(k - 1) |-> f[j]]
    PROVE  Append(s, f[k]) = [j \in 1..k |-> f[j]]
<1> DEFINE R == {f[j] : j \in 1..k}
<1>1. s \in [1..(k - 1) -> R] /\ k - 1 \in Nat
  OBVIOUS
<1>2. s \in Seq(R) /\ Len(s) = k - 1
  BY <1>1
<1>3. f[k] \in R
  OBVIOUS
<1>4. /\ Append(s, f[k]) \in Seq(R) /\ Len(Append(s, f[k])) = k
      /\ \A j \in 1..(k - 1) : Append(s, f[k])[j] = s[j]
      /\ Append(s, f[k])[k] = f[k]
  BY <1>2, <1>3, AppendProperties
<1> HIDE DEF R
<1>5. \A j \in 1..k : Append(s, f[k])[j] = f[j]
  BY <1>4
<1>6. Append(s, f[k]) = [j \in 1..k |-> Append(s, f[k])[j]]
  BY <1>4
<1> QED
  BY <1>5, <1>6

\* The invariant of transfers holds initially.
LEMMA TransferStarts == TransferInit => TransferInv
<1>1. TransferInit => buffer \in Seq(Nat) /\ got \in Seq(Nat \X BOOLEAN)
  BY EmptySeq DEF TransferInit
<1>2. TransferInit => receipt \in BOOLEAN
  BY Zenon DEF TransferInit
<1> QED
  BY <1>1, <1>2
  DEF TransferInit, TransferInv, TransferTypeOK, Version, Stage, PhaseOK,
      NothingLost, SuccessIsWhole, FaultlessSucceeds

\* Arrivals and calls.
LEMMA CallKeeps ==
    ASSUME TransferInv,
           \/ Arrive
           \/ \E r \in BOOLEAN : Call("download", r, 0)
           \/ \E n \in 1..MaxSegments : Call("upload", FALSE, n)
    PROVE  TransferInv'
<1>1. CASE Arrive
  BY <1>1
  DEF Arrive, TransferInv, TransferTypeOK, PhaseOK, NothingLost,
      SuccessIsWhole, FaultlessSucceeds, Whole, call, place
<1>2. ASSUME NEW r \in BOOLEAN, Call("download", r, 0) PROVE TransferInv'
  <2>1. receipt' \in BOOLEAN
    BY <1>2, Zenon DEF Call
  <2>2. buffer' \in Seq(Nat) /\ got' \in Seq(Nat \X BOOLEAN)
    BY <1>2, EmptySeq DEF Call
  <2> QED
    BY <1>2, <2>1, <2>2
    DEF Call, TransferInv, TransferTypeOK, Stage, PhaseOK, NothingLost,
        SuccessIsWhole, FaultlessSucceeds, Whole
<1>3. ASSUME NEW n \in 1..MaxSegments, Call("upload", FALSE, n)
      PROVE TransferInv'
  <2>1. receipt' \in BOOLEAN
    BY <1>3, Zenon DEF Call
  <2>2. buffer' \in Seq(Nat) /\ got' \in Seq(Nat \X BOOLEAN)
    BY <1>3, EmptySeq DEF Call
  <2> QED
    BY <1>3, <2>1, <2>2
    DEF Call, TransferInv, TransferTypeOK, Stage, PhaseOK, NothingLost,
        SuccessIsWhole, FaultlessSucceeds, Whole
<1> QED
  BY <1>1, <1>2, <1>3

\* What failed, or died.
LEMMA TransferFailsKeeps ==
    ASSUME TransferInv, Fails \/ ProgramDies,
           arrived' \in Nat, fresh' \subseteq Nat, inTx' \subseteq Nat,
           got' \in Seq(Nat \X BOOLEAN)
    PROVE  TransferInv'
BY
DEF Fails, ProgramDies, Return, call, place, atBank, TransferInv,
    TransferTypeOK, Stage, PhaseOK, NothingLost, SuccessIsWhole,
    FaultlessSucceeds, Whole

\* The steps of a download.
LEMMA DownloadKeeps ==
    ASSUME TransferInv, Download
    PROVE  TransferInv'
<1>1. ASSUME NEW n \in 1..MaxSegments, InitDownload(n) PROVE TransferInv'
  <2>1. buffer' = [j \in 1..1 |-> j]
    BY <1>1 DEF InitDownload
  <2> QED
    BY <1>1, <2>1
    DEF InitDownload, TransferInv, TransferTypeOK, Stage, PhaseOK, NothingLost,
        SuccessIsWhole, FaultlessSucceeds, Whole, call
<1>2. CASE NoData
  BY <1>2
  DEF NoData, Return, call, place, atBank, TransferInv, TransferTypeOK, Stage,
      PhaseOK, NothingLost, SuccessIsWhole, FaultlessSucceeds, Whole
<1>3. CASE InitDownloadFails
  BY <1>3, TransferFailsKeeps
  DEF InitDownloadFails, TransferInv, TransferTypeOK
<1>4. CASE NoTransaction
  BY <1>4
  DEF NoTransaction, call, place, atBank, TransferInv, TransferTypeOK, Stage,
      PhaseOK, NothingLost, SuccessIsWhole, FaultlessSucceeds, Whole
<1>5. CASE NextSegment
  <2>1. buffer' = [j \in 1..seg |-> j]
    <3> DEFINE f == [j \in Nat |-> j]
    <3>1. /\ seg \in Nat \ {0} /\ f[seg] = seg
          /\ buffer = [j \in 1..(seg - 1) |-> f[j]]
          /\ buffer' = Append(buffer, f[seg])
      BY <1>5 DEF NextSegment, TransferInv, TransferTypeOK, PhaseOK
    <3> HIDE DEF f
    <3>2. buffer' = [j \in 1..seg |-> f[j]]
      BY <3>1, AppendNext
    <3> QED
      BY <3>1, <3>2 DEF f
  <2> QED
    BY <1>5, <2>1
    DEF NextSegment, LastSegment, TransferInv, TransferTypeOK, Version, Stage,
        PhaseOK, NothingLost, SuccessIsWhole, FaultlessSucceeds, Whole, call,
        atBank
<1>6. CASE SegmentFails
  BY <1>6, TransferFailsKeeps
  DEF SegmentFails, TransferInv, TransferTypeOK, atBank
<1>7. CASE Decode
  BY <1>7
  DEF Decode, Return, call, place, atBank, TransferInv, TransferTypeOK, Stage,
      PhaseOK, NothingLost, SuccessIsWhole, FaultlessSucceeds, Whole
<1>8. CASE DecodeFails
  BY <1>8, TransferFailsKeeps
  DEF DecodeFails, TransferInv, TransferTypeOK, atBank
<1>9. CASE Receipt
  BY <1>9
  DEF Receipt, Receipted, call, place, TransferInv, TransferTypeOK, Stage,
      PhaseOK, NothingLost, SuccessIsWhole, FaultlessSucceeds, Whole
<1>10. CASE ReceiptRefused
  <2>1. CASE version = "H003"
    BY <1>10, <2>1, TransferFailsKeeps
    DEF ReceiptRefused, TransferInv, TransferTypeOK, atBank
  <2>2. CASE version # "H003"
    BY <1>10, <2>2
    DEF ReceiptRefused, call, place, atBank, TransferInv, TransferTypeOK,
        Stage, PhaseOK, NothingLost, SuccessIsWhole, FaultlessSucceeds, Whole
  <2> QED
    BY <2>1, <2>2
<1>11. CASE ReceiptFails
  BY <1>11, TransferFailsKeeps
  DEF ReceiptFails, Receipted, TransferInv, TransferTypeOK, atBank
<1>12. CASE Import
  BY <1>12
  DEF Import, Return, call, place, atBank, TransferInv, TransferTypeOK, Stage,
      PhaseOK, NothingLost, SuccessIsWhole, FaultlessSucceeds, Whole
<1>13. CASE ImportFails
  BY <1>13, TransferFailsKeeps
  DEF ImportFails, TransferInv, TransferTypeOK, atBank
<1> QED
  BY <1>1, <1>2, <1>3, <1>4, <1>5, <1>6, <1>7, <1>8, <1>9, <1>10, <1>11,
     <1>12, <1>13 DEF Download

\* The segment an upload sends follows those the bank has got.
LEMMA SentNext ==
    ASSUME TransferInv, stage = "upload", Sent
    PROVE  /\ got' \in Seq(Nat \X BOOLEAN)
           /\ trouble = "none" =>
                got' = [j \in 1..seg |-> <<j, j = count>>]
<1> DEFINE f == [j \in Nat |-> <<j, j = count>>]
<1>1. seg \in Nat \ {0} /\ got \in Seq(Nat \X BOOLEAN)
  BY DEF TransferInv, TransferTypeOK, PhaseOK
<1>2. f[seg] = <<seg, IsLast(seg)>> /\ f[seg] \in Nat \X BOOLEAN
  BY <1>1, Zenon DEF IsLast
<1>3. got' = Append(got, f[seg])
  BY <1>2 DEF Sent
<1>4. trouble = "none" => got = [j \in 1..(seg - 1) |-> f[j]]
  BY <1>1 DEF TransferInv, PhaseOK
<1> HIDE DEF f
<1>5. trouble = "none" => got' = [j \in 1..seg |-> f[j]]
  BY <1>1, <1>3, <1>4, AppendNext
<1>6. got' \in Seq(Nat \X BOOLEAN)
  BY <1>1, <1>2, <1>3
<1>7. [j \in 1..seg |-> f[j]] = [j \in 1..seg |-> <<j, j = count>>]
  <2>1. \A j \in 1..seg : f[j] = <<j, j = count>>
    <3>1. 1..seg \subseteq Nat
      BY <1>1
    <3> QED
      BY <3>1, Zenon DEF f
  <2> QED
    BY <2>1, Zenon
<1> QED
  BY <1>5, <1>6, <1>7, Zenon

\* The steps of an upload.
LEMMA UploadKeeps == ASSUME TransferInv, Upload PROVE TransferInv'
<1>1. CASE InitUpload
  BY <1>1
  DEF InitUpload, call, atBank, TransferInv, TransferTypeOK, Stage, PhaseOK,
      NothingLost, SuccessIsWhole, FaultlessSucceeds, Whole
<1>2. CASE InitUploadFails
  BY <1>2, TransferFailsKeeps
  DEF InitUploadFails, TransferInv, TransferTypeOK, atBank
<1>3. CASE NoUploadTransaction
  BY <1>3
  DEF NoUploadTransaction, Return, call, place, atBank, TransferInv,
      TransferTypeOK, Stage, PhaseOK, NothingLost, SuccessIsWhole,
      FaultlessSucceeds, Whole
<1>4. CASE SendSegment
  <2>1. /\ got' \in Seq(Nat \X BOOLEAN)
        /\ trouble = "none" =>
             got' = [j \in 1..seg |-> <<j, j = count>>]
    BY <1>4, SentNext DEF SendSegment
  <2>2. UNCHANGED <<arrived, fresh, inTx>>
    BY <1>4 DEF SendSegment, Sent
  <2>3. stage = "upload" /\ Onwards /\ trouble' = trouble
    BY <1>4 DEF SendSegment
  <2>4. TransferTypeOK'
    BY <2>1, <2>2, <2>3
    DEF Onwards, Return, call, TransferInv, TransferTypeOK, Stage
  <2>5. PhaseOK' /\ SuccessIsWhole'
    <3>1. CASE seg = count
      BY <2>1, <2>2, <2>3, <3>1
      DEF Onwards, Return, call, TransferInv, TransferTypeOK, PhaseOK,
          SuccessIsWhole
    <3>2. CASE seg # count
      BY <2>1, <2>2, <2>3, <3>2
      DEF Onwards, Return, call, TransferInv, TransferTypeOK, PhaseOK,
          SuccessIsWhole
    <3> QED
      BY <3>1, <3>2
  <2>6. NothingLost' /\ FaultlessSucceeds'
    BY <2>2, <2>3
    DEF Onwards, Return, call, TransferInv, PhaseOK, NothingLost,
        FaultlessSucceeds
  <2> QED
    BY <2>4, <2>5, <2>6 DEF TransferInv
<1>5. CASE SegmentRefused
  BY <1>5
  DEF SegmentRefused, Onwards, Return, call, atBank, TransferInv,
      TransferTypeOK, Stage, PhaseOK, NothingLost, SuccessIsWhole,
      FaultlessSucceeds, Whole
<1>6. CASE SendSegmentFails
  BY <1>6, TransferFailsKeeps, SentNext
  DEF SendSegmentFails, Sent, TransferInv, TransferTypeOK, atBank
<1> QED
  BY <1>1, <1>2, <1>3, <1>4, <1>5, <1>6 DEF Upload

\* Every step keeps the invariant.
LEMMA TransferStep ==
    TransferInv /\ [TransferNext]_transferVars => TransferInv'
<1> SUFFICES ASSUME TransferInv, [TransferNext]_transferVars PROVE TransferInv'
  OBVIOUS
<1>1. CASE ProgramDies
  BY <1>1, TransferFailsKeeps
  DEF ProgramDies, TransferInv, TransferTypeOK, atBank
<1>2. CASE UNCHANGED transferVars
  BY <1>2
  DEF transferVars, call, place, atBank, TransferInv, TransferTypeOK, PhaseOK,
      NothingLost, SuccessIsWhole, FaultlessSucceeds, Whole
<1> QED
  BY <1>1, <1>2, CallKeeps, DownloadKeeps, UploadKeeps DEF TransferNext

\* The inductive invariant of downloads and uploads.
THEOREM TransferInvariant == TransferSpec => []TransferInv
BY TransferStarts, TransferStep, PTL DEF TransferSpec

\* The variables have their types, for any number of calls and segments.
THEOREM TransferTypeCorrect == TransferSpec => []TransferTypeOK
<1>1. TransferInv => TransferTypeOK
  BY DEF TransferInv
<1> QED
  BY <1>1, TransferInvariant, PTL

\* A call that did not fail has given the application whatever it has made
\* the bank take off its list.
THEOREM NothingIsLost == TransferSpec => []NothingLost
<1>1. TransferInv => NothingLost
  BY DEF TransferInv
<1> QED
  BY <1>1, TransferInvariant, PTL

\* A call that returns 0 has moved all segments, in their order.
THEOREM WholeOnSuccess == TransferSpec => []SuccessIsWhole
<1>1. TransferInv => SuccessIsWhole
  BY DEF TransferInv
<1> QED
  BY <1>1, TransferInvariant, PTL

\* A call in which nothing goes wrong does not fail, but for long downloads
\* with H003.
THEOREM FaultlessDoesNotFail == TransferSpec => []FaultlessSucceeds
<1>1. TransferInv => FaultlessSucceeds
  BY DEF TransferInv
<1> QED
  BY <1>1, TransferInvariant, PTL
=============================================================================
