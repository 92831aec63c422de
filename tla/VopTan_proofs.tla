--------------------------- MODULE VopTan_proofs ----------------------------
(* Proofs about VopTan: its invariant, what follows from it, and that it    *)
(* implements PaymentConsent.                                               *)
EXTENDS VopTan, TLAPS

(* An answer to HKVPP has the codes of such answers. *)
LEMMA VppTypes ==
    ASSUME TypeOK, VppAnswer
    PROVE  /\ vppCodes' \in SUBSET VppCodes /\ repeats' \in 0..MaxRepeats
           /\ attach' \in BOOLEAN /\ vopId' \in BOOLEAN
           /\ vopMsg' \in BOOLEAN /\ mismatch' \in BOOLEAN
<1>1. vppCodes' \in SUBSET VppCodes
  BY DEF TypeOK, VppAnswer
<1>2. repeats' \in 0..MaxRepeats
  BY VopTanAssumption DEF TypeOK, VppAnswer
<1>3. attach' \in BOOLEAN
  BY Zenon DEF VppAnswer
<1>4. vopId' \in BOOLEAN /\ vopMsg' \in BOOLEAN /\ mismatch' \in BOOLEAN
  BY DEF VppAnswer
<1> QED
  BY <1>1, <1>2, <1>3, <1>4

(* After such an answer HKVPP is sent again, or the verdict is due. *)
LEMMA AfterVppTypes ==
    ASSUME TypeOK, AfterVpp
    PROVE  /\ pc' \in {"send", "verdict"} /\ rv' = rv
           /\ step' \in {step, "poll"} /\ segs' \in SUBSET Segments
<1>1. CASE Message("poll", {"vpp"})
  BY <1>1 DEF Message, Segments
<1>2. CASE Goto("verdict")
  BY <1>2 DEF Goto, msg, TypeOK
<1> QED
  BY <1>1, <1>2 DEF AfterVpp

(* Every step keeps the types. *)
LEMMA TypeStep ==
    ASSUME TypeOK, MessageInv, BankInv, [Next]_vars
    PROVE  TypeOK'
<1> USE VopTanAssumption
<1>1. ASSUME Send PROVE TypeOK'
  BY <1>1 DEF Send, Goto, BankGets, If, call, msg, tan, user, more, TypeOK,
         MessageInv, BankInv, BankOnce
<1>2. ASSUME SendFails PROVE TypeOK'
  <2>1. CASE BankGets
    BY <1>2, <2>1 DEF SendFails, End, BankGets, If, call, msg, tan, vpp,
           user, more, TypeOK, MessageInv, BankInv, BankOnce
  <2>2. CASE UNCHANGED bank
    BY <1>2, <2>2 DEF SendFails, End, call, msg, tan, vpp, user, bank, more,
           TypeOK
  <2> QED
    BY <1>2, <2>1, <2>2 DEF SendFails
<1>3. ASSUME ReceiveFails PROVE TypeOK'
  BY <1>3 DEF ReceiveFails, End, call, msg, tan, vpp, user, bank, more,
         TypeOK
<1>4. ASSUME Start PROVE TypeOK'
  BY <1>4 DEF Start, Message, call, tan, vpp, user, bank, more, TypeOK,
         Segments, If
<1>5. ASSUME AnswerStage1 PROVE TypeOK'
  <2>1. /\ vppCodes' \in SUBSET VppCodes /\ repeats' \in 0..MaxRepeats
        /\ attach' \in BOOLEAN /\ vopId' \in BOOLEAN /\ vopMsg' \in BOOLEAN
        /\ mismatch' \in BOOLEAN
    <3>1. CASE VppAnswer
      BY <3>1, VppTypes
    <3>2. CASE UNCHANGED <<vpp, repeats>>
      BY <3>2 DEF vpp, TypeOK
    <3> QED
      BY <1>5, <3>1, <3>2 DEF AnswerStage1
  <2>2. /\ tanCodes' \in SUBSET TanCodes /\ reference' \in 0..2
        /\ hasChallenge' \in BOOLEAN
    <3>1. CASE TanAnswer
      BY <3>1 DEF TanAnswer, TypeOK
    <3>2. CASE UNCHANGED tan
      BY <3>2 DEF tan, TypeOK
    <3> QED
      BY <1>5, <3>1, <3>2 DEF AnswerStage1
  <2>3. AfterVpp
    BY <1>5 DEF AnswerStage1
  <2>4. UNCHANGED <<call, user, bank, waiting>> /\ workCodes' \in SUBSET {3076}
    BY <1>5 DEF AnswerStage1
  <2> QED
    BY <2>1, <2>2, <2>3, <2>4, AfterVppTypes DEF TypeOK, call, user, bank
<1>6. ASSUME AnswerPoll PROVE TypeOK'
  <2>1. VppAnswer /\ AfterVpp
        /\ UNCHANGED <<call, tan, workCodes, user, bank, waiting>>
    BY <1>6 DEF AnswerPoll
  <2> QED
    BY <2>1, VppTypes, AfterVppTypes DEF TypeOK, call, tan, user, bank
<1>7. ASSUME PayeeRejected PROVE TypeOK'
  BY <1>7 DEF PayeeRejected, End, call, msg, tan, vpp, user, bank, more,
         TypeOK
<1>8. ASSUME PayeeDoubtful PROVE TypeOK'
  BY <1>8 DEF PayeeDoubtful, Goto, call, msg, tan, vpp, user, bank, more,
         TypeOK
<1>9. ASSUME PayeeAccepted PROVE TypeOK'
  BY <1>9 DEF PayeeAccepted, Goto, call, msg, tan, vpp, user, bank, more,
         TypeOK
<1>10. ASSUME UserAccepts PROVE TypeOK'
  BY <1>10 DEF UserAccepts, Goto, call, msg, tan, vpp, bank, more, TypeOK
<1>11. ASSUME UserRefuses PROVE TypeOK'
  BY <1>11 DEF UserRefuses, End, call, msg, tan, vpp, bank, more, TypeOK
<1>12. ASSUME NoVopId PROVE TypeOK'
  BY <1>12 DEF NoVopId, End, call, msg, tan, vpp, user, bank, more, TypeOK
<1>13. ASSUME OrderAgain PROVE TypeOK'
  <2>1. /\ pc' = "send" /\ step' = "again" /\ rv' = rv
        /\ tanCodes' = {} /\ hasChallenge' = FALSE /\ reference' = 0
    BY <1>13 DEF OrderAgain, Message
  <2>2. segs' \in SUBSET Segments
    <3>1. segs' = If(withVop, {"vpa"}) \cup {"order", "challenge"}
      BY <1>13 DEF OrderAgain, Message
    <3> QED
      BY <3>1 DEF If, Segments
  <2>3. hasChallenge' \in BOOLEAN
    BY <2>1, Zenon
  <2>4. UNCHANGED <<call, workCodes, vpp, user, bank, more>>
    BY <1>13 DEF OrderAgain
  <2> QED
    BY <2>1, <2>2, <2>3, <2>4 DEF TypeOK, call, vpp, user, bank, more
<1>14. ASSUME AnswerAgain PROVE TypeOK'
  <2>1. /\ tanCodes' \in SUBSET TanCodes /\ reference' \in 0..2
        /\ hasChallenge' \in BOOLEAN
    BY <1>14 DEF AnswerAgain, TanAnswer, TypeOK
  <2>2. Release(tanCodes', {"tan"})
    BY <1>14 DEF AnswerAgain
  <2>3. /\ pc' \in {"done", "approve", "input"} /\ rv' \in {rv, "ok"}
        /\ step' \in {step, "tan"} /\ segs' \in {segs, {"tan"}}
    BY <2>2 DEF Release, Goto, End, msg
  <2>4. segs' \in SUBSET Segments
    BY <2>3 DEF TypeOK, Segments
  <2>5. UNCHANGED <<call, workCodes, vpp, user, bank, more>>
    BY <1>14 DEF AnswerAgain
  <2> QED
    BY <2>1, <2>3, <2>4, <2>5 DEF TypeOK, call, vpp, user, bank, more
<1>15. ASSUME ReleaseFirst PROVE TypeOK'
  BY <1>15 DEF ReleaseFirst, Release, Goto, End, call, msg, tan, vpp, user,
         bank, more, TypeOK, MessageInv, Segments, If, FirstRelease
<1>16. ASSUME InputTan PROVE TypeOK'
  BY <1>16 DEF InputTan, Goto, call, msg, tan, vpp, user, bank, more, TypeOK
<1>17. ASSUME NoChallenge PROVE TypeOK'
  BY <1>17 DEF NoChallenge, End, call, msg, tan, vpp, user, bank, more,
         TypeOK
<1>18. ASSUME UserApproves PROVE TypeOK'
  BY <1>18 DEF UserApproves, Message, call, tan, vpp, user, bank, more,
         TypeOK, Segments
<1>19. ASSUME AnswerNotYet PROVE TypeOK'
  <2>1. waiting' \in BOOLEAN
    BY <1>19, Zenon DEF AnswerNotYet
  <2>2. repeats' \in 0..MaxRepeats
    BY <1>19 DEF AnswerNotYet, TypeOK
  <2> QED
    BY <1>19, <2>1, <2>2 DEF AnswerNotYet, Goto, call, msg, tan, vpp, user,
           bank, TypeOK
<1>20. ASSUME AnswerApproved PROVE TypeOK'
  <2>1. waiting' \in BOOLEAN
    BY <1>20, Zenon DEF AnswerApproved
  <2> QED
    BY <1>20, <2>1 DEF AnswerApproved, End, call, msg, tan, vpp, user, bank,
           TypeOK
<1>21. ASSUME AnswerLast PROVE TypeOK'
  BY <1>21 DEF AnswerLast, End, call, msg, tan, vpp, user, bank, more, TypeOK
<1>22. ASSUME Confirm PROVE TypeOK'
  <2>1. segs' \in SUBSET Segments
    <3>1. segs' = If(NeedVpa, {"vpa"}) \cup {"order"}
      BY <1>22 DEF Confirm, Message
    <3> QED
      BY <3>1 DEF If, Segments
  <2> QED
    BY <1>22, <2>1 DEF Confirm, Message, call, tan, vpp, user, bank, more,
           TypeOK
<1>23. ASSUME NothingToConfirm PROVE TypeOK'
  BY <1>23 DEF NothingToConfirm, End, call, msg, tan, vpp, user, bank, more,
         TypeOK
<1>24. CASE UNCHANGED vars
  BY <1>24 DEF vars, call, msg, tan, vpp, user, bank, more, TypeOK
<1> QED
  BY <1>1, <1>2, <1>3, <1>4, <1>5, <1>6, <1>7, <1>8, <1>9, <1>10, <1>11,
     <1>12, <1>13, <1>14, <1>15, <1>16, <1>17, <1>18, <1>19, <1>20, <1>21,
     <1>22, <1>23, <1>24
  DEF Next, Stage1, Stage2


(* A message has the jobs that its stage puts into it. *)
LEMMA MessageStep ==
    ASSUME TypeOK, MessageInv, VppInv, [Next]_vars
    PROVE  MessageInv'
<1> USE VopTanAssumption
<1>1. ASSUME Send PROVE MessageInv'
  BY <1>1 DEF Send, Goto, If, call, msg, user, MessageInv, NeedVpa
<1>2. ASSUME SendFails PROVE MessageInv'
  BY <1>2 DEF SendFails, End, call, msg, vpp, MessageInv, NeedVpa
<1>3. ASSUME ReceiveFails PROVE MessageInv'
  BY <1>3 DEF ReceiveFails, End, call, msg, vpp, MessageInv, NeedVpa
<1>4. ASSUME Start PROVE MessageInv'
  BY <1>4 DEF Start, Message, call, user, MessageInv
<1>5. ASSUME AnswerStage1 PROVE MessageInv'
  <2>1. /\ pc = "recv" /\ step = "stage1" /\ rv' = rv
        /\ UNCHANGED <<call, user>>
    BY <1>5 DEF AnswerStage1, AfterVpp, Message, Goto
  <2>2. CASE attach'
    <3>1. pc' = "send" /\ step' = "poll" /\ segs' = {"vpp"}
      BY <1>5, <2>2 DEF AnswerStage1, AfterVpp, Message
    <3>2. withVop
      <4>1. ~attach
        BY <2>1 DEF VppInv
      <4>2. CASE UNCHANGED <<vpp, repeats>>
        BY <4>1, <4>2, <2>2 DEF vpp
      <4> QED
        BY <1>5, <4>2 DEF AnswerStage1
    <3> QED
      BY <2>1, <3>1, <3>2 DEF MessageInv, call, user
  <2>3. CASE ~attach'
    <3>1. pc' = "verdict" /\ UNCHANGED msg
      BY <1>5, <2>3 DEF AnswerStage1, AfterVpp, Goto
    <3> QED
      BY <2>1, <3>1 DEF MessageInv, call, user, msg
  <2> QED
    BY <2>2, <2>3
<1>6. ASSUME AnswerPoll PROVE MessageInv'
  BY <1>6 DEF AnswerPoll, AfterVpp, Message, Goto, call, msg, user,
         MessageInv
<1>7. ASSUME PayeeRejected PROVE MessageInv'
  BY <1>7 DEF PayeeRejected, End, call, msg, MessageInv
<1>8. ASSUME PayeeDoubtful PROVE MessageInv'
  BY <1>8 DEF PayeeDoubtful, Goto, call, msg, user, MessageInv
<1>9. ASSUME PayeeAccepted PROVE MessageInv'
  BY <1>9 DEF PayeeAccepted, Goto, call, msg, user, MessageInv
<1>10. ASSUME UserAccepts PROVE MessageInv'
  BY <1>10 DEF UserAccepts, Goto, call, msg, MessageInv
<1>11. ASSUME UserRefuses PROVE MessageInv'
  BY <1>11 DEF UserRefuses, End, call, msg, MessageInv
<1>12. ASSUME NoVopId PROVE MessageInv'
  BY <1>12 DEF NoVopId, End, call, msg, MessageInv
<1>13. ASSUME OrderAgain PROVE MessageInv'
  BY <1>13 DEF OrderAgain, Message, call, user, MessageInv
<1>14. ASSUME AnswerAgain PROVE MessageInv'
  BY <1>14 DEF AnswerAgain, Release, Goto, End, call, msg, user, MessageInv,
         If
<1>15. ASSUME ReleaseFirst PROVE MessageInv'
  BY <1>15 DEF ReleaseFirst, Release, Goto, End, call, msg, user, MessageInv,
         If
<1>16. ASSUME InputTan PROVE MessageInv'
  BY <1>16 DEF InputTan, Goto, call, msg, user, MessageInv
<1>17. ASSUME NoChallenge PROVE MessageInv'
  BY <1>17 DEF NoChallenge, End, call, msg, MessageInv
<1>18. ASSUME UserApproves PROVE MessageInv'
  BY <1>18 DEF UserApproves, Message, call, user, MessageInv
<1>19. ASSUME AnswerNotYet PROVE MessageInv'
  BY <1>19 DEF AnswerNotYet, Goto, call, msg, user, MessageInv
<1>20. ASSUME AnswerApproved PROVE MessageInv'
  BY <1>20 DEF AnswerApproved, End, call, msg, MessageInv
<1>21. ASSUME AnswerLast PROVE MessageInv'
  BY <1>21 DEF AnswerLast, End, call, msg, vpp, MessageInv, NeedVpa
<1>22. ASSUME Confirm PROVE MessageInv'
  BY <1>22 DEF Confirm, Message, call, vpp, user, MessageInv, NeedVpa
<1>23. ASSUME NothingToConfirm PROVE MessageInv'
  BY <1>23 DEF NothingToConfirm, End, call, msg, MessageInv
<1>24. CASE UNCHANGED vars
  BY <1>24 DEF vars, call, msg, vpp, user, MessageInv, NeedVpa
<1> QED
  BY <1>1, <1>2, <1>3, <1>4, <1>5, <1>6, <1>7, <1>8, <1>9, <1>10, <1>11,
     <1>12, <1>13, <1>14, <1>15, <1>16, <1>17, <1>18, <1>19, <1>20, <1>21,
     <1>22, <1>23, <1>24
  DEF Next, Stage1, Stage2


(* The bank gets the order once before stage 2 and a second time in it. *)
LEMMA BankStep ==
    ASSUME TypeOK, MessageInv, BankInv, VppInv, TanInv, [Next]_vars
    PROVE  BankInv'
<1> USE VopTanAssumption
<1>1. ASSUME Send PROVE BankInv'
  BY <1>1 DEF Send, Goto, BankGets, If, call, msg, user, TypeOK, MessageInv,
         BankInv, BankOnce, BankTwice, NeedVpa, FirstRelease
<1>2. ASSUME SendFails PROVE BankInv'
  BY <1>2 DEF SendFails, End, BankInv
<1>3. ASSUME ReceiveFails PROVE BankInv'
  BY <1>3 DEF ReceiveFails, End, BankInv
<1>4. ASSUME Start PROVE BankInv'
  BY <1>4 DEF Start, Message, bank, BankInv
<1>5. ASSUME AnswerStage1 PROVE BankInv'
  BY <1>5 DEF AnswerStage1, AfterVpp, Message, Goto, call, msg, bank,
         BankInv, BankOnce
<1>6. ASSUME AnswerPoll PROVE BankInv'
  <2>1. /\ pc = "recv" /\ step = "poll"
        /\ pc' \in {"send", "verdict"} /\ step' = "poll"
        /\ UNCHANGED <<call, bank>>
    BY <1>6 DEF AnswerPoll, AfterVpp, Message, Goto, msg
  <2>2. BankOnce' /\ answered' = {}
    BY <2>1 DEF BankInv, BankOnce, call, bank
  <2> QED
    BY <2>1, <2>2 DEF BankInv
<1>7. ASSUME PayeeRejected PROVE BankInv'
  BY <1>7 DEF PayeeRejected, End, BankInv
<1>8. ASSUME PayeeDoubtful PROVE BankInv'
  BY <1>8 DEF PayeeDoubtful, Goto, call, msg, vpp, bank, BankInv, BankOnce,
         BankTwice
<1>9. ASSUME PayeeAccepted PROVE BankInv'
  BY <1>9 DEF PayeeAccepted, Goto, call, msg, vpp, bank, BankInv, BankOnce,
         BankTwice
<1>10. ASSUME UserAccepts PROVE BankInv'
  BY <1>10 DEF UserAccepts, Goto, call, msg, vpp, bank, BankInv, BankOnce,
         BankTwice
<1>11. ASSUME UserRefuses PROVE BankInv'
  BY <1>11 DEF UserRefuses, End, BankInv
<1>12. ASSUME NoVopId PROVE BankInv'
  BY <1>12 DEF NoVopId, End, BankInv
<1>13. ASSUME OrderAgain PROVE BankInv'
  <2>1. /\ pc = "stage2" /\ step \in {"stage1", "poll"}
        /\ pc' = "send" /\ step' = "again"
        /\ UNCHANGED <<call, bank>>
    BY <1>13 DEF OrderAgain, Message, MessageInv
  <2>2. BankOnce' /\ answered' = {}
    BY <2>1 DEF BankInv, BankOnce, call, bank
  <2> QED
    BY <2>1, <2>2 DEF BankInv
<1>14. ASSUME AnswerAgain PROVE BankInv'
  BY <1>14 DEF AnswerAgain, Release, Goto, End, call, msg, bank, BankInv,
         BankTwice
<1>15. ASSUME ReleaseFirst PROVE BankInv'
  <2>1. /\ pc = "stage2" /\ step \in {"stage1", "poll"}
        /\ 3090 \notin vppCodes
        /\ UNCHANGED <<call, vpp, bank>>
    BY <1>15 DEF ReleaseFirst, NeedOrderAgain, MessageInv
  <2>2. BankOnce' /\ answered' = {} /\ 3090 \notin vppCodes'
    BY <2>1 DEF BankInv, BankOnce, call, bank, vpp
  <2>3. CASE pc' = "done" /\ UNCHANGED msg
    BY <2>1, <2>2, <2>3 DEF BankInv
  <2>4. CASE pc' = "approve" /\ UNCHANGED msg
    BY <2>1, <2>2, <2>4 DEF BankInv, msg
  <2>5. CASE pc' = "input" /\ step' = "tan" /\ segs' = FirstRelease
    <3>1. segs' = FirstRelease'
      BY <2>1, <2>5 DEF FirstRelease, NeedVpa, call, vpp
    <3> QED
      BY <2>1, <2>2, <2>5, <3>1 DEF BankInv
  <2> QED
    BY <1>15, <2>3, <2>4, <2>5 DEF ReleaseFirst, Release, Goto, End
<1>16. ASSUME InputTan PROVE BankInv'
  BY <1>16 DEF InputTan, Goto, call, msg, vpp, bank, MessageInv, BankInv,
         BankOnce, BankTwice, NeedVpa, FirstRelease
<1>17. ASSUME NoChallenge PROVE BankInv'
  BY <1>17 DEF NoChallenge, End, BankInv
<1>18. ASSUME UserApproves PROVE BankInv'
  <2>1. /\ pc = "approve"
        /\ pc' = "send" /\ step' = "status"
        /\ UNCHANGED <<call, vpp, bank>>
    BY <1>18 DEF UserApproves, Message
  <2>2. BankTwice \/ (BankOnce /\ 3090 \notin vppCodes)
    BY <2>1 DEF BankInv, MessageInv
  <2>3. (BankTwice \/ (BankOnce /\ 3090 \notin vppCodes))'
    BY <2>1, <2>2 DEF BankOnce, BankTwice, call, vpp, bank
  <2> QED
    BY <2>1, <2>3 DEF BankInv
<1>19. ASSUME AnswerNotYet PROVE BankInv'
  BY <1>19 DEF AnswerNotYet, Goto, call, msg, vpp, bank, BankInv, BankOnce,
         BankTwice
<1>20. ASSUME AnswerApproved PROVE BankInv'
  BY <1>20 DEF AnswerApproved, End, BankInv
<1>21. ASSUME AnswerLast PROVE BankInv'
  BY <1>21 DEF AnswerLast, End, BankInv
<1>22. ASSUME Confirm PROVE BankInv'
  <2>1. /\ pc = "stage2" /\ step \in {"stage1", "poll"}
        /\ pc' = "send" /\ step' = "confirm"
        /\ UNCHANGED <<call, bank>>
    BY <1>22 DEF Confirm, Message, MessageInv
  <2>2. BankOnce' /\ answered' = {}
    BY <2>1 DEF BankInv, BankOnce, call, bank
  <2> QED
    BY <2>1, <2>2 DEF BankInv
<1>23. ASSUME NothingToConfirm PROVE BankInv'
  BY <1>23 DEF NothingToConfirm, End, BankInv
<1>24. CASE UNCHANGED vars
  BY <1>24 DEF vars, call, msg, vpp, bank, BankInv, BankOnce, BankTwice,
         NeedVpa, FirstRelease
<1> QED
  BY <1>1, <1>2, <1>3, <1>4, <1>5, <1>6, <1>7, <1>8, <1>9, <1>10, <1>11,
     <1>12, <1>13, <1>14, <1>15, <1>16, <1>17, <1>18, <1>19, <1>20, <1>21,
     <1>22, <1>23, <1>24
  DEF Next, Stage1, Stage2


(* Stage 2 begins with a verdict about the payee. *)
LEMMA VppStep ==
    ASSUME TypeOK, MessageInv, VppInv, [Next]_vars
    PROVE  VppInv'
<1> USE VopTanAssumption
<1>1. ASSUME Send PROVE VppInv'
  BY <1>1 DEF Send, Goto, call, msg, user, MessageInv, VppInv, Judged,
         Rejected, Doubtful
<1>2. ASSUME SendFails PROVE VppInv'
  BY <1>2 DEF SendFails, End, call, msg, vpp, user, VppInv, Judged, Rejected,
         Doubtful
<1>3. ASSUME ReceiveFails PROVE VppInv'
  BY <1>3 DEF ReceiveFails, End, call, msg, vpp, user, VppInv, Judged,
         Rejected, Doubtful
<1>4. ASSUME Start PROVE VppInv'
  BY <1>4 DEF Start, Message, vpp, user, MessageInv, VppInv, Judged
<1>5. ASSUME AnswerStage1 PROVE VppInv'
  <2>1. /\ pc = "recv" /\ step = "stage1"
        /\ UNCHANGED <<call, user>>
        /\ vppCodes = {} /\ ~attach /\ ~accepted
    BY <1>5 DEF AnswerStage1, VppInv
  <2>2. ~withVop => vppCodes' = {} /\ ~attach'
    BY <1>5, <2>1 DEF AnswerStage1, vpp
  <2>3. CASE attach'
    <3>1. pc' = "send" /\ step' = "poll"
      BY <1>5, <2>3 DEF AnswerStage1, AfterVpp, Message
    <3> QED
      BY <2>1, <2>2, <2>3, <3>1 DEF VppInv, Judged, call, user
  <2>4. CASE ~attach'
    <3>1. pc' = "verdict" /\ step' = "stage1"
      BY <1>5, <2>1, <2>4 DEF AnswerStage1, AfterVpp, Goto, msg
    <3> QED
      BY <2>1, <2>2, <2>4, <3>1 DEF VppInv, Judged, call, user
  <2> QED
    BY <2>3, <2>4
<1>6. ASSUME AnswerPoll PROVE VppInv'
  BY <1>6 DEF AnswerPoll, AfterVpp, Message, Goto, call, msg, user,
         MessageInv, VppInv, Judged
<1>7. ASSUME PayeeRejected PROVE VppInv'
  BY <1>7 DEF PayeeRejected, End, call, msg, VppInv, Judged, Rejected
<1>8. ASSUME PayeeDoubtful PROVE VppInv'
  BY <1>8 DEF PayeeDoubtful, Goto, call, msg, vpp, user, VppInv, Judged,
         Doubtful
<1>9. ASSUME PayeeAccepted PROVE VppInv'
  BY <1>9 DEF PayeeAccepted, Goto, call, vpp, VppInv, Rejected, Doubtful
<1>10. ASSUME UserAccepts PROVE VppInv'
  BY <1>10 DEF UserAccepts, Goto, call, vpp, VppInv, Rejected, Doubtful
<1>11. ASSUME UserRefuses PROVE VppInv'
  BY <1>11 DEF UserRefuses, End, call, msg, vpp, VppInv, Judged, Rejected,
         Doubtful
<1>12. ASSUME NoVopId PROVE VppInv'
  BY <1>12 DEF NoVopId, End, call, msg, vpp, MessageInv, VppInv, Judged
<1>13. ASSUME OrderAgain PROVE VppInv'
  BY <1>13 DEF OrderAgain, Message, call, vpp, user, VppInv, Judged,
         Rejected, Doubtful
<1>14. ASSUME AnswerAgain PROVE VppInv'
  BY <1>14 DEF AnswerAgain, Release, Goto, End, call, vpp, user, VppInv,
         Judged, Rejected, Doubtful
<1>15. ASSUME ReleaseFirst PROVE VppInv'
  BY <1>15 DEF ReleaseFirst, Release, NeedOrderAgain, Goto, End, call, vpp,
         VppInv, Judged, Rejected, Doubtful
<1>16. ASSUME InputTan PROVE VppInv'
  BY <1>16 DEF InputTan, Goto, call, msg, vpp, user, MessageInv, VppInv,
         Judged, Rejected, Doubtful
<1>17. ASSUME NoChallenge PROVE VppInv'
  BY <1>17 DEF NoChallenge, End, call, msg, vpp, user, VppInv, Judged,
         Rejected, Doubtful
<1>18. ASSUME UserApproves PROVE VppInv'
  BY <1>18 DEF UserApproves, Message, call, vpp, user, VppInv, Judged,
         Rejected, Doubtful
<1>19. ASSUME AnswerNotYet PROVE VppInv'
  BY <1>19 DEF AnswerNotYet, Goto, call, vpp, user, VppInv, Judged, Rejected,
         Doubtful
<1>20. ASSUME AnswerApproved PROVE VppInv'
  BY <1>20 DEF AnswerApproved, End, call, vpp, user, VppInv, Judged,
         Rejected, Doubtful
<1>21. ASSUME AnswerLast PROVE VppInv'
  BY <1>21 DEF AnswerLast, End, call, vpp, user, VppInv, Judged, Rejected,
         Doubtful
<1>22. ASSUME Confirm PROVE VppInv'
  BY <1>22 DEF Confirm, Message, call, vpp, user, VppInv, Judged, Rejected,
         Doubtful
<1>23. ASSUME NothingToConfirm PROVE VppInv'
  BY <1>23 DEF NothingToConfirm, End, vpp, VppInv, Judged, Rejected, Doubtful
<1>24. CASE UNCHANGED vars
  BY <1>24 DEF vars, call, msg, vpp, user, VppInv, Judged, Rejected, Doubtful
<1> QED
  BY <1>1, <1>2, <1>3, <1>4, <1>5, <1>6, <1>7, <1>8, <1>9, <1>10, <1>11,
     <1>12, <1>13, <1>14, <1>15, <1>16, <1>17, <1>18, <1>19, <1>20, <1>21,
     <1>22, <1>23, <1>24
  DEF Next, Stage1, Stage2


(* A reference is that of the last challenge. *)
LEMMA TanStep ==
    ASSUME TypeOK, MessageInv, BankInv, TanInv, [Next]_vars
    PROVE  TanInv'
<1> USE VopTanAssumption
<1>1. ASSUME Send PROVE TanInv'
  BY <1>1 DEF Send, Goto, BankGets, If, msg, tan, more, TypeOK, MessageInv,
         BankInv, TanInv, FirstRelease
<1>2. ASSUME SendFails PROVE TanInv'
  BY <1>2 DEF SendFails, End, BankGets, If, msg, tan, bank, more, TypeOK,
         MessageInv, BankInv, TanInv, FirstRelease
<1>3. ASSUME ReceiveFails PROVE TanInv'
  BY <1>3 DEF ReceiveFails, End, msg, tan, bank, more, TanInv
<1>4. ASSUME Start PROVE TanInv'
  BY <1>4 DEF Start, tan, more, BankInv, BankOnce, BankTwice, TanInv
<1>5. ASSUME AnswerStage1 PROVE TanInv'
  <2>1. /\ pc = "recv" /\ step = "stage1"
        /\ pc' \in {"send", "verdict"} /\ step' \in {"stage1", "poll"}
        /\ pc' = "send" => step' = "poll"
        /\ UNCHANGED <<bank, waiting>>
    BY <1>5 DEF AnswerStage1, AfterVpp, Message, Goto, msg
  <2>2. reference' \in {0, challenge}
    BY <1>5 DEF AnswerStage1, TanAnswer, tan, TanInv
  <2> QED
    BY <2>1, <2>2 DEF TanInv, bank
<1>6. ASSUME AnswerPoll PROVE TanInv'
  BY <1>6 DEF AnswerPoll, AfterVpp, Message, Goto, tan, bank, TanInv
<1>7. ASSUME PayeeRejected PROVE TanInv'
  BY <1>7 DEF PayeeRejected, End, msg, tan, bank, more, TanInv
<1>8. ASSUME PayeeDoubtful PROVE TanInv'
  BY <1>8 DEF PayeeDoubtful, Goto, msg, tan, bank, more, TanInv
<1>9. ASSUME PayeeAccepted PROVE TanInv'
  BY <1>9 DEF PayeeAccepted, Goto, msg, tan, bank, more, TanInv
<1>10. ASSUME UserAccepts PROVE TanInv'
  BY <1>10 DEF UserAccepts, Goto, msg, tan, bank, more, TanInv
<1>11. ASSUME UserRefuses PROVE TanInv'
  BY <1>11 DEF UserRefuses, End, msg, tan, bank, more, TanInv
<1>12. ASSUME NoVopId PROVE TanInv'
  BY <1>12 DEF NoVopId, End, msg, tan, bank, more, TanInv
<1>13. ASSUME OrderAgain PROVE TanInv'
  BY <1>13 DEF OrderAgain, more, MessageInv, TanInv
<1>14. ASSUME AnswerAgain PROVE TanInv'
  BY <1>14 DEF AnswerAgain, TanAnswer, Release, Goto, End, bank, more, TanInv
<1>15. ASSUME ReleaseFirst PROVE TanInv'
  BY <1>15 DEF ReleaseFirst, Release, Goto, End, tan, bank, more, MessageInv,
         TanInv
<1>16. ASSUME InputTan PROVE TanInv'
  BY <1>16 DEF InputTan, Goto, msg, tan, bank, more, MessageInv, TanInv
<1>17. ASSUME NoChallenge PROVE TanInv'
  BY <1>17 DEF NoChallenge, End, msg, tan, bank, more, TanInv
<1>18. ASSUME UserApproves PROVE TanInv'
  BY <1>18 DEF UserApproves, Message, tan, bank, TanInv
<1>19. ASSUME AnswerNotYet PROVE TanInv'
  BY <1>19 DEF AnswerNotYet, Goto, msg, tan, bank, TanInv
<1>20. ASSUME AnswerApproved PROVE TanInv'
  BY <1>20 DEF AnswerApproved, End, tan, bank, TanInv
<1>21. ASSUME AnswerLast PROVE TanInv'
  BY <1>21 DEF AnswerLast, End, tan, bank, more, TanInv
<1>22. ASSUME Confirm PROVE TanInv'
  BY <1>22 DEF Confirm, tan, more, MessageInv, BankInv, BankOnce, TanInv
<1>23. ASSUME NothingToConfirm PROVE TanInv'
  BY <1>23 DEF NothingToConfirm, tan, more, MessageInv, BankInv, BankOnce,
         TanInv
<1>24. CASE UNCHANGED vars
  BY <1>24 DEF vars, msg, tan, bank, more, TanInv
<1> QED
  BY <1>1, <1>2, <1>3, <1>4, <1>5, <1>6, <1>7, <1>8, <1>9, <1>10, <1>11,
     <1>12, <1>13, <1>14, <1>15, <1>16, <1>17, <1>18, <1>19, <1>20, <1>21,
     <1>22, <1>23, <1>24
  DEF Next, Stage1, Stage2


(* A doubtful payee is accepted before the bank gets more. *)
LEMMA ConsentStep ==
    ASSUME TypeOK, MessageInv, BankInv, VppInv, TanInv, ConsentComesFirst,
           [Next]_vars
    PROVE  ConsentComesFirst'
<1> USE VopTanAssumption
<1>1. ASSUME Send PROVE ConsentComesFirst'
  BY <1>1 DEF Send, user, TypeOK, VppInv, Judged, Doubtful, ConsentComesFirst
<1>2. ASSUME SendFails PROVE ConsentComesFirst'
  BY <1>2 DEF SendFails, vpp, user, TypeOK, VppInv, Judged, Doubtful,
         ConsentComesFirst
<1>3. ASSUME ReceiveFails PROVE ConsentComesFirst'
  BY <1>3 DEF ReceiveFails, vpp, user, bank, Doubtful, ConsentComesFirst
<1>4. ASSUME Start PROVE ConsentComesFirst'
  BY <1>4 DEF Start, vpp, MessageInv, VppInv, Doubtful, ConsentComesFirst
<1>5. ASSUME AnswerStage1 PROVE ConsentComesFirst'
  <2>1. pc = "recv" /\ step = "stage1" /\ UNCHANGED bank
    BY <1>5 DEF AnswerStage1
  <2>2. BankOnce /\ answered = {}
    BY <2>1 DEF BankInv
  <2> QED
    BY <2>1, <2>2 DEF ConsentComesFirst, BankOnce, bank
<1>6. ASSUME AnswerPoll PROVE ConsentComesFirst'
  <2>1. pc = "recv" /\ step = "poll" /\ UNCHANGED bank
    BY <1>6 DEF AnswerPoll
  <2>2. BankOnce /\ answered = {}
    BY <2>1 DEF BankInv
  <2> QED
    BY <2>1, <2>2 DEF ConsentComesFirst, BankOnce, bank
<1>7. ASSUME PayeeRejected PROVE ConsentComesFirst'
  BY <1>7 DEF PayeeRejected, vpp, Rejected, Doubtful, ConsentComesFirst
<1>8. ASSUME PayeeDoubtful PROVE ConsentComesFirst'
  BY <1>8 DEF PayeeDoubtful, bank, VppInv, ConsentComesFirst
<1>9. ASSUME PayeeAccepted PROVE ConsentComesFirst'
  BY <1>9 DEF PayeeAccepted, vpp, Doubtful, ConsentComesFirst
<1>10. ASSUME UserAccepts PROVE ConsentComesFirst'
  BY <1>10 DEF UserAccepts, ConsentComesFirst
<1>11. ASSUME UserRefuses PROVE ConsentComesFirst'
  BY <1>11 DEF UserRefuses, vpp, bank, Doubtful, ConsentComesFirst
<1>12. ASSUME NoVopId PROVE ConsentComesFirst'
  BY <1>12 DEF NoVopId, vpp, user, VppInv, Judged, Doubtful,
         ConsentComesFirst
<1>13. ASSUME OrderAgain PROVE ConsentComesFirst'
  BY <1>13 DEF OrderAgain, vpp, user, VppInv, Judged, Doubtful,
         ConsentComesFirst
<1>14. ASSUME AnswerAgain PROVE ConsentComesFirst'
  BY <1>14 DEF AnswerAgain, vpp, user, VppInv, Judged, Doubtful,
         ConsentComesFirst
<1>15. ASSUME ReleaseFirst PROVE ConsentComesFirst'
  BY <1>15 DEF ReleaseFirst, NeedOrderAgain, vpp, Doubtful, ConsentComesFirst
<1>16. ASSUME InputTan PROVE ConsentComesFirst'
  BY <1>16 DEF InputTan, vpp, user, MessageInv, VppInv, Judged, Doubtful,
         ConsentComesFirst
<1>17. ASSUME NoChallenge PROVE ConsentComesFirst'
  BY <1>17 DEF NoChallenge, vpp, user, MessageInv, VppInv, Judged, Doubtful,
         ConsentComesFirst
<1>18. ASSUME UserApproves PROVE ConsentComesFirst'
  BY <1>18 DEF UserApproves, vpp, user, VppInv, Judged, Doubtful,
         ConsentComesFirst
<1>19. ASSUME AnswerNotYet PROVE ConsentComesFirst'
  BY <1>19 DEF AnswerNotYet, vpp, user, VppInv, Judged, Doubtful,
         ConsentComesFirst
<1>20. ASSUME AnswerApproved PROVE ConsentComesFirst'
  BY <1>20 DEF AnswerApproved, vpp, user, VppInv, Judged, Doubtful,
         ConsentComesFirst
<1>21. ASSUME AnswerLast PROVE ConsentComesFirst'
  BY <1>21 DEF AnswerLast, vpp, user, VppInv, Judged, Doubtful,
         ConsentComesFirst
<1>22. ASSUME Confirm PROVE ConsentComesFirst'
  BY <1>22 DEF Confirm, vpp, user, VppInv, Judged, Doubtful,
         ConsentComesFirst
<1>23. ASSUME NothingToConfirm PROVE ConsentComesFirst'
  BY <1>23 DEF NothingToConfirm, vpp, VppInv, Doubtful, ConsentComesFirst
<1>24. CASE UNCHANGED vars
  BY <1>24 DEF vars, vpp, user, bank, Doubtful, ConsentComesFirst
<1> QED
  BY <1>1, <1>2, <1>3, <1>4, <1>5, <1>6, <1>7, <1>8, <1>9, <1>10, <1>11,
     <1>12, <1>13, <1>14, <1>15, <1>16, <1>17, <1>18, <1>19, <1>20, <1>21,
     <1>22, <1>23, <1>24
  DEF Next, Stage1, Stage2


(* A second order without a new challenge has a cause. *)
LEMMA RepeatStep ==
    ASSUME TypeOK, MessageInv, BankInv, VppInv, TanInv, OrderRepeatedForCause,
           [Next]_vars
    PROVE  OrderRepeatedForCause'
<1> USE VopTanAssumption
<1>1. ASSUME Send PROVE OrderRepeatedForCause'
  BY <1>1 DEF Send, BankGets, If, TypeOK, MessageInv, BankInv, BankOnce,
         FirstRelease, OrderRepeatedForCause
<1>2. ASSUME SendFails PROVE OrderRepeatedForCause'
  BY <1>2 DEF SendFails, BankGets, If, vpp, bank, TypeOK, MessageInv,
         BankInv, BankOnce, FirstRelease, OrderRepeatedForCause
<1>3. ASSUME ReceiveFails PROVE OrderRepeatedForCause'
  BY <1>3 DEF ReceiveFails, call, vpp, bank, OrderRepeatedForCause
<1>4. ASSUME Start PROVE OrderRepeatedForCause'
  BY <1>4 DEF Start, bank, BankInv, OrderRepeatedForCause
<1>5. ASSUME AnswerStage1 PROVE OrderRepeatedForCause'
  BY <1>5 DEF AnswerStage1, bank, BankInv, BankOnce, OrderRepeatedForCause
<1>6. ASSUME AnswerPoll PROVE OrderRepeatedForCause'
  BY <1>6 DEF AnswerPoll, bank, BankInv, BankOnce, OrderRepeatedForCause
<1>7. ASSUME PayeeRejected PROVE OrderRepeatedForCause'
  BY <1>7 DEF PayeeRejected, call, vpp, bank, OrderRepeatedForCause
<1>8. ASSUME PayeeDoubtful PROVE OrderRepeatedForCause'
  BY <1>8 DEF PayeeDoubtful, call, vpp, bank, OrderRepeatedForCause
<1>9. ASSUME PayeeAccepted PROVE OrderRepeatedForCause'
  BY <1>9 DEF PayeeAccepted, call, vpp, bank, OrderRepeatedForCause
<1>10. ASSUME UserAccepts PROVE OrderRepeatedForCause'
  BY <1>10 DEF UserAccepts, call, vpp, bank, OrderRepeatedForCause
<1>11. ASSUME UserRefuses PROVE OrderRepeatedForCause'
  BY <1>11 DEF UserRefuses, call, vpp, bank, OrderRepeatedForCause
<1>12. ASSUME NoVopId PROVE OrderRepeatedForCause'
  BY <1>12 DEF NoVopId, call, vpp, bank, OrderRepeatedForCause
<1>13. ASSUME OrderAgain PROVE OrderRepeatedForCause'
  BY <1>13 DEF OrderAgain, vpp, bank, OrderRepeatedForCause
<1>14. ASSUME AnswerAgain PROVE OrderRepeatedForCause'
  BY <1>14 DEF AnswerAgain, bank, BankInv, BankTwice, OrderRepeatedForCause
<1>15. ASSUME ReleaseFirst PROVE OrderRepeatedForCause'
  BY <1>15 DEF ReleaseFirst, vpp, bank, OrderRepeatedForCause
<1>16. ASSUME InputTan PROVE OrderRepeatedForCause'
  BY <1>16 DEF InputTan, call, vpp, bank, OrderRepeatedForCause
<1>17. ASSUME NoChallenge PROVE OrderRepeatedForCause'
  BY <1>17 DEF NoChallenge, call, vpp, bank, OrderRepeatedForCause
<1>18. ASSUME UserApproves PROVE OrderRepeatedForCause'
  BY <1>18 DEF UserApproves, call, vpp, bank, OrderRepeatedForCause
<1>19. ASSUME AnswerNotYet PROVE OrderRepeatedForCause'
  BY <1>19 DEF AnswerNotYet, bank, BankInv, BankOnce, BankTwice,
         OrderRepeatedForCause
<1>20. ASSUME AnswerApproved PROVE OrderRepeatedForCause'
  BY <1>20 DEF AnswerApproved, bank, BankInv, BankOnce, BankTwice,
         OrderRepeatedForCause
<1>21. ASSUME AnswerLast PROVE OrderRepeatedForCause'
  BY <1>21 DEF AnswerLast, call, vpp, bank, OrderRepeatedForCause
<1>22. ASSUME Confirm PROVE OrderRepeatedForCause'
  BY <1>22 DEF Confirm, call, OrderRepeatedForCause
<1>23. ASSUME NothingToConfirm PROVE OrderRepeatedForCause'
  BY <1>23 DEF NothingToConfirm, call, OrderRepeatedForCause
<1>24. CASE UNCHANGED vars
  BY <1>24 DEF vars, call, vpp, bank, OrderRepeatedForCause
<1> QED
  BY <1>1, <1>2, <1>3, <1>4, <1>5, <1>6, <1>7, <1>8, <1>9, <1>10, <1>11,
     <1>12, <1>13, <1>14, <1>15, <1>16, <1>17, <1>18, <1>19, <1>20, <1>21,
     <1>22, <1>23, <1>24
  DEF Next, Stage1, Stage2


(* What is sent refers to the last challenge. *)
LEMMA LastStep ==
    ASSUME TypeOK, MessageInv, BankInv, VppInv, TanInv, AnswersLastChallenge,
           [Next]_vars
    PROVE  AnswersLastChallenge'
<1> USE VopTanAssumption
<1>1. ASSUME Send PROVE AnswersLastChallenge'
  BY <1>1 DEF Send, BankGets, If, TypeOK, MessageInv, BankInv, TanInv,
         FirstRelease, AnswersLastChallenge
<1>2. ASSUME SendFails PROVE AnswersLastChallenge'
  <2>1. CASE BankGets
    BY <1>2, <2>1 DEF SendFails, BankGets, If, TypeOK, MessageInv, BankInv,
           TanInv, FirstRelease, AnswersLastChallenge
  <2>2. CASE UNCHANGED bank
    BY <2>2 DEF bank, AnswersLastChallenge
  <2> QED
    BY <1>2, <2>1, <2>2 DEF SendFails
<1>3. ASSUME ReceiveFails PROVE AnswersLastChallenge'
  BY <1>3 DEF ReceiveFails, bank, AnswersLastChallenge
<1>4. ASSUME Start PROVE AnswersLastChallenge'
  BY <1>4 DEF Start, bank, AnswersLastChallenge
<1>5. ASSUME AnswerStage1 PROVE AnswersLastChallenge'
  BY <1>5 DEF AnswerStage1, bank, AnswersLastChallenge
<1>6. ASSUME AnswerPoll PROVE AnswersLastChallenge'
  BY <1>6 DEF AnswerPoll, bank, AnswersLastChallenge
<1>7. ASSUME PayeeRejected PROVE AnswersLastChallenge'
  BY <1>7 DEF PayeeRejected, bank, AnswersLastChallenge
<1>8. ASSUME PayeeDoubtful PROVE AnswersLastChallenge'
  BY <1>8 DEF PayeeDoubtful, bank, AnswersLastChallenge
<1>9. ASSUME PayeeAccepted PROVE AnswersLastChallenge'
  BY <1>9 DEF PayeeAccepted, bank, AnswersLastChallenge
<1>10. ASSUME UserAccepts PROVE AnswersLastChallenge'
  BY <1>10 DEF UserAccepts, bank, AnswersLastChallenge
<1>11. ASSUME UserRefuses PROVE AnswersLastChallenge'
  BY <1>11 DEF UserRefuses, bank, AnswersLastChallenge
<1>12. ASSUME NoVopId PROVE AnswersLastChallenge'
  BY <1>12 DEF NoVopId, bank, AnswersLastChallenge
<1>13. ASSUME OrderAgain PROVE AnswersLastChallenge'
  BY <1>13 DEF OrderAgain, bank, AnswersLastChallenge
<1>14. ASSUME AnswerAgain PROVE AnswersLastChallenge'
  BY <1>14 DEF AnswerAgain, bank, AnswersLastChallenge
<1>15. ASSUME ReleaseFirst PROVE AnswersLastChallenge'
  BY <1>15 DEF ReleaseFirst, bank, AnswersLastChallenge
<1>16. ASSUME InputTan PROVE AnswersLastChallenge'
  BY <1>16 DEF InputTan, bank, AnswersLastChallenge
<1>17. ASSUME NoChallenge PROVE AnswersLastChallenge'
  BY <1>17 DEF NoChallenge, bank, AnswersLastChallenge
<1>18. ASSUME UserApproves PROVE AnswersLastChallenge'
  BY <1>18 DEF UserApproves, bank, AnswersLastChallenge
<1>19. ASSUME AnswerNotYet PROVE AnswersLastChallenge'
  BY <1>19 DEF AnswerNotYet, bank, AnswersLastChallenge
<1>20. ASSUME AnswerApproved PROVE AnswersLastChallenge'
  BY <1>20 DEF AnswerApproved, bank, AnswersLastChallenge
<1>21. ASSUME AnswerLast PROVE AnswersLastChallenge'
  BY <1>21 DEF AnswerLast, bank, AnswersLastChallenge
<1>22. ASSUME Confirm PROVE AnswersLastChallenge'
  BY <1>22 DEF Confirm, bank, AnswersLastChallenge
<1>23. ASSUME NothingToConfirm PROVE AnswersLastChallenge'
  BY <1>23 DEF NothingToConfirm, bank, AnswersLastChallenge
<1>24. CASE UNCHANGED vars
  BY <1>24 DEF vars, bank, AnswersLastChallenge
<1> QED
  BY <1>1, <1>2, <1>3, <1>4, <1>5, <1>6, <1>7, <1>8, <1>9, <1>10, <1>11,
     <1>12, <1>13, <1>14, <1>15, <1>16, <1>17, <1>18, <1>19, <1>20, <1>21,
     <1>22, <1>23, <1>24
  DEF Next, Stage1, Stage2


(* A call with TAN succeeds with an order that is released. *)
LEMMA ReleasedStep ==
    ASSUME TypeOK, MessageInv, BankInv, VppInv, TanInv, SuccessMeansReleased,
           [Next]_vars
    PROVE  SuccessMeansReleased'
<1> USE VopTanAssumption
<1>1. ASSUME Send PROVE SuccessMeansReleased'
  BY <1>1 DEF Send, Goto, MessageInv, SuccessMeansReleased
<1>2. ASSUME SendFails PROVE SuccessMeansReleased'
  BY <1>2 DEF SendFails, End, SuccessMeansReleased
<1>3. ASSUME ReceiveFails PROVE SuccessMeansReleased'
  BY <1>3 DEF ReceiveFails, End, SuccessMeansReleased
<1>4. ASSUME Start PROVE SuccessMeansReleased'
  BY <1>4 DEF Start, Message, call, tan, BankInv, SuccessMeansReleased
<1>5. ASSUME AnswerStage1 PROVE SuccessMeansReleased'
  BY <1>5 DEF AnswerStage1, AfterVpp, Message, Goto, MessageInv,
         SuccessMeansReleased
<1>6. ASSUME AnswerPoll PROVE SuccessMeansReleased'
  BY <1>6 DEF AnswerPoll, AfterVpp, Message, Goto, MessageInv,
         SuccessMeansReleased
<1>7. ASSUME PayeeRejected PROVE SuccessMeansReleased'
  BY <1>7 DEF PayeeRejected, End, SuccessMeansReleased
<1>8. ASSUME PayeeDoubtful PROVE SuccessMeansReleased'
  BY <1>8 DEF PayeeDoubtful, Goto, MessageInv, SuccessMeansReleased
<1>9. ASSUME PayeeAccepted PROVE SuccessMeansReleased'
  BY <1>9 DEF PayeeAccepted, Goto, MessageInv, SuccessMeansReleased
<1>10. ASSUME UserAccepts PROVE SuccessMeansReleased'
  BY <1>10 DEF UserAccepts, Goto, MessageInv, SuccessMeansReleased
<1>11. ASSUME UserRefuses PROVE SuccessMeansReleased'
  BY <1>11 DEF UserRefuses, End, SuccessMeansReleased
<1>12. ASSUME NoVopId PROVE SuccessMeansReleased'
  BY <1>12 DEF NoVopId, End, SuccessMeansReleased
<1>13. ASSUME OrderAgain PROVE SuccessMeansReleased'
  BY <1>13 DEF OrderAgain, Message, MessageInv, SuccessMeansReleased
<1>14. ASSUME AnswerAgain PROVE SuccessMeansReleased'
  BY <1>14 DEF AnswerAgain, Release, Goto, MessageInv, SuccessMeansReleased
<1>15. ASSUME ReleaseFirst PROVE SuccessMeansReleased'
  BY <1>15 DEF ReleaseFirst, Release, Goto, tan, bank, MessageInv, BankInv,
         BankOnce, SuccessMeansReleased
<1>16. ASSUME InputTan PROVE SuccessMeansReleased'
  BY <1>16 DEF InputTan, Goto, MessageInv, SuccessMeansReleased
<1>17. ASSUME NoChallenge PROVE SuccessMeansReleased'
  BY <1>17 DEF NoChallenge, End, SuccessMeansReleased
<1>18. ASSUME UserApproves PROVE SuccessMeansReleased'
  BY <1>18 DEF UserApproves, Message, MessageInv, SuccessMeansReleased
<1>19. ASSUME AnswerNotYet PROVE SuccessMeansReleased'
  BY <1>19 DEF AnswerNotYet, Goto, MessageInv, SuccessMeansReleased
<1>20. ASSUME AnswerApproved PROVE SuccessMeansReleased'
  BY <1>20 DEF AnswerApproved, bank, BankInv, SuccessMeansReleased
<1>21. ASSUME AnswerLast PROVE SuccessMeansReleased'
  BY <1>21 DEF AnswerLast, call, bank, more, MessageInv, BankInv, TanInv,
         SuccessMeansReleased
<1>22. ASSUME Confirm PROVE SuccessMeansReleased'
  BY <1>22 DEF Confirm, call, SuccessMeansReleased
<1>23. ASSUME NothingToConfirm PROVE SuccessMeansReleased'
  BY <1>23 DEF NothingToConfirm, call, SuccessMeansReleased
<1>24. CASE UNCHANGED vars
  BY <1>24 DEF vars, call, tan, bank, more, SuccessMeansReleased
<1> QED
  BY <1>1, <1>2, <1>3, <1>4, <1>5, <1>6, <1>7, <1>8, <1>9, <1>10, <1>11,
     <1>12, <1>13, <1>14, <1>15, <1>16, <1>17, <1>18, <1>19, <1>20, <1>21,
     <1>22, <1>23, <1>24
  DEF Next, Stage1, Stage2


(* A call succeeds with a payee that is confirmed where it must be. *)
LEMMA ConfirmedStep ==
    ASSUME TypeOK, MessageInv, BankInv, VppInv, TanInv, SuccessMeansConfirmed,
           [Next]_vars
    PROVE  SuccessMeansConfirmed'
<1> USE VopTanAssumption
<1>1. ASSUME Send PROVE SuccessMeansConfirmed'
  BY <1>1 DEF Send, Goto, MessageInv, SuccessMeansConfirmed
<1>2. ASSUME SendFails PROVE SuccessMeansConfirmed'
  BY <1>2 DEF SendFails, End, SuccessMeansConfirmed
<1>3. ASSUME ReceiveFails PROVE SuccessMeansConfirmed'
  BY <1>3 DEF ReceiveFails, End, SuccessMeansConfirmed
<1>4. ASSUME Start PROVE SuccessMeansConfirmed'
  BY <1>4 DEF Start, Message, vpp, BankInv, SuccessMeansConfirmed
<1>5. ASSUME AnswerStage1 PROVE SuccessMeansConfirmed'
  BY <1>5 DEF AnswerStage1, AfterVpp, Message, Goto, MessageInv,
         SuccessMeansConfirmed
<1>6. ASSUME AnswerPoll PROVE SuccessMeansConfirmed'
  BY <1>6 DEF AnswerPoll, AfterVpp, Message, Goto, MessageInv,
         SuccessMeansConfirmed
<1>7. ASSUME PayeeRejected PROVE SuccessMeansConfirmed'
  BY <1>7 DEF PayeeRejected, End, SuccessMeansConfirmed
<1>8. ASSUME PayeeDoubtful PROVE SuccessMeansConfirmed'
  BY <1>8 DEF PayeeDoubtful, Goto, MessageInv, SuccessMeansConfirmed
<1>9. ASSUME PayeeAccepted PROVE SuccessMeansConfirmed'
  BY <1>9 DEF PayeeAccepted, Goto, MessageInv, SuccessMeansConfirmed
<1>10. ASSUME UserAccepts PROVE SuccessMeansConfirmed'
  BY <1>10 DEF UserAccepts, Goto, MessageInv, SuccessMeansConfirmed
<1>11. ASSUME UserRefuses PROVE SuccessMeansConfirmed'
  BY <1>11 DEF UserRefuses, End, SuccessMeansConfirmed
<1>12. ASSUME NoVopId PROVE SuccessMeansConfirmed'
  BY <1>12 DEF NoVopId, End, SuccessMeansConfirmed
<1>13. ASSUME OrderAgain PROVE SuccessMeansConfirmed'
  BY <1>13 DEF OrderAgain, Message, MessageInv, SuccessMeansConfirmed
<1>14. ASSUME AnswerAgain PROVE SuccessMeansConfirmed'
  BY <1>14 DEF AnswerAgain, vpp, bank, BankInv, VppInv, BankTwice,
         SuccessMeansConfirmed
<1>15. ASSUME ReleaseFirst PROVE SuccessMeansConfirmed'
  BY <1>15 DEF ReleaseFirst, NeedOrderAgain, vpp, SuccessMeansConfirmed
<1>16. ASSUME InputTan PROVE SuccessMeansConfirmed'
  BY <1>16 DEF InputTan, Goto, MessageInv, SuccessMeansConfirmed
<1>17. ASSUME NoChallenge PROVE SuccessMeansConfirmed'
  BY <1>17 DEF NoChallenge, End, SuccessMeansConfirmed
<1>18. ASSUME UserApproves PROVE SuccessMeansConfirmed'
  BY <1>18 DEF UserApproves, Message, MessageInv, SuccessMeansConfirmed
<1>19. ASSUME AnswerNotYet PROVE SuccessMeansConfirmed'
  BY <1>19 DEF AnswerNotYet, Goto, MessageInv, SuccessMeansConfirmed
<1>20. ASSUME AnswerApproved PROVE SuccessMeansConfirmed'
  BY <1>20 DEF AnswerApproved, vpp, bank, BankInv, VppInv, BankTwice,
         SuccessMeansConfirmed
<1>21. ASSUME AnswerLast PROVE SuccessMeansConfirmed'
  BY <1>21 DEF AnswerLast, vpp, bank, BankInv, VppInv, BankTwice, NeedVpa,
         SuccessMeansConfirmed
<1>22. ASSUME Confirm PROVE SuccessMeansConfirmed'
  BY <1>22 DEF Confirm, Message, MessageInv, SuccessMeansConfirmed
<1>23. ASSUME NothingToConfirm PROVE SuccessMeansConfirmed'
  BY <1>23 DEF NothingToConfirm, vpp, VppInv, SuccessMeansConfirmed
<1>24. CASE UNCHANGED vars
  BY <1>24 DEF vars, vpp, bank, SuccessMeansConfirmed
<1> QED
  BY <1>1, <1>2, <1>3, <1>4, <1>5, <1>6, <1>7, <1>8, <1>9, <1>10, <1>11,
     <1>12, <1>13, <1>14, <1>15, <1>16, <1>17, <1>18, <1>19, <1>20, <1>21,
     <1>22, <1>23, <1>24
  DEF Next, Stage1, Stage2


(* The call begins in a state of the invariant. *)
LEMMA InitInv == Init => IInv
<1> SUFFICES ASSUME Init PROVE IInv
  OBVIOUS
<1>1. TypeOK
  <2>1. /\ withTan \in BOOLEAN /\ withVop \in BOOLEAN
        /\ hasChallenge \in BOOLEAN /\ attach \in BOOLEAN
        /\ vopId \in BOOLEAN /\ vopMsg \in BOOLEAN /\ mismatch \in BOOLEAN
        /\ accepted \in BOOLEAN /\ refused \in BOOLEAN
        /\ confirmed \in BOOLEAN /\ waiting \in BOOLEAN
    BY DEF Init
  <2>2. /\ segs \in SUBSET Segments /\ tanCodes \in SUBSET TanCodes
        /\ workCodes \in SUBSET {3076} /\ vppCodes \in SUBSET VppCodes
        /\ answered \in SUBSET (0..2)
    BY DEF Init
  <2>3. repeats \in 0..MaxRepeats
    BY VopTanAssumption DEF Init
  <2> QED
    BY <2>1, <2>2, <2>3 DEF Init, TypeOK
<1>2. MessageInv /\ BankInv
  BY DEF Init, MessageInv, BankInv
<1>3. VppInv /\ TanInv
  BY DEF Init, VppInv, TanInv, Judged
<1>4. /\ ConsentComesFirst /\ OrderRepeatedForCause /\ AnswersLastChallenge
      /\ SuccessMeansReleased /\ SuccessMeansConfirmed
  BY DEF Init, ConsentComesFirst, OrderRepeatedForCause,
         AnswersLastChallenge, SuccessMeansReleased, SuccessMeansConfirmed
<1> QED
  BY <1>1, <1>2, <1>3, <1>4 DEF IInv

(* Every step keeps the invariant. *)
LEMMA InvStep ==
    ASSUME IInv, [Next]_vars
    PROVE  IInv'
<1>1. TypeOK' /\ MessageInv' /\ BankInv' /\ VppInv' /\ TanInv'
  BY TypeStep, MessageStep, BankStep, VppStep, TanStep DEF IInv
<1>2. ConsentComesFirst' /\ OrderRepeatedForCause' /\ AnswersLastChallenge'
  BY ConsentStep, RepeatStep, LastStep DEF IInv
<1>3. SuccessMeansReleased' /\ SuccessMeansConfirmed'
  BY ReleasedStep, ConfirmedStep DEF IInv
<1> QED
  BY <1>1, <1>2, <1>3 DEF IInv

(* The inductive invariant of a call with TAN or verification of payee: its *)
(* messages, what the bank has got, and the five properties.                *)
THEOREM Invariant == Spec => []IInv
<1>1. Init => IInv
  BY InitInv
<1>2. IInv /\ [Next]_vars => IInv'
  BY InvStep
<1> QED
  BY <1>1, <1>2, PTL DEF Spec

(* The variables keep their types: in particular the bank is asked for two  *)
(* challenges and gets the order twice at most (3945 ends with an error     *)
(* when it comes a second time).                                            *)
THEOREM TypeCorrect == Spec => []TypeOK
<1>1. IInv => TypeOK
  BY DEF IInv
<1> QED
  BY <1>1, Invariant, PTL

(* A doubtful payee is accepted by the user before the bank gets the order  *)
(* again, a confirmation or a TAN (_handleStage1).                          *)
THEOREM Consent == Spec => []ConsentComesFirst
<1>1. IInv => ConsentComesFirst
  BY DEF IInv
<1> QED
  BY <1>1, Invariant, PTL

(* The order goes out a second time with a TAN only if it was confirmed and *)
(* did not match (_createQueueForStage2a).                                  *)
THEOREM NoNeedlessRepeat == Spec => []OrderRepeatedForCause
<1>1. IInv => OrderRepeatedForCause
  BY DEF IInv
<1> QED
  BY <1>1, Invariant, PTL

(* TANs are for the challenge asked for last (_setupTanJobStage2OrS).       *)
THEOREM RightChallenge == Spec => []AnswersLastChallenge
<1>1. IInv => AnswersLastChallenge
  BY DEF IInv
<1> QED
  BY <1>1, Invariant, PTL

(* Success of a call with TAN means that the order needs no release or got  *)
(* one (_handleStage2).                                                     *)
THEOREM Released == Spec => []SuccessMeansReleased
<1>1. IInv => SuccessMeansReleased
  BY DEF IInv
<1> QED
  BY <1>1, Invariant, PTL

(* Success with a result to check means that the order was confirmed.       *)
THEOREM Confirmed == Spec => []SuccessMeansConfirmed
<1>1. IInv => SuccessMeansConfirmed
  BY DEF IInv
<1> QED
  BY <1>1, Invariant, PTL

(* The bank gets something only when a message is due.                      *)
LEMMA BankChanges ==
    ASSUME [Next]_vars
    PROVE  UNCHANGED bank \/ (pc = "send" /\ BankGets)
<1>1. CASE Send \/ SendFails
  BY <1>1 DEF Send, SendFails
<1>2. CASE ReceiveFails \/ UserRefuses
  BY <1>2 DEF ReceiveFails, UserRefuses
<1>3. CASE Stage1
  BY <1>3 DEF Stage1, Start, AnswerStage1, AnswerPoll, PayeeRejected,
         PayeeDoubtful, PayeeAccepted, UserAccepts
<1>4. CASE Stage2
  BY <1>4 DEF Stage2, NoVopId, OrderAgain, AnswerAgain, ReleaseFirst,
         InputTan, NoChallenge, UserApproves, AnswerNotYet, AnswerApproved,
         AnswerLast, Confirm, NothingToConfirm
<1>5. CASE UNCHANGED vars
  BY <1>5 DEF vars
<1> QED
  BY <1>1, <1>2, <1>3, <1>4, <1>5 DEF Next

(* A TAN or a question for the approval is the last the bank gets of an     *)
(* order: no copy, no confirmation, no request for a challenge follows.     *)
THEOREM Last == Spec => ReleaseIsLast
<1>1. ASSUME IInv, [Next]_vars, answered # {}
      PROVE  UNCHANGED <<orders, challenge, confirmed>>
  <2>1. CASE UNCHANGED bank
    BY <2>1 DEF bank
  <2>2. CASE pc = "send" /\ BankGets
    <3>. TypeOK /\ MessageInv /\ BankInv
      BY <1>1 DEF IInv
    <3>1. step = "status" /\ segs = {"status"}
      <4>1. step \notin {"stage1", "poll", "again", "confirm", "tan"}
        BY <1>1, <2>2 DEF BankInv
      <4>2. step # "none" /\ (step = "status" => segs = {"status"})
        BY <2>2 DEF MessageInv
      <4> QED
        BY <4>1, <4>2 DEF TypeOK
    <3>2. orders' = orders /\ challenge' = challenge
      BY <2>2, <3>1 DEF BankGets
    <3>3. confirmed' = confirmed
      BY <2>2, <3>1 DEF BankGets, TypeOK
    <3> QED
      BY <3>2, <3>3
  <2> QED
    BY <1>1, <2>1, <2>2, BankChanges
<1>2. IInv /\ [Next]_vars
        => [answered # {} => UNCHANGED <<orders, challenge, confirmed>>]_vars
  BY <1>1
<1> QED
  BY <1>2, Invariant, PTL DEF Spec, ReleaseIsLast

(* After a user's or a bank's no, nothing is sent (_handleStage1).          *)
THEOREM NoIsNo == Spec => NoMeansNo
<1>1. ASSUME IInv, [Next]_vars, refused \/ (Rejected /\ ~attach)
      PROVE  UNCHANGED bank
  <2>1. pc # "send"
    BY <1>1 DEF IInv, TypeOK, MessageInv, VppInv, Judged, Rejected
  <2> QED
    BY <1>1, <2>1, BankChanges
<1>2. IInv /\ [Next]_vars
        => [refused \/ (Rejected /\ ~attach) => UNCHANGED bank]_vars
  BY <1>1
<1> QED
  BY <1>2, Invariant, PTL DEF Spec, NoMeansNo

(***************************************************************************)
(* Refinement of PaymentConsent.                                           *)
(***************************************************************************)

(* A call that is not over has no outcome, and one that is neither before   *)
(* nor at the question to the user has no open concern.                     *)
LEMMA Running ==
    ASSUME IInv, pc # "done"
    PROVE  /\ Outcome = "open"
           /\ pc \notin {"verdict", "ask"} => Concern # "raised"
<1>. TypeOK /\ MessageInv /\ VppInv
  BY DEF IInv
<1>1. Outcome = "open"
  BY DEF MessageInv, Outcome
<1>2. ASSUME pc \notin {"verdict", "ask"}, Doubtful, ~attach
      PROVE  accepted
  BY <1>2 DEF TypeOK, VppInv, Judged, Doubtful, MessageInv
<1>3. pc \notin {"verdict", "ask"} => Concern # "raised"
  BY <1>2 DEF Concern
<1> QED
  BY <1>1, <1>3

(* An order goes out the first or the second time and before a release, a   *)
(* confirmation after the order and once, a release after the order.        *)
LEMMA SendAllowed ==
    ASSUME IInv, pc = "send"
    PROVE  /\ "order" \in segs => orders < 2 /\ answered = {}
           /\ "vpa" \in segs => orders > 0 /\ ~confirmed /\ answered = {}
           /\ segs \cap {"tan", "status"} # {} => orders > 0
<1>. TypeOK /\ MessageInv /\ BankInv
  BY DEF IInv
<1>1. CASE step \in {"stage1", "poll"}
  BY <1>1 DEF MessageInv, BankInv, If
<1>2. CASE step \in {"again", "confirm"}
  BY <1>2 DEF BankInv, BankOnce
<1>3. CASE step = "tan"
  BY <1>3 DEF BankInv, BankOnce, BankTwice
<1>4. CASE step = "status"
  BY <1>4 DEF MessageInv, BankInv, BankOnce, BankTwice
<1>5. step # "none"
  BY DEF MessageInv
<1> QED
  BY <1>1, <1>2, <1>3, <1>4, <1>5 DEF TypeOK

(* A message that may go out is one that PaymentConsent allows.             *)
LEMMA SendRefines ==
    ASSUME IInv, pc = "send", BankGets, Concern' = Concern,
           Outcome' \in {"open", "error"}
    PROVE  Abs!Next
<1> DEFINE o == "order" \in segs
           c == "vpa" \in segs
           r == segs \cap {"tan", "status"} # {}
<1>1. Outcome = "open" /\ Concern # "raised"
  BY Running
<1>2. /\ o => orders < 2 /\ ~(answered # {})
      /\ c => orders > 0 /\ ~confirmed /\ ~(answered # {})
      /\ r => orders > 0
  BY SendAllowed
<1>3. /\ orders' = IF o THEN orders + 1 ELSE orders
      /\ confirmed' = (confirmed \/ c)
  BY DEF BankGets
<1>4. (answered # {})' = ((answered # {}) \/ r)
  BY DEF BankGets, If
<1>5. Abs!Message(o, c, r)
  BY <1>1, <1>2, <1>3, <1>4 DEF Abs!Message
<1>6. o \in BOOLEAN /\ c \in BOOLEAN /\ r \in BOOLEAN
  OBVIOUS
<1> QED
  BY <1>5, <1>6 DEF Abs!Next

(* The end of a call with an error.                                         *)
LEMMA ErrorRefines ==
    ASSUME IInv, pc # "done", End("error"),
           UNCHANGED <<vpp, bank, accepted>>
    PROVE  Abs!Next
<1>1. Outcome = "open" /\ Outcome' = "error"
  BY Running DEF End, Outcome
<1>2. Concern' = Concern
  BY DEF Concern, Doubtful, vpp
<1>3. Abs!End("error")
  BY <1>1, <1>2 DEF Abs!End, bank
<1> QED
  BY <1>3 DEF Abs!Next

(* The end of a call with success.                                          *)
LEMMA OkRefines ==
    ASSUME IInv, pc \notin {"done", "verdict", "ask"}, orders > 0, End("ok"),
           UNCHANGED <<vpp, bank, accepted>>
    PROVE  Abs!Next
<1>1. Outcome = "open" /\ Outcome' = "ok" /\ Concern # "raised"
  BY Running DEF End, Outcome
<1>2. Concern' = Concern
  BY DEF Concern, Doubtful, vpp
<1>3. Abs!End("ok")
  BY <1>1, <1>2 DEF Abs!End, bank
<1> QED
  BY <1>3 DEF Abs!Next

(* A step that PaymentConsent does not see.                                 *)
LEMMA QuietRefines ==
    ASSUME UNCHANGED <<vpp, bank, accepted, rv>>
    PROVE  UNCHANGED Abs!vars
<1>1. Concern' = Concern /\ Outcome' = Outcome
  BY DEF Concern, Doubtful, Outcome, vpp
<1> QED
  BY <1>1 DEF Abs!vars, bank

(* An answer to HKVPP raises a concern, or none.                            *)
LEMMA AnswerRefines ==
    ASSUME IInv, pc = "recv", step \in {"stage1", "poll"},
           UNCHANGED <<bank, user, rv>>
    PROVE  Abs!Next \/ UNCHANGED Abs!vars
<1>1. BankOnce /\ answered = {}
  BY DEF IInv, BankInv
<1>2. ~accepted /\ ~accepted'
  BY DEF IInv, VppInv, user
<1>3. Concern \in {"none", "raised"} /\ Concern' \in {"none", "raised"}
  BY <1>2 DEF Concern
<1>4. Concern = "none"
  BY <1>3, Running
<1>5. Outcome = "open" /\ Outcome' = Outcome
  BY Running DEF Outcome
<1>6. CASE Concern' = "none"
  BY <1>4, <1>5, <1>6 DEF Abs!vars, bank
<1>7. CASE Concern' = "raised"
  <2>1. Abs!Raise
    BY <1>1, <1>4, <1>5, <1>7 DEF Abs!Raise, BankOnce, bank
  <2> QED
    BY <2>1 DEF Abs!Next
<1> QED
  BY <1>3, <1>6, <1>7

(* Every step of the call is a step of PaymentConsent or none.              *)
LEMMA StepRefines ==
    ASSUME IInv, [Next]_vars
    PROVE  Abs!Next \/ UNCHANGED Abs!vars
<1>. TypeOK /\ MessageInv /\ BankInv /\ VppInv
  BY DEF IInv
<1>1. CASE Send
  <2>1. pc = "send" /\ BankGets /\ rv' = rv /\ UNCHANGED user
    BY <1>1 DEF Send, Goto
  <2>2. \/ vppCodes' = vppCodes /\ UNCHANGED <<attach, vopMsg, mismatch>>
        \/ attach
    <3>1. CASE "vpp" \in segs
      <4>1. step \in {"stage1", "poll"}
        BY <2>1, <3>1 DEF TypeOK, MessageInv, BankInv, If, FirstRelease
      <4>2. step = "stage1" => vppCodes = {}
        BY <2>1 DEF VppInv
      <4>3. step = "poll" => attach
        BY <2>1 DEF VppInv
      <4> QED
        BY <1>1, <3>1, <4>1, <4>2, <4>3 DEF Send
    <3>2. CASE "vpp" \notin segs
      BY <1>1, <3>2 DEF Send
    <3> QED
      BY <3>1, <3>2
  <2>3. Concern' = Concern
    BY <1>1, <2>1, <2>2 DEF Send, Concern, Doubtful, user
  <2>4. Outcome' = "open"
    BY <2>1, Running DEF Outcome
  <2> QED
    BY <2>1, <2>3, <2>4, SendRefines
<1>2. CASE SendFails
  <2>1. pc = "send" /\ End("error") /\ UNCHANGED <<vpp, accepted>>
    BY <1>2 DEF SendFails, user
  <2>2. Concern' = Concern /\ Outcome' = "error"
    BY <2>1 DEF Concern, Doubtful, vpp, Outcome, End
  <2>3. CASE BankGets
    BY <2>1, <2>2, <2>3, SendRefines
  <2>4. CASE UNCHANGED bank
    BY <2>1, <2>4, ErrorRefines
  <2> QED
    BY <1>2, <2>3, <2>4 DEF SendFails
<1>3. CASE AnswerStage1 \/ AnswerPoll
  <2>1. /\ pc = "recv" /\ step \in {"stage1", "poll"}
        /\ UNCHANGED <<bank, user, rv>>
    BY <1>3 DEF AnswerStage1, AnswerPoll, AfterVpp, Message, Goto
  <2> QED
    BY <2>1, AnswerRefines
<1>4. CASE UserAccepts
  <2>1. pc = "ask" /\ accepted' = TRUE /\ UNCHANGED <<rv, vpp, bank>>
    BY <1>4 DEF UserAccepts, Goto
  <2>2. Concern = "raised" /\ Concern' = "accepted"
    BY <2>1 DEF VppInv, Concern
  <2>3. Outcome = "open" /\ Outcome' = Outcome
    BY <2>1, Running DEF Outcome
  <2>4. Abs!Accept
    BY <2>1, <2>2, <2>3 DEF Abs!Accept, bank
  <2> QED
    BY <2>4 DEF Abs!Next
<1>5. CASE \/ ReceiveFails \/ UserRefuses
           \/ PayeeRejected \/ NoVopId \/ NoChallenge
  <2>1. pc # "done" /\ End("error") /\ UNCHANGED <<vpp, bank, accepted>>
    BY <1>5 DEF ReceiveFails, UserRefuses, PayeeRejected, NoVopId,
           NoChallenge, user
  <2> QED
    BY <2>1, ErrorRefines
<1>6. CASE \/ Start \/ PayeeDoubtful \/ PayeeAccepted \/ OrderAgain \/ InputTan
           \/ UserApproves \/ AnswerNotYet \/ Confirm
  <2>1. UNCHANGED <<vpp, bank, accepted, rv>>
    BY <1>6 DEF Start, PayeeDoubtful, PayeeAccepted, OrderAgain, InputTan,
           UserApproves, AnswerNotYet, Confirm, Goto, Message, user
  <2> QED
    BY <2>1, QuietRefines
<1>7. CASE AnswerAgain \/ ReleaseFirst
  <2>1. /\ UNCHANGED <<vpp, bank, accepted>>
        /\ \/ pc = "recv" /\ step = "again"
           \/ pc = "stage2"
        /\ UNCHANGED rv \/ End("ok")
    BY <1>7 DEF AnswerAgain, ReleaseFirst, Release, Goto, user
  <2>2. orders > 0
    BY <2>1 DEF MessageInv, BankInv, BankOnce, BankTwice
  <2> QED
    BY <2>1, <2>2, OkRefines, QuietRefines
<1>8. CASE AnswerApproved \/ AnswerLast \/ NothingToConfirm
  <2>1. /\ UNCHANGED <<vpp, bank, accepted>> /\ End("ok")
        /\ \/ pc = "recv" /\ step \in {"status", "tan", "confirm"}
           \/ pc = "stage2"
    BY <1>8 DEF AnswerApproved, AnswerLast, NothingToConfirm, user
  <2>2. orders > 0
    BY <2>1 DEF MessageInv, BankInv, BankOnce, BankTwice
  <2> QED
    BY <2>1, <2>2, OkRefines
<1>9. CASE UNCHANGED vars
  BY <1>9, QuietRefines DEF vars, user
<1> QED
  BY <1>1, <1>2, <1>3, <1>4, <1>5, <1>6, <1>7, <1>8, <1>9 DEF Next, Stage1,
         Stage2

(* A call implements PaymentConsent: what the bank has got, the concern     *)
(* about the payee and the outcome change as it allows.                     *)
THEOREM Refinement == Spec => ImplementsConsent
<1>1. Init => Abs!Init
  BY DEF Init, Abs!Init, Concern, Doubtful, Outcome
<1>2. IInv /\ [Next]_vars => [Abs!Next]_(Abs!vars)
  BY StepRefines
<1> QED
  BY <1>1, <1>2, Invariant, PTL DEF Spec, Abs!Spec, ImplementsConsent
=============================================================================
