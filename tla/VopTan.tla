------------------------------- MODULE VopTan -------------------------------
(***************************************************************************)
(* One order with TAN, with verification of payee (VOP), or with both:     *)
(* AH_OutboxCBox_SendAndReceiveJobWithTanAndVpp() in cbox_voptan.c and     *)
(* AH_OutboxCBox_SendAndReceiveJobWithVpp() in cbox_vophbci.c, both in     *)
(* aqhbci/applayer/.                                                       *)
(*                                                                         *)
(* Stage 1 sends the order, with HKVPP ("vpp") if the bank wants the payee *)
(* verified and HKTAN process 4 ("challenge") if it wants a TAN.  HKVPP is *)
(* sent again as long as the bank is not ready, then the user is asked     *)
(* about a payee whose name does not match.  Stage 2 depends on the result *)
(* codes: confirmation of the payee HKVPA ("vpa"), the order once more,    *)
(* HKTAN with the TAN ("tan") or with the question whether the user has    *)
(* approved the order elsewhere ("status").                                *)
(*                                                                         *)
(* The answers of the bank are any the code can make sense of; the codes   *)
(* kept are those it looks for.                                            *)
(***************************************************************************)
EXTENDS Integers

CONSTANT MaxRepeats  \* bound: times the bank says "not yet"

ASSUME VopTanAssumption == MaxRepeats \in Nat

Segments == {"vpp", "order", "challenge", "vpa", "tan", "status"}

\* 20 executed, 25 names match, 3090 check the result, 3091 no HKVPA needed,
\* 9210 rejected.
VppCodes == {20, 25, 3090, 3091, 9210}

\* 3076 no TAN needed, 3945 no release possible, 3955 release elsewhere.
TanCodes == {3076, 3945, 3955}

VARIABLES
    pc,           \* where the call stands
    withTan,      \* is it the call with TAN?
    withVop,      \* has the call a job HKVPP (vppJob)?
    step,         \* the message at work
    segs,         \* the jobs in it (jobQueue)
    rv,           \* return value
    tanCodes,     \* codes in the answers to tanJob1
    hasChallenge, \* tanJob1 has a challenge
    reference,    \* tanJob1's reference to a challenge, 0 if none
    workCodes,    \* codes in the answers to workJob
    vppCodes,     \* codes in the answers to vppJob
    attach,       \* vppJob has an attach point
    vopId,        \* vppJob has a VOP id
    vopMsg,       \* vppJob has a message for the user
    mismatch,     \* resultList of vppJob has a result other than a match
    accepted,     \* the user accepted the payee
    refused,      \* the user refused to go on
    orders,       \* number of times the bank got the order
    challenge,    \* number of challenges it was asked for
    confirmed,    \* it got HKVPA
    answered,     \* references in the TANs and questions it got
    waiting,      \* its last answer was: not yet approved
    repeats       \* number of times it said "not yet"

call == <<withTan, withVop>>
msg  == <<step, segs>>
tan  == <<tanCodes, hasChallenge, reference>>
vpp  == <<vppCodes, attach, vopId, vopMsg, mismatch>>
user == <<accepted, refused>>
bank == <<orders, challenge, confirmed, answered>>
more == <<waiting, repeats>>
vars == <<pc, call, msg, rv, tan, workCodes, vpp, user, bank, more>>

Init ==
    /\ pc = "start" /\ rv = "none"
    /\ withTan \in BOOLEAN /\ withVop \in BOOLEAN
    /\ step = "none" /\ segs = {}
    /\ tanCodes = {} /\ hasChallenge = FALSE /\ reference = 0
    /\ workCodes = {}
    /\ vppCodes = {} /\ attach = FALSE
    /\ vopId = FALSE /\ vopMsg = FALSE /\ mismatch = FALSE
    /\ accepted = FALSE /\ refused = FALSE
    /\ orders = 0 /\ challenge = 0 /\ confirmed = FALSE /\ answered = {}
    /\ waiting = FALSE /\ repeats = 0

Goto(p) == pc' = p /\ UNCHANGED <<msg, rv>>

Message(s, S) == pc' = "send" /\ step' = s /\ segs' = S /\ UNCHANGED rv

End(r) == pc' = "done" /\ rv' = r /\ UNCHANGED msg

\* S if the condition c holds.
If(c, S) == IF c THEN S ELSE {}
-----------------------------------------------------------------------------
(***************************************************************************)
(* Messages.                                                               *)
(***************************************************************************)

BankGets ==
    /\ orders' = IF "order" \in segs THEN orders + 1 ELSE orders
    /\ challenge' = IF "challenge" \in segs THEN challenge + 1 ELSE challenge
    /\ confirmed' = (confirmed \/ "vpa" \in segs)
    /\ answered' = answered \cup If(segs \cap {"tan", "status"} # {},
                                    {reference})

\* Encoding a job HKVPP clears what was answered to it before.
Send ==
    /\ pc = "send"
    /\ Goto("recv")
    /\ BankGets
    /\ vppCodes' = IF "vpp" \in segs THEN {} ELSE vppCodes
    /\ UNCHANGED <<call, tan, workCodes, attach, vopId, vopMsg, mismatch,
                   user, more>>

\* A job cannot be created or encoded, or the message not be sent; in the
\* last case it may have arrived.
SendFails ==
    /\ pc = "send"
    /\ End("error")
    /\ BankGets \/ UNCHANGED bank
    /\ UNCHANGED <<call, tan, workCodes, vpp, user, more>>

\* No answer, an answer that aborts the dialog, or one whose security is
\* found wanting.
ReceiveFails ==
    /\ pc = "recv"
    /\ End("error")
    /\ UNCHANGED <<call, tan, workCodes, vpp, user, bank, more>>
-----------------------------------------------------------------------------
(***************************************************************************)
(* Stage 1.                                                                *)
(***************************************************************************)

Start ==
    /\ pc = "start"
    /\ Message("stage1", If(withVop, {"vpp"}) \cup {"order"}
                           \cup If(withTan, {"challenge"}))
    /\ UNCHANGED <<call, tan, workCodes, vpp, user, bank, more>>

\* Mutant: an attach point is not cleared by the next answer.
VppAnswer_Attached ==
    /\ \E codes \in SUBSET VppCodes : vppCodes' = vppCodes \cup codes
    /\ vopId' \in BOOLEAN /\ (vopId => vopId')
    /\ vopMsg' \in BOOLEAN
    /\ mismatch' \in BOOLEAN /\ (mismatch => mismatch')
    /\ \/ attach' = TRUE /\ repeats < MaxRepeats /\ repeats' = repeats + 1
       \/ attach' = attach /\ UNCHANGED repeats

\* The VOP id and the results are kept, the message is replaced.
VppAnswer ==
    /\ \E codes \in SUBSET VppCodes : vppCodes' = vppCodes \cup codes
    /\ vopId' \in BOOLEAN /\ (vopId => vopId')
    /\ vopMsg' \in BOOLEAN
    /\ mismatch' \in BOOLEAN /\ (mismatch => mismatch')
    /\ \/ attach' = TRUE /\ repeats < MaxRepeats /\ repeats' = repeats + 1
       \/ attach' = FALSE /\ UNCHANGED repeats

\* Mutant: the reference is that of the first challenge.
TanAnswer_First ==
    /\ tanCodes' \in SUBSET TanCodes
    /\ reference' \in {0, 1}
    /\ hasChallenge' \in BOOLEAN

\* The bank may give no reference and no challenge.
TanAnswer ==
    /\ tanCodes' \in SUBSET TanCodes
    /\ reference' \in {0, challenge}
    /\ hasChallenge' \in BOOLEAN

\* Mutant: HKVPP is sent once more when it has no attach point any more.
AfterVpp_Again ==
    \/ step = "stage1" /\ withVop /\ Message("poll", {"vpp"})
    \/ ~(step = "stage1" /\ withVop) /\ Goto("verdict")

AfterVpp ==
    \/ attach' /\ Message("poll", {"vpp"})
    \/ ~attach' /\ Goto("verdict")

AnswerStage1 ==
    /\ pc = "recv"
    /\ step = "stage1"
    /\ \/ withVop /\ VppAnswer
       \/ ~withVop /\ UNCHANGED <<vpp, repeats>>
    /\ \/ withTan /\ TanAnswer
       \/ ~withTan /\ UNCHANGED tan
    /\ workCodes' \in SUBSET {3076}
    /\ AfterVpp
    /\ UNCHANGED <<call, user, bank, waiting>>

AnswerPoll ==
    /\ pc = "recv"
    /\ step = "poll"
    /\ VppAnswer
    /\ AfterVpp
    /\ UNCHANGED <<call, tan, workCodes, user, bank, waiting>>

Rejected == 9210 \in vppCodes /\ 25 \notin vppCodes

\* Is there something about the payee to ask the user?
Doubtful ==
    /\ 3090 \in vppCodes
    /\ 25 \notin vppCodes
    /\ 9210 \notin vppCodes
    /\ vopMsg \/ mismatch

PayeeRejected ==
    /\ pc = "verdict"
    /\ Rejected
    /\ End("error")
    /\ UNCHANGED <<call, tan, workCodes, vpp, user, bank, more>>

\* Mutant: the user is asked only if the bank has sent a message.
PayeeDoubtful_MsgOnly ==
    /\ pc = "verdict"
    /\ Doubtful
    /\ IF vopMsg THEN Goto("ask") ELSE Goto("stage2")
    /\ UNCHANGED <<call, tan, workCodes, vpp, user, bank, more>>

PayeeDoubtful ==
    /\ pc = "verdict"
    /\ Doubtful
    /\ Goto("ask")
    /\ UNCHANGED <<call, tan, workCodes, vpp, user, bank, more>>

PayeeAccepted ==
    /\ pc = "verdict"
    /\ ~Rejected
    /\ ~Doubtful
    /\ Goto("stage2")
    /\ UNCHANGED <<call, tan, workCodes, vpp, user, bank, more>>

UserAccepts ==
    /\ pc = "ask"
    /\ Goto("stage2")
    /\ accepted' = TRUE
    /\ UNCHANGED <<call, tan, workCodes, vpp, refused, bank, more>>

\* Mutant: Abort is taken for an answer, the next message goes out.
UserRefuses_Ignored ==
    /\ \/ pc = "ask" /\ Goto("stage2")
       \/ pc = "input" /\ hasChallenge /\ Goto("send")
       \/ pc = "approve" /\ hasChallenge /\ Message("status", {"status"})
    /\ refused' = TRUE
    /\ UNCHANGED <<call, tan, workCodes, vpp, accepted, bank, more>>

\* The user aborts, in any of the dialogs.
UserRefuses ==
    /\ \/ pc = "ask"
       \/ pc \in {"input", "approve"} /\ hasChallenge
    /\ End("error")
    /\ refused' = TRUE
    /\ UNCHANGED <<call, tan, workCodes, vpp, accepted, bank, more>>
-----------------------------------------------------------------------------
(***************************************************************************)
(* Stage 2.                                                                *)
(***************************************************************************)

NeedVpa == withVop /\ 3091 \notin vppCodes

\* Mutant: the result of HKVPP does not count.
NeedOrderAgain_TanOnly == 3945 \in tanCodes

\* The bank wants the order and a challenge once more.
NeedOrderAgain == 3945 \in tanCodes \/ 3090 \in vppCodes

NeedTan == (tanCodes \cup workCodes) \cap {3076, 3955} = {}

\* HKVPA cannot be created.
NoVopId ==
    /\ pc = "stage2"
    /\ ~vopId
    /\ \/ withTan /\ NeedOrderAgain /\ withVop
       \/ withTan /\ ~NeedOrderAgain /\ NeedTan /\ NeedVpa
       \/ ~withTan /\ NeedVpa
    /\ End("error")
    /\ UNCHANGED <<call, tan, workCodes, vpp, user, bank, more>>

OrderAgain ==
    /\ pc = "stage2"
    /\ withTan
    /\ NeedOrderAgain
    /\ withVop => vopId
    /\ Message("again", If(withVop, {"vpa"}) \cup {"order", "challenge"})
    /\ tanCodes' = {} /\ hasChallenge' = FALSE /\ reference' = 0
    /\ UNCHANGED <<call, workCodes, vpp, user, bank, more>>

\* What the codes c ask for: nothing more, a question, or a message S with
\* the TAN that the user has to enter first.
Release(c, S) ==
    \/ 3076 \in c /\ End("ok")
    \/ 3076 \notin c /\ 3955 \in c /\ Goto("approve")
    \/ c \cap {3076, 3955} = {} /\ pc' = "input" /\ step' = "tan"
         /\ segs' = S /\ UNCHANGED rv

AnswerAgain ==
    /\ pc = "recv"
    /\ step = "again"
    /\ TanAnswer
    /\ Release(tanCodes', {"tan"})
    /\ UNCHANGED <<call, workCodes, vpp, user, bank, more>>

\* Mutant: it does not matter that the names match.
FirstRelease_Match ==
    {"tan"} \cup If(NeedVpa, {"vpa"})
            \cup If(NeedVpa /\ 20 \in vppCodes, {"order"})

\* The jobs in the message with the TAN for the first challenge.
FirstRelease ==
    {"tan"} \cup If(NeedVpa, {"vpa"})
            \cup If(NeedVpa /\ 25 \notin vppCodes /\ 20 \in vppCodes,
                    {"order"})

ReleaseFirst ==
    /\ pc = "stage2"
    /\ withTan
    /\ ~NeedOrderAgain
    /\ NeedTan /\ NeedVpa => vopId
    /\ Release(tanCodes \cup workCodes, FirstRelease)
    /\ UNCHANGED <<call, tan, workCodes, vpp, user, bank, more>>

InputTan ==
    /\ pc = "input"
    /\ hasChallenge
    /\ Goto("send")
    /\ UNCHANGED <<call, tan, workCodes, vpp, user, bank, more>>

NoChallenge ==
    /\ pc = "input"
    /\ ~hasChallenge
    /\ End("error")
    /\ UNCHANGED <<call, tan, workCodes, vpp, user, bank, more>>

\* The user says that the order is approved; not asked without a challenge.
UserApproves ==
    /\ pc = "approve"
    /\ Message("status", {"status"})
    /\ UNCHANGED <<call, tan, workCodes, vpp, user, bank, more>>

\* Mutant: 3956 is taken for an approval.
AnswerNotYet_Ok ==
    /\ pc = "recv"
    /\ step = "status"
    /\ repeats < MaxRepeats
    /\ End("ok")
    /\ waiting' = TRUE
    /\ repeats' = repeats + 1
    /\ UNCHANGED <<call, tan, workCodes, vpp, user, bank>>

AnswerNotYet ==
    /\ pc = "recv"
    /\ step = "status"
    /\ repeats < MaxRepeats
    /\ Goto("approve")
    /\ waiting' = TRUE
    /\ repeats' = repeats + 1
    /\ UNCHANGED <<call, tan, workCodes, vpp, user, bank>>

AnswerApproved ==
    /\ pc = "recv"
    /\ step = "status"
    /\ End("ok")
    /\ waiting' = FALSE
    /\ UNCHANGED <<call, tan, workCodes, vpp, user, bank, repeats>>

\* The last message of the call with a TAN, or of that without.
AnswerLast ==
    /\ pc = "recv"
    /\ step \in {"tan", "confirm"}
    /\ End("ok")
    /\ UNCHANGED <<call, tan, workCodes, vpp, user, bank, more>>

\* Without TAN the order is always sent again after the verification.
Confirm ==
    /\ pc = "stage2"
    /\ ~withTan
    /\ withVop
    /\ NeedVpa => vopId
    /\ Message("confirm", If(NeedVpa, {"vpa"}) \cup {"order"})
    /\ UNCHANGED <<call, tan, workCodes, vpp, user, bank, more>>

NothingToConfirm ==
    /\ pc = "stage2"
    /\ ~withTan
    /\ ~withVop
    /\ End("ok")
    /\ UNCHANGED <<call, tan, workCodes, vpp, user, bank, more>>
-----------------------------------------------------------------------------
Stage1 ==
    \/ Start \/ AnswerStage1 \/ AnswerPoll
    \/ PayeeRejected \/ PayeeDoubtful \/ PayeeAccepted \/ UserAccepts

Stage2 ==
    \/ NoVopId \/ OrderAgain \/ AnswerAgain \/ ReleaseFirst
    \/ InputTan \/ NoChallenge \/ UserApproves
    \/ AnswerNotYet \/ AnswerApproved \/ AnswerLast \/ Confirm \/ NothingToConfirm

Next ==
    \/ Stage1 \/ Stage2
    \/ Send \/ SendFails \/ ReceiveFails \/ UserRefuses

Spec == Init /\ [][Next]_vars

\* The call runs, the network operations have timeouts, the user answers.
FairSpec == Spec /\ WF_vars(Next)
-----------------------------------------------------------------------------
TypeOK ==
    /\ pc \in {"start", "send", "recv", "verdict", "ask", "stage2", "input",
               "approve", "done"}
    /\ step \in {"none", "stage1", "poll", "again", "tan", "status",
                 "confirm"}
    /\ rv \in {"none", "ok", "error"}
    /\ segs \in SUBSET Segments
    /\ withTan \in BOOLEAN /\ withVop \in BOOLEAN /\ hasChallenge \in BOOLEAN
    /\ attach \in BOOLEAN /\ vopId \in BOOLEAN /\ vopMsg \in BOOLEAN
    /\ mismatch \in BOOLEAN /\ accepted \in BOOLEAN /\ refused \in BOOLEAN
    /\ confirmed \in BOOLEAN /\ waiting \in BOOLEAN
    /\ tanCodes \in SUBSET TanCodes
    /\ workCodes \in SUBSET {3076}
    /\ vppCodes \in SUBSET VppCodes
    /\ reference \in 0..2 /\ challenge \in 0..2 /\ orders \in 0..2
    /\ answered \in SUBSET (0..2)
    /\ repeats \in 0..MaxRepeats

\* A bank with a concern about the payee gets nothing more, neither the
\* order again, nor its confirmation, nor a release, unless the user was
\* asked and accepted the payee (LetUserConfirmVopResult in stage 1).
ConsentComesFirst ==
    Doubtful /\ ~attach /\ (orders > 1 \/ confirmed \/ answered # {})
        => accepted

\* An order that was sent a second time without a new challenge was
\* confirmed and did not match (_createQueueForStage2a): a bank that holds
\* the order already must not get another one.
OrderRepeatedForCause ==
    withTan /\ orders = 2 /\ challenge = 1
        => confirmed /\ 25 \notin vppCodes /\ 20 \in vppCodes

\* TANs and questions refer to the challenge asked for last, or to none if
\* the bank gave no reference, even when there were two challenges.
AnswersLastChallenge == answered \subseteq {0, challenge}

\* A call with TAN that succeeds has an order for which the bank wanted none
\* when it was last asked, or that was released, and not one that still
\* waits for the user.
SuccessMeansReleased ==
    rv = "ok" /\ withTan =>
        \/ 3076 \in tanCodes
        \/ 3076 \in workCodes /\ challenge = 1
        \/ answered # {} /\ ~waiting

\* When the bank asks to have the payee checked and did not waive the
\* confirmation, success means that the order was repeated and confirmed.
SuccessMeansConfirmed ==
    rv = "ok" /\ 3090 \in vppCodes /\ 3091 \notin vppCodes
        => confirmed /\ orders = 2

\* The order is not sent, confirmed or given a new challenge any more when
\* the TAN or the question for the approval is out.
ReleaseIsLast ==
    [][answered # {} => UNCHANGED <<orders, challenge, confirmed>>]_vars

\* After the user aborted, or the bank rejected the payee, the bank gets
\* nothing more.
NoMeansNo == [][refused \/ (Rejected /\ ~attach) => UNCHANGED bank]_vars

\* Every call comes to an end.
CallEnds == <>(pc = "done")
-----------------------------------------------------------------------------
(***************************************************************************)
(* Refinement: the concern is raised by the last answer to HKVPP.          *)
(***************************************************************************)
Concern == IF accepted THEN "accepted"
           ELSE IF Doubtful /\ ~attach THEN "raised" ELSE "none"

Outcome == IF rv = "none" THEN "open" ELSE rv

Abs == INSTANCE PaymentConsent WITH
           released <- answered # {},
           concern  <- Concern,
           outcome  <- Outcome

\* The call implements PaymentConsent.
ImplementsConsent == Abs!Spec
-----------------------------------------------------------------------------
(***************************************************************************)
(* The inductive invariant.                                                *)
(***************************************************************************)

\* Which messages go out where, and what is in them.
MessageInv ==
    /\ pc = "start" <=> step = "none"
    /\ pc = "done" <=> rv # "none"
    /\ refused => pc = "done"
    /\ pc \in {"verdict", "ask", "stage2"} => step \in {"stage1", "poll"}
    /\ pc = "input" => step = "tan"
    /\ pc = "approve" => step \in {"stage1", "poll", "again", "status"}
    /\ step = "stage1" => segs = If(withVop, {"vpp"}) \cup {"order"}
                                     \cup If(withTan, {"challenge"})
    /\ step = "poll" => withVop /\ segs = {"vpp"}
    /\ step = "again" =>
           segs = If(withVop, {"vpa"}) \cup {"order", "challenge"}
    /\ step = "status" => segs = {"status"}
    /\ step = "confirm" => segs = If(NeedVpa, {"vpa"}) \cup {"order"}
    /\ pc = "approve" \/ step \in {"again", "tan", "status"} => withTan
    /\ step = "confirm" => ~withTan

\* What the bank has got before and after the order was repeated.
BankOnce ==
    /\ orders = 1
    /\ challenge = IF withTan THEN 1 ELSE 0
    /\ ~confirmed

BankTwice == orders = 2 /\ challenge = 2 /\ confirmed = withVop

BankInv ==
    /\ pc = "start" \/ (pc = "send" /\ step = "stage1") =>
           orders = 0 /\ challenge = 0 /\ ~confirmed /\ answered = {}
    /\ step = "stage1" /\ pc \notin {"send", "done"} =>
           BankOnce /\ answered = {}
    /\ step = "poll" /\ pc # "done" => BankOnce /\ answered = {}
    /\ step \in {"again", "confirm"} /\ pc = "send" =>
           BankOnce /\ answered = {}
    /\ pc = "approve" /\ step \in {"stage1", "poll"} => 3090 \notin vppCodes
    /\ step = "again" /\ pc \in {"recv", "approve"} =>
           BankTwice /\ answered = {}
    /\ step = "tan" /\ pc \in {"input", "send"} =>
           /\ answered = {}
           /\ \/ BankOnce /\ segs = FirstRelease /\ 3090 \notin vppCodes
              \/ BankTwice /\ segs = {"tan"}
    /\ step = "tan" /\ pc = "recv" =>
           answered # {} /\ orders > 0 /\ (3090 \in vppCodes => BankTwice)
    /\ step = "status" /\ pc # "done" =>
           BankTwice \/ (BankOnce /\ 3090 \notin vppCodes)
    /\ step = "status" /\ pc = "recv" => answered # {}
    /\ step = "confirm" /\ pc = "recv" =>
           orders = 2 /\ (NeedVpa => confirmed)

\* The verification of payee is over.
Judged ==
    pc \in {"stage2", "approve"} \/ step \in {"again", "tan", "status", "confirm"}

VppInv ==
    /\ ~withVop => vppCodes = {}
    /\ step \in {"none", "stage1"} /\ pc \in {"start", "send", "recv"} =>
           vppCodes = {} /\ ~attach /\ ~accepted
    /\ step = "poll" /\ pc = "send" => attach /\ ~accepted
    /\ step = "poll" /\ pc = "recv" => vppCodes = {} /\ ~accepted
    /\ pc \in {"verdict", "ask"} => ~attach /\ ~accepted
    /\ pc = "ask" => Doubtful
    /\ Judged => ~attach /\ ~Rejected /\ (Doubtful => accepted)

TanInv ==
    /\ reference \in {0, challenge}
    /\ pc = "start" \/ (pc = "send" /\ step \in {"stage1", "again"}) =>
           reference = 0
    /\ waiting => step = "status"

\* Each of the properties above rests on the others.
IInv ==
    /\ TypeOK
    /\ MessageInv /\ BankInv /\ VppInv /\ TanInv
    /\ ConsentComesFirst /\ OrderRepeatedForCause /\ AnswersLastChallenge
    /\ SuccessMeansReleased /\ SuccessMeansConfirmed
=============================================================================
