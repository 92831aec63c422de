------------------------------- MODULE Outbox -------------------------------
(***************************************************************************)
(* The outbox of the HBCI backend: what becomes of the jobs of a call of   *)
(* AB_Banking_SendCommands() (AH_Provider_SendCommands()), or of a control *)
(* command with a dialog job of its own (banking/provider_online.c).       *)
(*                                                                         *)
(*   AH_Outbox_Execute()          applayer/outbox.c: one box per user      *)
(*   AH_OutboxCBox_SendAndRecvBox applayer/cbox_queue.c: dialog jobs first,*)
(*       then one dialog for the jobs of each combination of SIGN and CRYPT*)
(*   AH_JobQueue_ToMessage, AH_JobQueue_DispatchMessage      joblayer/     *)
(*   _sampleResults()             banking/provider_sendcmd.c               *)
(*                                                                         *)
(* A job is sent without TAN and without verification of payee (a user     *)
(* with a key file or card), in a message of its own.  A job carries one   *)
(* transaction.  The order of the boxes and of the jobs in a box is that   *)
(* in which they were added: any order.  What the bank makes of a message, *)
(* and what of it comes back, is external.                                 *)
(***************************************************************************)
EXTENDS Integers

CONSTANTS
    User,
    Job,
    NoJob,
    UserOf,     \* the user of a job
    Class,      \* 0: dialog job; 1..4: no flags, CRYPT, SIGN, SIGN and CRYPT
    Fetch,      \* jobs that fetch data (attachable); the others are orders
    MaxCalls,   \* bound: calls of the application
    MaxMore     \* bound: attach points the bank hands out

NoDialog == 5
Classes  == 0..4

ASSUME OutboxAssumption ==
    /\ NoJob \notin Job
    /\ UserOf \in [Job -> User]
    /\ Class \in [Job -> Classes]
    /\ Fetch \subseteq Job
    /\ \A j \in Fetch : Class[j] # 0
    /\ MaxCalls \in Nat
    /\ MaxMore \in Nat

VARIABLES
    pc,          \* where the outbox stands
    calls,       \* number of calls so far
    boxes,       \* users whose box is still there (userBoxes)
    box,         \* user of the box at work
    pass,        \* flags of the jobs at work
    dlg,         \* flags of the dialog with the bank, or NoDialog
    busy,        \* job at work, in no list, or NoJob
    todo,        \* todoJobs of the boxes
    finished,    \* finishedJobs of the box at work
    outFinished, \* finishedJobs of the outbox
    failed,      \* history: jobs of this call at which something went wrong
    rv,          \* error that ends the box at work
    jobStatus,   \* AH_JOB_STATUS
    attach,      \* jobs with an attach point (HASATTACHPOINT)
    resp,        \* what the responses say of a job (jobResponses)
    results,     \* what was sampled of them (segResults)
    taStatus,    \* AB_TRANSACTION_STATUS, in the application's hands
    bank,        \* what the bank made of the last message with a job
    got,         \* number of messages with a job that the bank got
    more         \* number of attach points handed out

where == <<boxes, box, pass>>
lists == <<todo, finished, outFinished, failed>>
data  == <<attach, resp, results>>
banks == <<bank, got, more>>
vars  == <<pc, calls, where, dlg, busy, lists, rv, jobStatus, data, taStatus,
           banks>>

PC == {"idle", "lock", "box", "pass", "connect", "list", "prepare", "encode",
       "send", "recv", "answered", "close", "finish", "process", "results"}
JobStatus == {"todo", "enqueued", "encoded", "sent", "answered", "error"}
TaStatus  == {"none", "enqueued", "sending", "accepted", "pending",
              "rejected", "error"}
Verdicts  == {"refused", "pending", "executed"}

Init ==
    /\ pc = "idle" /\ calls = 0
    /\ boxes = {} /\ box \in User /\ pass = 0
    /\ dlg = NoDialog /\ busy = NoJob
    /\ todo = {} /\ finished = {} /\ outFinished = {} /\ failed = {}
    /\ rv = "ok"
    /\ jobStatus = [j \in Job |-> "todo"]
    /\ attach = {}
    /\ resp = [j \in Job |-> {}] /\ results = [j \in Job |-> {}]
    /\ taStatus = [j \in Job |-> "none"]
    /\ bank = [j \in Job |-> "none"]
    /\ got = [j \in Job |-> 0]
    /\ more = 0

\* AH_Job_SetStatus(): the transaction follows; a dialog job has none.
TaOf(st) == CASE st \in {"todo", "enqueued"} -> "enqueued"
              [] st \in {"encoded", "sent", "answered"} -> "sending"
              [] st = "error" -> "error"

SetStatus(j, st) ==
    /\ jobStatus' = [jobStatus EXCEPT ![j] = st]
    /\ taStatus' = [taStatus EXCEPT ![j] =
                      IF Class[j] = 0 THEN @ ELSE TaOf(st)]

KeepStatus == UNCHANGED <<jobStatus, taStatus>>

-----------------------------------------------------------------------------
(* The call and the outbox.                                                *)

\* Mutant: transactions are sent whatever their status is.
Sendable_Any(j) == TRUE

\* _sortCommandsByAccounts(): transactions with another status are left out.
Sendable(j) == taStatus[j] \in {"none", "enqueued"}

\* The outbox of a call: one dialog job, or the jobs of transactions.  The
\* jobs in bad cannot be created (_addCommandToOutbox()).
Call(S, bad) ==
    /\ pc = "idle"
    /\ calls < MaxCalls
    /\ calls' = calls + 1
    /\ \/ \E j \in Job : S = {j} /\ Class[j] = 0 /\ bad = {}
       \/ \A j \in S : Class[j] # 0 /\ Sendable(j)
    /\ todo' = S \ bad
    /\ boxes' = {UserOf[j] : j \in S \ bad}
    /\ jobStatus' = [j \in Job |-> IF j \in S THEN "todo" ELSE jobStatus[j]]
    /\ taStatus' = [j \in Job |->
           IF j \in bad THEN "error"
           ELSE IF j \in S /\ Class[j] # 0 THEN "enqueued" ELSE taStatus[j]]
    /\ attach' = attach \ S
    /\ resp' = [j \in Job |-> IF j \in S THEN {} ELSE resp[j]]
    /\ results' = [j \in Job |-> IF j \in S THEN {} ELSE results[j]]
    /\ finished' = {} /\ outFinished' = {}
    /\ rv' = "ok"
    /\ pc' = "lock"
    /\ UNCHANGED <<box, pass, dlg, busy, failed, banks>>

\* _lockUsers(), in module ExclUse in detail.
LockUsers ==
    /\ pc = "lock"
    /\ pc' = "box"
    /\ UNCHANGED <<calls, where, dlg, busy, lists, rv, jobStatus, data,
                   taStatus, banks>>

LockFails ==
    /\ pc = "lock"
    /\ pc' = "results"
    /\ UNCHANGED <<calls, where, dlg, busy, lists, rv, jobStatus, data,
                   taStatus, banks>>

\* The next box; once the user has aborted it is only finished.
StartBox(u) ==
    /\ pc = "box"
    /\ u \in boxes
    /\ box' = u
    /\ pass' = 0
    /\ IF rv = "abort" THEN pc' = "finish" /\ UNCHANGED rv
                       ELSE pc' = "pass" /\ rv' = "ok"
    /\ UNCHANGED <<calls, boxes, dlg, busy, lists, jobStatus, data, taStatus,
                   banks>>

LastBox ==
    /\ pc = "box"
    /\ boxes = {}
    /\ pc' = "results"
    /\ UNCHANGED <<calls, where, dlg, busy, lists, rv, jobStatus, data,
                   taStatus, banks>>

-----------------------------------------------------------------------------
(* One box.                                                                *)

Matching == {j \in todo : UserOf[j] = box /\ Class[j] = pass}

NextPass ==
    /\ pc = "pass"
    /\ Matching = {}
    /\ IF pass < 4 THEN pass' = pass + 1 /\ UNCHANGED pc
                   ELSE pc' = "finish" /\ UNCHANGED pass
    /\ UNCHANGED <<calls, boxes, box, dlg, busy, lists, rv, jobStatus, data,
                   taStatus, banks>>

Take(j) ==
    /\ j \in Matching
    /\ todo' = todo \ {j}
    /\ busy' = j
    /\ UNCHANGED <<calls, where, dlg, finished, outFinished, failed, rv,
                   jobStatus, data, taStatus, banks>>

\* Mutant: a dialog is kept open when the job in it has failed.
EndJob_KeepDialog(r) ==
    /\ finished' = finished \cup {busy}
    /\ busy' = NoJob
    /\ rv' = r
    /\ dlg' = IF r = "ok" /\ pass = 0 THEN NoDialog ELSE dlg
    /\ pc' = IF r # "ok" THEN "finish" ELSE IF pass = 0 THEN "pass" ELSE "list"
    /\ UNCHANGED <<calls, where, todo, outFinished>>

\* Mutant: a job that fails is not put into the list of finished jobs.
EndJob_Lost(r) ==
    /\ finished' = IF r = "ok" THEN finished \cup {busy} ELSE finished
    /\ busy' = NoJob
    /\ rv' = r
    /\ dlg' = IF r # "ok" \/ pass = 0 THEN NoDialog ELSE dlg
    /\ pc' = IF r # "ok" THEN "finish" ELSE IF pass = 0 THEN "pass" ELSE "list"
    /\ UNCHANGED <<calls, where, todo, outFinished>>

\* The job at work has been dealt with; an error ends dialog and box.
EndJob(r) ==
    /\ finished' = finished \cup {busy}
    /\ busy' = NoJob
    /\ rv' = r
    /\ dlg' = IF r # "ok" \/ pass = 0 THEN NoDialog ELSE dlg
    /\ pc' = IF r # "ok" THEN "finish" ELSE IF pass = 0 THEN "pass" ELSE "list"
    /\ UNCHANGED <<calls, where, todo, outFinished>>

\* History: something went wrong at the job at work.
Failed == failed' = failed \cup {busy}

\* Dialog jobs: each opens a dialog of its own.
TakeDialogJob(j) == pc = "pass" /\ pass = 0 /\ Take(j) /\ pc' = "connect"

Connect ==
    /\ pc = "connect"
    /\ dlg' = 0
    /\ pc' = "encode"
    /\ UNCHANGED <<calls, where, busy, lists, rv, jobStatus, data, taStatus,
                   banks>>

ConnectFails(r) ==
    /\ pc = "connect"
    /\ EndJob(r) /\ Failed
    /\ UNCHANGED <<jobStatus, data, taStatus, banks>>

\* Jobs of transactions: a dialog for all that have the flags of the pass.
OpenDialog ==
    /\ pc = "pass" /\ pass # 0
    /\ Matching # {}
    /\ dlg' = pass
    /\ pc' = "list"
    /\ UNCHANGED <<calls, where, busy, lists, rv, jobStatus, data, taStatus,
                   banks>>

\* Whatever the reason, an abort by the user included.
OpenDialogFails ==
    /\ pc = "pass" /\ pass # 0
    /\ Matching # {}
    /\ rv' = "error"
    /\ failed' = failed \cup Matching
    /\ pc' = "finish"
    /\ UNCHANGED <<calls, where, dlg, busy, todo, finished, outFinished,
                   jobStatus, data, taStatus, banks>>

TakeJob(j) == pc = "list" /\ Take(j) /\ pc' = "prepare"

\* Closing the dialog may fail: that is ignored.
CloseDialog ==
    /\ pc = "list"
    /\ Matching = {}
    /\ dlg' = NoDialog
    /\ pc' = "pass"
    /\ UNCHANGED <<calls, where, busy, lists, rv, jobStatus, data, taStatus,
                   banks>>

CloseDialogOfJob(r) ==
    /\ pc = "close"
    /\ EndJob(r)
    /\ IF r = "ok" THEN UNCHANGED failed ELSE Failed
    /\ UNCHANGED <<jobStatus, data, taStatus, banks>>

-----------------------------------------------------------------------------
(* One job.                                                                *)

Prepare ==
    /\ pc = "prepare"
    /\ pc' = "encode"
    /\ UNCHANGED <<calls, where, dlg, busy, lists, rv, jobStatus, data,
                   taStatus, banks>>

PrepareFails ==
    /\ pc = "prepare"
    /\ SetStatus(busy, "error")
    /\ EndJob("error") /\ Failed
    /\ UNCHANGED <<data, banks>>

\* AH_JobQueue_AddJob(), AH_JobQueue_ToMessage()
Encode ==
    /\ pc = "encode"
    /\ SetStatus(busy, "encoded")
    /\ pc' = "send"
    /\ UNCHANGED <<calls, where, dlg, busy, lists, rv, data, banks>>

\* The job stays enqueued when it was the message that could not be set up.
EncodeFails(st) ==
    /\ pc = "encode"
    /\ SetStatus(busy, st)
    /\ EndJob("error") /\ Failed
    /\ UNCHANGED <<data, banks>>

BankGets(v) ==
    /\ v = "pending" => Class[busy] # 0 /\ busy \notin Fetch
    /\ bank' = [bank EXCEPT ![busy] = v]
    /\ got' = [got EXCEPT ![busy] = @ + 1]
    /\ UNCHANGED more

Send(v) ==
    /\ pc = "send"
    /\ SetStatus(busy, "sent")
    /\ BankGets(v)
    /\ pc' = "recv"
    /\ UNCHANGED <<calls, where, dlg, busy, lists, rv, data>>

\* The message may have reached the bank all the same.  Only a dialog job
\* passes on that the user aborted.
SendFails(r, arrived) ==
    /\ pc = "send"
    /\ r = "abort" => pass = 0
    /\ IF arrived THEN \E v \in Verdicts : BankGets(v) ELSE UNCHANGED banks
    /\ EndJob(r) /\ Failed
    /\ UNCHANGED <<jobStatus, data, taStatus>>

\* The attach point of the last message is removed, the bank may hand out
\* another one.
Attach ==
    \/ attach' = attach \ {busy} /\ UNCHANGED more
    \/ /\ busy \in Fetch /\ bank[busy] = "executed" /\ more < MaxMore
       /\ attach' = attach \cup {busy}
       /\ more' = more + 1

\* A response that has a segment for the job.
Answer ==
    /\ SetStatus(busy, "answered")
    /\ resp' = [resp EXCEPT ![busy] = @ \cup {bank[busy]}]
    /\ Attach

\* A response that refuses the message as a whole.
AnswerMessage ==
    /\ bank[busy] = "refused"
    /\ attach' = attach \ {busy}
    /\ KeepStatus
    /\ UNCHANGED <<resp, more>>

Receive ==
    /\ pc = "recv"
    /\ Answer \/ AnswerMessage
    /\ pc' = "answered"
    /\ UNCHANGED <<calls, where, dlg, busy, lists, rv, results, bank, got>>

\* The response is dispatched, but says that the bank has ended the dialog.
ReceiveAbort ==
    /\ pc = "recv"
    /\ Answer \/ AnswerMessage
    /\ EndJob("error") /\ Failed
    /\ UNCHANGED <<results, bank, got>>

\* Mutant: a job that is not answered counts as answered.
NoAnswer_Answered ==
    /\ pc = "recv"
    /\ SetStatus(busy, "answered")
    /\ resp' = [resp EXCEPT ![busy] = {"executed"}]
    /\ EndJob("error") /\ Failed
    /\ UNCHANGED <<attach, results, banks>>

\* Mutant: the error is not passed on, the box goes on with its next job.
NoAnswer_GoOn ==
    /\ pc = "recv"
    /\ EndJob("ok") /\ Failed
    /\ UNCHANGED <<jobStatus, data, taStatus, banks>>

\* No response, or one that cannot be decoded.
NoAnswer ==
    /\ pc = "recv"
    /\ EndJob("error") /\ Failed
    /\ UNCHANGED <<jobStatus, data, taStatus, banks>>

\* The dialog of a dialog job is open, or refused (AH_Job_HasErrors()).
DialogJobAnswered ==
    /\ pc = "answered" /\ pass = 0
    /\ pc' = "close"
    /\ UNCHANGED <<calls, where, dlg, busy, lists, rv, jobStatus, data,
                   taStatus, banks>>

DialogJobRefused ==
    /\ pc = "answered" /\ pass = 0
    /\ "refused" \in resp[busy]
    /\ EndJob("error") /\ Failed
    /\ UNCHANGED <<jobStatus, data, taStatus, banks>>

\* AH_Job_PrepareNextMessage() of an answered job.
NeedsMore == jobStatus[busy] = "answered" /\ busy \in attach

NextMessage ==
    /\ pc = "answered" /\ pass # 0
    /\ NeedsMore
    /\ pc' = "encode"
    /\ UNCHANGED <<calls, where, dlg, busy, lists, rv, jobStatus, data,
                   taStatus, banks>>

\* The last message; data the bank wants acknowledged are, or that fails.
JobDone(r) ==
    /\ pc = "answered" /\ pass # 0
    /\ ~NeedsMore
    /\ r # "ok" => jobStatus[busy] = "answered" /\ busy \in Fetch
    /\ EndJob(r)
    /\ IF r = "ok" THEN UNCHANGED failed ELSE Failed
    /\ UNCHANGED <<jobStatus, data, taStatus, banks>>

-----------------------------------------------------------------------------
(* The end of a box, and of the call.                                      *)

\* Mutant: the jobs not sent because of an error are forgotten.
FinishBox_SentOnly ==
    /\ pc = "finish"
    /\ todo' = {j \in todo : UserOf[j] # box}
    /\ pc' = "process"
    /\ UNCHANGED <<calls, where, dlg, busy, finished, outFinished, failed, rv,
                   jobStatus, data, taStatus, banks>>

\* AH_OutboxCBox_Finish(): jobs that were not sent are finished, too.
FinishBox ==
    /\ pc = "finish"
    /\ finished' = finished \cup {j \in todo : UserOf[j] = box}
    /\ todo' = {j \in todo : UserOf[j] # box}
    /\ pc' = "process"
    /\ UNCHANGED <<calls, where, dlg, busy, outFinished, failed, rv, jobStatus,
                   data, taStatus, banks>>

\* Only jobs that were answered are processed: their results are sampled,
\* and the processing of the data may fail.
ProcessJob(j) ==
    /\ pc = "process"
    /\ j \in finished
    /\ finished' = finished \ {j}
    /\ outFinished' = outFinished \cup {j}
    /\ IF jobStatus[j] = "answered"
         THEN /\ results' = [results EXCEPT ![j] = resp[j]]
              /\ KeepStatus \/ SetStatus(j, "error")
         ELSE UNCHANGED results /\ KeepStatus
    /\ UNCHANGED <<pc, calls, where, dlg, busy, todo, failed, rv, attach, resp,
                   banks>>

\* Mutant: the box stays in the list of boxes.
BoxDone_Keep ==
    /\ pc = "process"
    /\ finished = {}
    /\ pc' = "box"
    /\ UNCHANGED <<calls, where, dlg, busy, lists, rv, jobStatus, data,
                   taStatus, banks>>

BoxDone ==
    /\ pc = "process"
    /\ finished = {}
    /\ boxes' = boxes \ {box}
    /\ pc' = "box"
    /\ UNCHANGED <<calls, box, pass, dlg, busy, lists, rv, jobStatus, data,
                   taStatus, banks>>

\* _handleResults() of the transfers, AH_Job_HandleResults_Empty().
Verdict(j) ==
    IF results[j] = {} THEN "error"
    ELSE IF "executed" \in results[j] THEN "accepted"
    ELSE IF "pending" \in results[j] THEN "pending"
    ELSE "rejected"

SampleResults ==
    /\ pc = "results"
    /\ taStatus' = [j \in Job |->
           IF j \in outFinished /\ Class[j] # 0 THEN Verdict(j)
                                                ELSE taStatus[j]]
    /\ failed' = {}
    /\ pc' = "idle"
    /\ UNCHANGED <<calls, where, dlg, busy, todo, finished, outFinished, rv,
                   jobStatus, data, banks>>

-----------------------------------------------------------------------------
OutboxStep ==
    \/ LockUsers \/ LockFails \/ LastBox \/ NextPass
    \/ \E u \in User : StartBox(u)
    \/ FinishBox \/ BoxDone \/ SampleResults
    \/ \E j \in Job : ProcessJob(j)

DialogStep ==
    \/ \E j \in Job : TakeDialogJob(j) \/ TakeJob(j)
    \/ Connect \/ OpenDialog \/ OpenDialogFails \/ CloseDialog
    \/ \E r \in {"error", "abort"} : ConnectFails(r)
    \/ \E r \in {"ok", "error"} : CloseDialogOfJob(r)

JobStep ==
    \/ Prepare \/ PrepareFails \/ Encode
    \/ \E st \in {"enqueued", "error"} : EncodeFails(st)
    \/ \E v \in Verdicts : Send(v)
    \/ \E r \in {"error", "abort"}, arrived \in BOOLEAN : SendFails(r, arrived)
    \/ Receive \/ ReceiveAbort \/ NoAnswer
    \/ DialogJobAnswered \/ DialogJobRefused \/ NextMessage
    \/ \E r \in {"ok", "error"} : JobDone(r)

Step == OutboxStep \/ DialogStep \/ JobStep

Next == Step \/ \E S \in SUBSET Job : \E bad \in SUBSET S : Call(S, bad)

\* The outbox runs to its end: every wait for the bank has a timeout.
Spec == Init /\ [][Next]_vars /\ WF_vars(Step)

-----------------------------------------------------------------------------
\* Types of the variables.
TypeOK ==
    /\ pc \in PC /\ calls \in Nat
    /\ boxes \subseteq User /\ box \in User /\ pass \in Classes
    /\ dlg \in Classes \cup {NoDialog} /\ busy \in Job \cup {NoJob}
    /\ todo \subseteq Job /\ finished \subseteq Job /\ outFinished \subseteq Job
    /\ failed \subseteq Job
    /\ rv \in {"ok", "error", "abort"}
    /\ jobStatus \in [Job -> JobStatus] /\ taStatus \in [Job -> TaStatus]
    /\ attach \subseteq Job
    /\ resp \in [Job -> SUBSET Verdicts] /\ results \in [Job -> SUBSET Verdicts]
    /\ bank \in [Job -> Verdicts \cup {"none"}]
    /\ got \in [Job -> Nat] /\ more \in Nat

Order == {j \in Job : Class[j] # 0 /\ j \notin Fetch}

AtWork == {"connect", "prepare", "encode", "send", "recv", "answered", "close"}

\* No job is ever in two lists at a time, and there is a job at work exactly
\* while one is being sent (jobs are moved between four lists by hand).
OnePlace ==
    /\ todo \cap finished = {}
    /\ todo \cap outFinished = {}
    /\ finished \cap outFinished = {}
    /\ busy \notin todo \cup finished \cup outFinished
    /\ busy # NoJob <=> pc \in AtWork

\* A job goes out only in a dialog that was opened with its flags, and no
\* dialog outlives its box.
RightDialog ==
    /\ pc \in {"send", "recv"} => dlg = Class[busy] /\ UserOf[busy] = box
    /\ pc \in {"idle", "lock", "box", "connect", "finish", "process",
               "results"} => dlg = NoDialog

\* Where a box has not given up.
Sending == AtWork \cup {"pass", "list"}

\* As long as the outbox goes on with the jobs of a user, nothing has gone
\* wrong at any job of that user in this call: none was left without an answer,
\* none ended with its dialog ended by the bank, none found no dialog, and those
\* dealt with have all been sent (the returns of _sendJob(), _sendDialogJob()
\* and of what calls them).  That the bank refuses a message as a whole and
\* keeps the dialog open does not stop the box.
StopsOnFailure ==
    pc \in Sending =>
        /\ \A j \in failed : UserOf[j] # box
        /\ \A j \in finished : jobStatus[j] \in {"sent", "answered"}

\* An order is sent at most once, however often the application calls
\* SendCommands with its transaction (_sortCommandsByAccounts()).
OrderSentOnce ==
    \A j \in Order : got[j] <= 1

\* What the application is told of an order is what the bank made of it;
\* "error" is all it is told when nothing was heard of the order.
ReportedTruly ==
    pc = "idle" =>
        \A j \in Order :
            /\ taStatus[j] = "accepted" => bank[j] = "executed"
            /\ taStatus[j] = "pending"  => bank[j] = "pending"
            /\ taStatus[j] = "rejected" => bank[j] = "refused"
            /\ taStatus[j] \in {"none", "enqueued"} => got[j] = 0
            /\ taStatus[j] # "sending"

\* Every call returns, with every job of an outbox that could be locked
\* finished.
CallEnds == pc = "lock" ~> pc = "idle"
AllFinished ==
    \A j \in Job : (j \in todo /\ pc = "box") ~> (j \in outFinished)

Place(j) == IF j = busy THEN "active"
            ELSE IF j \in todo THEN "waiting"
            ELSE IF j \in finished \cup outFinished THEN "finished"
            ELSE "outside"

\* The outbox keeps the promises of JobDelivery.
Delivery == INSTANCE JobDelivery WITH state <- [j \in Job |-> Place(j)]
ImplementsDelivery == Delivery!Spec

-----------------------------------------------------------------------------
(* The inductive invariant.                                                *)

InDialog == {"list", "prepare", "encode", "send", "recv", "answered", "close"}

\* What is true at each place of the program.
PhaseInv ==
    /\ pc \in AtWork => UserOf[busy] = box /\ Class[busy] = pass
    /\ pc \in {"idle", "lock", "box", "results"} => finished = {}
    /\ dlg = IF pc \in InDialog THEN pass ELSE NoDialog
    /\ pc \in {"connect", "close"} => pass = 0
    /\ pc \in {"list", "prepare"} => pass # 0
    /\ pc = "send" => Class[busy] = 0 \/ taStatus[busy] = "sending"
    /\ pc = "recv" => jobStatus[busy] = "sent" /\ bank[busy] # "none"
    /\ pc \in {"answered", "close"} => jobStatus[busy] \in {"sent", "answered"}

\* A box at which something went wrong is left: it is not among the boxes yet
\* to come, and until it is done with nothing of it is sent.
FailedInv ==
    /\ pc \in {"idle", "lock"} => failed = {}
    /\ pc \in Sending \cup {"finish", "process"} => box \in boxes
    /\ \A j \in failed :
          UserOf[j] \notin boxes \ (IF pc \in {"finish", "process"} THEN {box} ELSE {})
    /\ pc \in Sending =>
          \A j \in finished : jobStatus[j] \in {"sent", "answered"}

\* Jobs of this call that have not been sent in it.
Fresh == todo \cup IF pc \in {"connect", "prepare", "encode", "send"}
                   THEN {busy} ELSE {}

\* What is known of an order is what the bank made of its one message.
OrderInv ==
    /\ attach \subseteq Fetch
    /\ \A j \in Order :
          /\ got[j] <= 1
          /\ resp[j] \subseteq {bank[j]}
          /\ results[j] \subseteq {bank[j]}
          /\ j \in Fresh => got[j] = 0 /\ resp[j] = {} /\ results[j] = {}

\* The status of its transaction.
StatusOf(j) ==
    /\ j \in todo => taStatus[j] = "enqueued"
    /\ j = busy => taStatus[j] \in {"enqueued", "sending"}
    /\ taStatus[j] \in {"none", "enqueued"} => got[j] = 0
    /\ taStatus[j] = "sending" =>
          /\ pc # "idle"
          /\ j = busy \/ j \in finished \cup outFinished
    /\ taStatus[j] = "accepted" => bank[j] = "executed"
    /\ taStatus[j] = "pending"  => bank[j] = "pending"
    /\ taStatus[j] = "rejected" => bank[j] = "refused"

StatusInv == \A j \in Order : StatusOf(j)

IInv == TypeOK /\ OnePlace /\ PhaseInv /\ FailedInv /\ OrderInv /\ StatusInv
=============================================================================
