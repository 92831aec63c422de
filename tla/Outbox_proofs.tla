--------------------------- MODULE Outbox_proofs ----------------------------
(* Proofs about Outbox: its invariant, what follows from it, and that it    *)
(* implements JobDelivery.                                                  *)
EXTENDS Outbox, TLAPS

(* Every step keeps the types. *)
LEMMA TypeStep ==
    ASSUME TypeOK, OnePlace, PhaseInv, [Next]_vars
    PROVE  TypeOK'
<1> USE OutboxAssumption
<1>1. ASSUME LockUsers PROVE TypeOK'
  BY <1>1 DEF LockUsers, where, lists, data, banks, TypeOK, OnePlace, AtWork,
         PhaseInv, PC, JobStatus, TaStatus, Verdicts, Classes, NoDialog
<1>2. ASSUME LockFails PROVE TypeOK'
  BY <1>2 DEF LockFails, where, lists, data, banks, TypeOK, OnePlace, AtWork,
         PhaseInv, PC, JobStatus, TaStatus, Verdicts, Classes, NoDialog
<1>3. ASSUME LastBox PROVE TypeOK'
  BY <1>3 DEF LastBox, where, lists, data, banks, TypeOK, OnePlace, AtWork,
         PhaseInv, PC, JobStatus, TaStatus, Verdicts, Classes, NoDialog
<1>4. ASSUME NextPass PROVE TypeOK'
  BY <1>4 DEF NextPass, Matching, where, lists, data, banks, TypeOK, OnePlace,
         AtWork, PhaseInv, PC, JobStatus, TaStatus, Verdicts, Classes,
         NoDialog
<1>5. ASSUME NEW u \in User, StartBox(u) PROVE TypeOK'
  BY <1>5 DEF StartBox, where, lists, data, banks, TypeOK, OnePlace, AtWork,
         PhaseInv, PC, JobStatus, TaStatus, Verdicts, Classes, NoDialog
<1>6. ASSUME FinishBox PROVE TypeOK'
  BY <1>6 DEF FinishBox, where, lists, data, banks, TypeOK, OnePlace, AtWork,
         PhaseInv, PC, JobStatus, TaStatus, Verdicts, Classes, NoDialog
<1>7. ASSUME BoxDone PROVE TypeOK'
  BY <1>7 DEF BoxDone, where, lists, data, banks, TypeOK, OnePlace, AtWork,
         PhaseInv, PC, JobStatus, TaStatus, Verdicts, Classes, NoDialog
<1>8. ASSUME SampleResults PROVE TypeOK'
  BY <1>8 DEF SampleResults, Verdict, where, lists, data, banks, TypeOK, OnePlace,
         AtWork, PhaseInv, PC, JobStatus, TaStatus, Verdicts, Classes,
         NoDialog
<1>9. ASSUME NEW j \in Job, ProcessJob(j) PROVE TypeOK'
  BY <1>9 DEF ProcessJob, SetStatus, KeepStatus, TaOf, where, lists, data, banks,
         TypeOK, OnePlace, AtWork, PhaseInv, PC, JobStatus, TaStatus,
         Verdicts, Classes, NoDialog
<1>10. ASSUME NEW j \in Job, TakeDialogJob(j) PROVE TypeOK'
  BY <1>10 DEF TakeDialogJob, Take, Matching, where, lists, data, banks, TypeOK,
         OnePlace, AtWork, PhaseInv, PC, JobStatus, TaStatus, Verdicts,
         Classes, NoDialog
<1>11. ASSUME NEW j \in Job, TakeJob(j) PROVE TypeOK'
  BY <1>11 DEF TakeJob, Take, Matching, where, lists, data, banks, TypeOK,
         OnePlace, AtWork, PhaseInv, PC, JobStatus, TaStatus, Verdicts,
         Classes, NoDialog
<1>12. ASSUME Connect PROVE TypeOK'
  BY <1>12 DEF Connect, where, lists, data, banks, TypeOK, OnePlace, AtWork,
         PhaseInv, PC, JobStatus, TaStatus, Verdicts, Classes, NoDialog
<1>13. ASSUME OpenDialog PROVE TypeOK'
  BY <1>13 DEF OpenDialog, where, lists, data, banks, TypeOK, OnePlace, AtWork,
         PhaseInv, PC, JobStatus, TaStatus, Verdicts, Classes, NoDialog
<1>14. ASSUME OpenDialogFails PROVE TypeOK'
  BY <1>14 DEF OpenDialogFails, Matching, where, lists, data, banks, TypeOK, OnePlace,
         AtWork, PhaseInv, PC, JobStatus, TaStatus, Verdicts, Classes,
         NoDialog
<1>15. ASSUME CloseDialog PROVE TypeOK'
  BY <1>15 DEF CloseDialog, where, lists, data, banks, TypeOK, OnePlace, AtWork,
         PhaseInv, PC, JobStatus, TaStatus, Verdicts, Classes, NoDialog
<1>16. ASSUME NEW r \in {"error", "abort"}, ConnectFails(r) PROVE TypeOK'
  BY <1>16 DEF ConnectFails, EndJob, Failed, where, lists, data, banks, TypeOK, OnePlace,
         AtWork, PhaseInv, PC, JobStatus, TaStatus, Verdicts, Classes,
         NoDialog
<1>17. ASSUME NEW r \in {"ok", "error"}, CloseDialogOfJob(r) PROVE TypeOK'
  BY <1>17 DEF CloseDialogOfJob, EndJob, Failed, where, lists, data, banks, TypeOK,
         OnePlace, AtWork, PhaseInv, PC, JobStatus, TaStatus, Verdicts,
         Classes, NoDialog
<1>18. ASSUME Prepare PROVE TypeOK'
  BY <1>18 DEF Prepare, where, lists, data, banks, TypeOK, OnePlace, AtWork,
         PhaseInv, PC, JobStatus, TaStatus, Verdicts, Classes, NoDialog
<1>19. ASSUME PrepareFails PROVE TypeOK'
  BY <1>19 DEF PrepareFails, EndJob, Failed, SetStatus, TaOf, where, lists, data, banks,
         TypeOK, OnePlace, AtWork, PhaseInv, PC, JobStatus, TaStatus,
         Verdicts, Classes, NoDialog
<1>20. ASSUME Encode PROVE TypeOK'
  BY <1>20 DEF Encode, SetStatus, TaOf, where, lists, data, banks, TypeOK,
         OnePlace, AtWork, PhaseInv, PC, JobStatus, TaStatus, Verdicts,
         Classes, NoDialog
<1>21. ASSUME NEW st \in {"enqueued", "error"}, EncodeFails(st) PROVE TypeOK'
  BY <1>21 DEF EncodeFails, EndJob, Failed, SetStatus, TaOf, where, lists, data, banks,
         TypeOK, OnePlace, AtWork, PhaseInv, PC, JobStatus, TaStatus,
         Verdicts, Classes, NoDialog
<1>22. ASSUME NEW v \in Verdicts, Send(v) PROVE TypeOK'
  BY <1>22 DEF Send, SetStatus, TaOf, BankGets, Verdicts, where, lists, data,
         banks, TypeOK, OnePlace, AtWork, PhaseInv, PC, JobStatus, TaStatus,
         Verdicts, Classes, NoDialog
<1>23. ASSUME NEW r \in {"error", "abort"}, NEW arrived \in BOOLEAN,
                      SendFails(r, arrived) PROVE TypeOK'
  BY <1>23 DEF SendFails, EndJob, Failed, BankGets, Verdicts, where, lists, data, banks,
         TypeOK, OnePlace, AtWork, PhaseInv, PC, JobStatus, TaStatus,
         Verdicts, Classes, NoDialog
<1>24. ASSUME Receive PROVE TypeOK'
  BY <1>24 DEF Receive, Answer, AnswerMessage, Attach, SetStatus, KeepStatus, TaOf,
         where, lists, data, banks, TypeOK, OnePlace, AtWork, PhaseInv, PC,
         JobStatus, TaStatus, Verdicts, Classes, NoDialog
<1>25. ASSUME ReceiveAbort PROVE TypeOK'
  BY <1>25 DEF ReceiveAbort, Answer, AnswerMessage, Attach, SetStatus, KeepStatus,
         TaOf, EndJob, Failed, where, lists, data, banks, TypeOK, OnePlace, AtWork,
         PhaseInv, PC, JobStatus, TaStatus, Verdicts, Classes, NoDialog
<1>26. ASSUME NoAnswer PROVE TypeOK'
  BY <1>26 DEF NoAnswer, EndJob, Failed, where, lists, data, banks, TypeOK, OnePlace,
         AtWork, PhaseInv, PC, JobStatus, TaStatus, Verdicts, Classes,
         NoDialog
<1>27. ASSUME DialogJobAnswered PROVE TypeOK'
  BY <1>27 DEF DialogJobAnswered, where, lists, data, banks, TypeOK, OnePlace,
         AtWork, PhaseInv, PC, JobStatus, TaStatus, Verdicts, Classes,
         NoDialog
<1>28. ASSUME DialogJobRefused PROVE TypeOK'
  BY <1>28 DEF DialogJobRefused, EndJob, Failed, where, lists, data, banks, TypeOK,
         OnePlace, AtWork, PhaseInv, PC, JobStatus, TaStatus, Verdicts,
         Classes, NoDialog
<1>29. ASSUME NextMessage PROVE TypeOK'
  BY <1>29 DEF NextMessage, NeedsMore, where, lists, data, banks, TypeOK, OnePlace,
         AtWork, PhaseInv, PC, JobStatus, TaStatus, Verdicts, Classes,
         NoDialog
<1>30. ASSUME NEW r \in {"ok", "error"}, JobDone(r) PROVE TypeOK'
  BY <1>30 DEF JobDone, EndJob, Failed, NeedsMore, where, lists, data, banks, TypeOK,
         OnePlace, AtWork, PhaseInv, PC, JobStatus, TaStatus, Verdicts,
         Classes, NoDialog
<1>31. ASSUME NEW S \in SUBSET Job, NEW bad \in SUBSET S, Call(S, bad) PROVE TypeOK'
  BY <1>31 DEF Call, Sendable, where, lists, data, banks, TypeOK, OnePlace, AtWork,
         PhaseInv, PC, JobStatus, TaStatus, Verdicts, Classes, NoDialog
<1>32. CASE UNCHANGED vars
  BY <1>32 DEF vars, where, lists, data, banks, where, lists, data, banks, TypeOK,
         OnePlace, AtWork, PhaseInv, PC, JobStatus, TaStatus, Verdicts,
         Classes, NoDialog
<1> QED
  BY <1>1, <1>2, <1>3, <1>4, <1>5, <1>6, <1>7, <1>8, <1>9, <1>10, <1>11,
     <1>12, <1>13, <1>14, <1>15, <1>16, <1>17, <1>18, <1>19, <1>20, <1>21,
     <1>22, <1>23, <1>24, <1>25, <1>26, <1>27, <1>28, <1>29, <1>30, <1>31,
     <1>32
  DEF Next, Step, OutboxStep, DialogStep, JobStep


(* No step puts a job into two places. *)
LEMMA PlaceStep ==
    ASSUME TypeOK, OnePlace, PhaseInv, [Next]_vars
    PROVE  OnePlace'
<1> USE OutboxAssumption
<1>1. ASSUME LockUsers PROVE OnePlace'
  BY <1>1 DEF LockUsers, where, lists, data, banks, TypeOK, OnePlace, AtWork,
         PhaseInv
<1>2. ASSUME LockFails PROVE OnePlace'
  BY <1>2 DEF LockFails, where, lists, data, banks, TypeOK, OnePlace, AtWork,
         PhaseInv
<1>3. ASSUME LastBox PROVE OnePlace'
  BY <1>3 DEF LastBox, where, lists, data, banks, TypeOK, OnePlace, AtWork,
         PhaseInv
<1>4. ASSUME NextPass PROVE OnePlace'
  BY <1>4 DEF NextPass, Matching, where, lists, data, banks, TypeOK, OnePlace,
         AtWork, PhaseInv
<1>5. ASSUME NEW u \in User, StartBox(u) PROVE OnePlace'
  BY <1>5 DEF StartBox, where, lists, data, banks, TypeOK, OnePlace, AtWork,
         PhaseInv
<1>6. ASSUME FinishBox PROVE OnePlace'
  BY <1>6 DEF FinishBox, where, lists, data, banks, TypeOK, OnePlace, AtWork,
         PhaseInv
<1>7. ASSUME BoxDone PROVE OnePlace'
  BY <1>7 DEF BoxDone, where, lists, data, banks, TypeOK, OnePlace, AtWork,
         PhaseInv
<1>8. ASSUME SampleResults PROVE OnePlace'
  BY <1>8 DEF SampleResults, Verdict, where, lists, data, banks, TypeOK, OnePlace,
         AtWork, PhaseInv
<1>9. ASSUME NEW j \in Job, ProcessJob(j) PROVE OnePlace'
  BY <1>9 DEF ProcessJob, SetStatus, KeepStatus, TaOf, where, lists, data, banks,
         TypeOK, OnePlace, AtWork, PhaseInv
<1>10. ASSUME NEW j \in Job, TakeDialogJob(j) PROVE OnePlace'
  BY <1>10 DEF TakeDialogJob, Take, Matching, where, lists, data, banks, TypeOK,
         OnePlace, AtWork, PhaseInv
<1>11. ASSUME NEW j \in Job, TakeJob(j) PROVE OnePlace'
  BY <1>11 DEF TakeJob, Take, Matching, where, lists, data, banks, TypeOK,
         OnePlace, AtWork, PhaseInv
<1>12. ASSUME Connect PROVE OnePlace'
  BY <1>12 DEF Connect, where, lists, data, banks, TypeOK, OnePlace, AtWork,
         PhaseInv
<1>13. ASSUME OpenDialog PROVE OnePlace'
  BY <1>13 DEF OpenDialog, where, lists, data, banks, TypeOK, OnePlace, AtWork,
         PhaseInv
<1>14. ASSUME OpenDialogFails PROVE OnePlace'
  BY <1>14 DEF OpenDialogFails, Matching, where, lists, data, banks, TypeOK, OnePlace,
         AtWork, PhaseInv
<1>15. ASSUME CloseDialog PROVE OnePlace'
  BY <1>15 DEF CloseDialog, where, lists, data, banks, TypeOK, OnePlace, AtWork,
         PhaseInv
<1>16. ASSUME NEW r \in {"error", "abort"}, ConnectFails(r) PROVE OnePlace'
  BY <1>16 DEF ConnectFails, EndJob, Failed, where, lists, data, banks, TypeOK, OnePlace,
         AtWork, PhaseInv
<1>17. ASSUME NEW r \in {"ok", "error"}, CloseDialogOfJob(r) PROVE OnePlace'
  BY <1>17 DEF CloseDialogOfJob, EndJob, Failed, where, lists, data, banks, TypeOK,
         OnePlace, AtWork, PhaseInv
<1>18. ASSUME Prepare PROVE OnePlace'
  BY <1>18 DEF Prepare, where, lists, data, banks, TypeOK, OnePlace, AtWork,
         PhaseInv
<1>19. ASSUME PrepareFails PROVE OnePlace'
  BY <1>19 DEF PrepareFails, EndJob, Failed, SetStatus, TaOf, where, lists, data, banks,
         TypeOK, OnePlace, AtWork, PhaseInv
<1>20. ASSUME Encode PROVE OnePlace'
  BY <1>20 DEF Encode, SetStatus, TaOf, where, lists, data, banks, TypeOK,
         OnePlace, AtWork, PhaseInv
<1>21. ASSUME NEW st \in {"enqueued", "error"}, EncodeFails(st) PROVE OnePlace'
  BY <1>21 DEF EncodeFails, EndJob, Failed, SetStatus, TaOf, where, lists, data, banks,
         TypeOK, OnePlace, AtWork, PhaseInv
<1>22. ASSUME NEW v \in Verdicts, Send(v) PROVE OnePlace'
  BY <1>22 DEF Send, SetStatus, TaOf, BankGets, Verdicts, where, lists, data,
         banks, TypeOK, OnePlace, AtWork, PhaseInv
<1>23. ASSUME NEW r \in {"error", "abort"}, NEW arrived \in BOOLEAN,
                      SendFails(r, arrived) PROVE OnePlace'
  BY <1>23 DEF SendFails, EndJob, Failed, BankGets, Verdicts, where, lists, data, banks,
         TypeOK, OnePlace, AtWork, PhaseInv
<1>24. ASSUME Receive PROVE OnePlace'
  BY <1>24 DEF Receive, Answer, AnswerMessage, Attach, SetStatus, KeepStatus, TaOf,
         where, lists, data, banks, TypeOK, OnePlace, AtWork, PhaseInv
<1>25. ASSUME ReceiveAbort PROVE OnePlace'
  BY <1>25 DEF ReceiveAbort, Answer, AnswerMessage, Attach, SetStatus, KeepStatus,
         TaOf, EndJob, Failed, where, lists, data, banks, TypeOK, OnePlace, AtWork,
         PhaseInv
<1>26. ASSUME NoAnswer PROVE OnePlace'
  BY <1>26 DEF NoAnswer, EndJob, Failed, where, lists, data, banks, TypeOK, OnePlace,
         AtWork, PhaseInv
<1>27. ASSUME DialogJobAnswered PROVE OnePlace'
  BY <1>27 DEF DialogJobAnswered, where, lists, data, banks, TypeOK, OnePlace,
         AtWork, PhaseInv
<1>28. ASSUME DialogJobRefused PROVE OnePlace'
  BY <1>28 DEF DialogJobRefused, EndJob, Failed, where, lists, data, banks, TypeOK,
         OnePlace, AtWork, PhaseInv
<1>29. ASSUME NextMessage PROVE OnePlace'
  BY <1>29 DEF NextMessage, NeedsMore, where, lists, data, banks, TypeOK, OnePlace,
         AtWork, PhaseInv
<1>30. ASSUME NEW r \in {"ok", "error"}, JobDone(r) PROVE OnePlace'
  BY <1>30 DEF JobDone, EndJob, Failed, NeedsMore, where, lists, data, banks, TypeOK,
         OnePlace, AtWork, PhaseInv
<1>31. ASSUME NEW S \in SUBSET Job, NEW bad \in SUBSET S, Call(S, bad) PROVE OnePlace'
  BY <1>31 DEF Call, Sendable, where, lists, data, banks, TypeOK, OnePlace, AtWork,
         PhaseInv
<1>32. CASE UNCHANGED vars
  BY <1>32 DEF vars, where, lists, data, banks, where, lists, data, banks, TypeOK,
         OnePlace, AtWork, PhaseInv
<1> QED
  BY <1>1, <1>2, <1>3, <1>4, <1>5, <1>6, <1>7, <1>8, <1>9, <1>10, <1>11,
     <1>12, <1>13, <1>14, <1>15, <1>16, <1>17, <1>18, <1>19, <1>20, <1>21,
     <1>22, <1>23, <1>24, <1>25, <1>26, <1>27, <1>28, <1>29, <1>30, <1>31,
     <1>32
  DEF Next, Step, OutboxStep, DialogStep, JobStep


(* Each step finds what the step before it has left. *)
LEMMA PhaseStep ==
    ASSUME TypeOK, OnePlace, PhaseInv, [Next]_vars
    PROVE  PhaseInv'
<1> USE OutboxAssumption
<1>1. ASSUME LockUsers PROVE PhaseInv'
  BY <1>1 DEF LockUsers, where, lists, data, banks, TypeOK, OnePlace, AtWork,
         PhaseInv, InDialog, Classes, NoDialog, JobStatus
<1>2. ASSUME LockFails PROVE PhaseInv'
  BY <1>2 DEF LockFails, where, lists, data, banks, TypeOK, OnePlace, AtWork,
         PhaseInv, InDialog, Classes, NoDialog, JobStatus
<1>3. ASSUME LastBox PROVE PhaseInv'
  BY <1>3 DEF LastBox, where, lists, data, banks, TypeOK, OnePlace, AtWork,
         PhaseInv, InDialog, Classes, NoDialog, JobStatus
<1>4. ASSUME NextPass PROVE PhaseInv'
  BY <1>4 DEF NextPass, Matching, where, lists, data, banks, TypeOK, OnePlace,
         AtWork, PhaseInv, InDialog, Classes, NoDialog, JobStatus
<1>5. ASSUME NEW u \in User, StartBox(u) PROVE PhaseInv'
  BY <1>5 DEF StartBox, where, lists, data, banks, TypeOK, OnePlace, AtWork,
         PhaseInv, InDialog, Classes, NoDialog, JobStatus
<1>6. ASSUME FinishBox PROVE PhaseInv'
  BY <1>6 DEF FinishBox, where, lists, data, banks, TypeOK, OnePlace, AtWork,
         PhaseInv, InDialog, Classes, NoDialog, JobStatus
<1>7. ASSUME BoxDone PROVE PhaseInv'
  BY <1>7 DEF BoxDone, where, lists, data, banks, TypeOK, OnePlace, AtWork,
         PhaseInv, InDialog, Classes, NoDialog, JobStatus
<1>8. ASSUME SampleResults PROVE PhaseInv'
  BY <1>8 DEF SampleResults, Verdict, where, lists, data, banks, TypeOK, OnePlace,
         AtWork, PhaseInv, InDialog, Classes, NoDialog, JobStatus
<1>9. ASSUME NEW j \in Job, ProcessJob(j) PROVE PhaseInv'
  BY <1>9 DEF ProcessJob, SetStatus, KeepStatus, TaOf, where, lists, data, banks,
         TypeOK, OnePlace, AtWork, PhaseInv, InDialog, Classes, NoDialog,
         JobStatus
<1>10. ASSUME NEW j \in Job, TakeDialogJob(j) PROVE PhaseInv'
  BY <1>10 DEF TakeDialogJob, Take, Matching, where, lists, data, banks, TypeOK,
         OnePlace, AtWork, PhaseInv, InDialog, Classes, NoDialog, JobStatus
<1>11. ASSUME NEW j \in Job, TakeJob(j) PROVE PhaseInv'
  BY <1>11 DEF TakeJob, Take, Matching, where, lists, data, banks, TypeOK,
         OnePlace, AtWork, PhaseInv, InDialog, Classes, NoDialog, JobStatus
<1>12. ASSUME Connect PROVE PhaseInv'
  BY <1>12 DEF Connect, where, lists, data, banks, TypeOK, OnePlace, AtWork,
         PhaseInv, InDialog, Classes, NoDialog, JobStatus
<1>13. ASSUME OpenDialog PROVE PhaseInv'
  BY <1>13 DEF OpenDialog, where, lists, data, banks, TypeOK, OnePlace, AtWork,
         PhaseInv, InDialog, Classes, NoDialog, JobStatus
<1>14. ASSUME OpenDialogFails PROVE PhaseInv'
  BY <1>14 DEF OpenDialogFails, Matching, where, lists, data, banks, TypeOK, OnePlace,
         AtWork, PhaseInv, InDialog, Classes, NoDialog, JobStatus
<1>15. ASSUME CloseDialog PROVE PhaseInv'
  BY <1>15 DEF CloseDialog, where, lists, data, banks, TypeOK, OnePlace, AtWork,
         PhaseInv, InDialog, Classes, NoDialog, JobStatus
<1>16. ASSUME NEW r \in {"error", "abort"}, ConnectFails(r) PROVE PhaseInv'
  BY <1>16 DEF ConnectFails, EndJob, Failed, where, lists, data, banks, TypeOK, OnePlace,
         AtWork, PhaseInv, InDialog, Classes, NoDialog, JobStatus
<1>17. ASSUME NEW r \in {"ok", "error"}, CloseDialogOfJob(r) PROVE PhaseInv'
  BY <1>17 DEF CloseDialogOfJob, EndJob, Failed, where, lists, data, banks, TypeOK,
         OnePlace, AtWork, PhaseInv, InDialog, Classes, NoDialog, JobStatus
<1>18. ASSUME Prepare PROVE PhaseInv'
  BY <1>18 DEF Prepare, where, lists, data, banks, TypeOK, OnePlace, AtWork,
         PhaseInv, InDialog, Classes, NoDialog, JobStatus
<1>19. ASSUME PrepareFails PROVE PhaseInv'
  BY <1>19 DEF PrepareFails, EndJob, Failed, SetStatus, TaOf, where, lists, data, banks,
         TypeOK, OnePlace, AtWork, PhaseInv, InDialog, Classes, NoDialog,
         JobStatus
<1>20. ASSUME Encode PROVE PhaseInv'
  BY <1>20 DEF Encode, SetStatus, TaOf, where, lists, data, banks, TypeOK,
         OnePlace, AtWork, PhaseInv, InDialog, Classes, NoDialog, JobStatus
<1>21. ASSUME NEW st \in {"enqueued", "error"}, EncodeFails(st) PROVE PhaseInv'
  BY <1>21 DEF EncodeFails, EndJob, Failed, SetStatus, TaOf, where, lists, data, banks,
         TypeOK, OnePlace, AtWork, PhaseInv, InDialog, Classes, NoDialog,
         JobStatus
<1>22. ASSUME NEW v \in Verdicts, Send(v) PROVE PhaseInv'
  BY <1>22 DEF Send, SetStatus, TaOf, BankGets, Verdicts, where, lists, data,
         banks, TypeOK, OnePlace, AtWork, PhaseInv, InDialog, Classes,
         NoDialog, JobStatus
<1>23. ASSUME NEW r \in {"error", "abort"}, NEW arrived \in BOOLEAN,
                      SendFails(r, arrived) PROVE PhaseInv'
  BY <1>23 DEF SendFails, EndJob, Failed, BankGets, Verdicts, where, lists, data, banks,
         TypeOK, OnePlace, AtWork, PhaseInv, InDialog, Classes, NoDialog,
         JobStatus
<1>24. ASSUME Receive PROVE PhaseInv'
  BY <1>24 DEF Receive, Answer, AnswerMessage, Attach, SetStatus, KeepStatus, TaOf,
         where, lists, data, banks, TypeOK, OnePlace, AtWork, PhaseInv,
         InDialog, Classes, NoDialog, JobStatus
<1>25. ASSUME ReceiveAbort PROVE PhaseInv'
  BY <1>25 DEF ReceiveAbort, Answer, AnswerMessage, Attach, SetStatus, KeepStatus,
         TaOf, EndJob, Failed, where, lists, data, banks, TypeOK, OnePlace, AtWork,
         PhaseInv, InDialog, Classes, NoDialog, JobStatus
<1>26. ASSUME NoAnswer PROVE PhaseInv'
  BY <1>26 DEF NoAnswer, EndJob, Failed, where, lists, data, banks, TypeOK, OnePlace,
         AtWork, PhaseInv, InDialog, Classes, NoDialog, JobStatus
<1>27. ASSUME DialogJobAnswered PROVE PhaseInv'
  BY <1>27 DEF DialogJobAnswered, where, lists, data, banks, TypeOK, OnePlace,
         AtWork, PhaseInv, InDialog, Classes, NoDialog, JobStatus
<1>28. ASSUME DialogJobRefused PROVE PhaseInv'
  BY <1>28 DEF DialogJobRefused, EndJob, Failed, where, lists, data, banks, TypeOK,
         OnePlace, AtWork, PhaseInv, InDialog, Classes, NoDialog, JobStatus
<1>29. ASSUME NextMessage PROVE PhaseInv'
  BY <1>29 DEF NextMessage, NeedsMore, where, lists, data, banks, TypeOK, OnePlace,
         AtWork, PhaseInv, InDialog, Classes, NoDialog, JobStatus
<1>30. ASSUME NEW r \in {"ok", "error"}, JobDone(r) PROVE PhaseInv'
  BY <1>30 DEF JobDone, EndJob, Failed, NeedsMore, where, lists, data, banks, TypeOK,
         OnePlace, AtWork, PhaseInv, InDialog, Classes, NoDialog, JobStatus
<1>31. ASSUME NEW S \in SUBSET Job, NEW bad \in SUBSET S, Call(S, bad) PROVE PhaseInv'
  BY <1>31 DEF Call, Sendable, where, lists, data, banks, TypeOK, OnePlace, AtWork,
         PhaseInv, InDialog, Classes, NoDialog, JobStatus
<1>32. CASE UNCHANGED vars
  BY <1>32 DEF vars, where, lists, data, banks, where, lists, data, banks, TypeOK,
         OnePlace, AtWork, PhaseInv, InDialog, Classes, NoDialog, JobStatus
<1> QED
  BY <1>1, <1>2, <1>3, <1>4, <1>5, <1>6, <1>7, <1>8, <1>9, <1>10, <1>11,
     <1>12, <1>13, <1>14, <1>15, <1>16, <1>17, <1>18, <1>19, <1>20, <1>21,
     <1>22, <1>23, <1>24, <1>25, <1>26, <1>27, <1>28, <1>29, <1>30, <1>31,
     <1>32
  DEF Next, Step, OutboxStep, DialogStep, JobStep


(* A box at which something went wrong is left. *)
LEMMA FailedStep ==
    ASSUME TypeOK, OnePlace, PhaseInv, FailedInv, [Next]_vars
    PROVE  FailedInv'
<1> USE OutboxAssumption
<1>1. ASSUME LockUsers PROVE FailedInv'
  BY <1>1 DEF LockUsers, where, lists, data, banks, TypeOK, OnePlace, AtWork,
         PhaseInv, FailedInv, Sending
<1>2. ASSUME LockFails PROVE FailedInv'
  BY <1>2 DEF LockFails, where, lists, data, banks, TypeOK, OnePlace, AtWork,
         PhaseInv, FailedInv, Sending
<1>3. ASSUME LastBox PROVE FailedInv'
  BY <1>3 DEF LastBox, where, lists, data, banks, TypeOK, OnePlace, AtWork,
         PhaseInv, FailedInv, Sending
<1>4. ASSUME NextPass PROVE FailedInv'
  BY <1>4 DEF NextPass, Matching, where, lists, data, banks, TypeOK, OnePlace,
         AtWork, PhaseInv, FailedInv, Sending
<1>5. ASSUME NEW u \in User, StartBox(u) PROVE FailedInv'
  BY <1>5 DEF StartBox, where, lists, data, banks, TypeOK, OnePlace, AtWork,
         PhaseInv, FailedInv, Sending
<1>6. ASSUME FinishBox PROVE FailedInv'
  BY <1>6 DEF FinishBox, where, lists, data, banks, TypeOK, OnePlace, AtWork,
         PhaseInv, FailedInv, Sending
<1>7. ASSUME BoxDone PROVE FailedInv'
  BY <1>7 DEF BoxDone, where, lists, data, banks, TypeOK, OnePlace, AtWork,
         PhaseInv, FailedInv, Sending
<1>8. ASSUME SampleResults PROVE FailedInv'
  BY <1>8 DEF SampleResults, Verdict, where, lists, data, banks, TypeOK, OnePlace,
         AtWork, PhaseInv, FailedInv, Sending
<1>9. ASSUME NEW j \in Job, ProcessJob(j) PROVE FailedInv'
  BY <1>9 DEF ProcessJob, SetStatus, KeepStatus, TaOf, where, lists, data, banks,
         TypeOK, OnePlace, AtWork, PhaseInv, FailedInv, Sending
<1>10. ASSUME NEW j \in Job, TakeDialogJob(j) PROVE FailedInv'
  BY <1>10 DEF TakeDialogJob, Take, Matching, where, lists, data, banks, TypeOK,
         OnePlace, AtWork, PhaseInv, FailedInv, Sending
<1>11. ASSUME NEW j \in Job, TakeJob(j) PROVE FailedInv'
  BY <1>11 DEF TakeJob, Take, Matching, where, lists, data, banks, TypeOK,
         OnePlace, AtWork, PhaseInv, FailedInv, Sending
<1>12. ASSUME Connect PROVE FailedInv'
  BY <1>12 DEF Connect, where, lists, data, banks, TypeOK, OnePlace, AtWork,
         PhaseInv, FailedInv, Sending
<1>13. ASSUME OpenDialog PROVE FailedInv'
  BY <1>13 DEF OpenDialog, where, lists, data, banks, TypeOK, OnePlace, AtWork,
         PhaseInv, FailedInv, Sending
<1>14. ASSUME OpenDialogFails PROVE FailedInv'
  BY <1>14 DEF OpenDialogFails, Matching, where, lists, data, banks, TypeOK, OnePlace,
         AtWork, PhaseInv, FailedInv, Sending
<1>15. ASSUME CloseDialog PROVE FailedInv'
  BY <1>15 DEF CloseDialog, where, lists, data, banks, TypeOK, OnePlace, AtWork,
         PhaseInv, FailedInv, Sending
<1>16. ASSUME NEW r \in {"error", "abort"}, ConnectFails(r) PROVE FailedInv'
  BY <1>16 DEF ConnectFails, EndJob, Failed, where, lists, data, banks, TypeOK, OnePlace,
         AtWork, PhaseInv, FailedInv, Sending
<1>17. ASSUME NEW r \in {"ok", "error"}, CloseDialogOfJob(r) PROVE FailedInv'
  BY <1>17 DEF CloseDialogOfJob, EndJob, Failed, where, lists, data, banks, TypeOK,
         OnePlace, AtWork, PhaseInv, FailedInv, Sending
<1>18. ASSUME Prepare PROVE FailedInv'
  BY <1>18 DEF Prepare, where, lists, data, banks, TypeOK, OnePlace, AtWork,
         PhaseInv, FailedInv, Sending
<1>19. ASSUME PrepareFails PROVE FailedInv'
  BY <1>19 DEF PrepareFails, EndJob, Failed, SetStatus, TaOf, where, lists, data, banks,
         TypeOK, OnePlace, AtWork, PhaseInv, FailedInv, Sending
<1>20. ASSUME Encode PROVE FailedInv'
  BY <1>20 DEF Encode, SetStatus, TaOf, where, lists, data, banks, TypeOK,
         OnePlace, AtWork, PhaseInv, FailedInv, Sending
<1>21. ASSUME NEW st \in {"enqueued", "error"}, EncodeFails(st) PROVE FailedInv'
  BY <1>21 DEF EncodeFails, EndJob, Failed, SetStatus, TaOf, where, lists, data, banks,
         TypeOK, OnePlace, AtWork, PhaseInv, FailedInv, Sending
<1>22. ASSUME NEW v \in Verdicts, Send(v) PROVE FailedInv'
  BY <1>22 DEF Send, SetStatus, TaOf, BankGets, Verdicts, where, lists, data,
         banks, TypeOK, OnePlace, AtWork, PhaseInv, FailedInv, Sending
<1>23. ASSUME NEW r \in {"error", "abort"}, NEW arrived \in BOOLEAN,
                      SendFails(r, arrived) PROVE FailedInv'
  BY <1>23 DEF SendFails, EndJob, Failed, BankGets, Verdicts, where, lists, data, banks,
         TypeOK, OnePlace, AtWork, PhaseInv, FailedInv, Sending
<1>24. ASSUME Receive PROVE FailedInv'
  BY <1>24 DEF Receive, Answer, AnswerMessage, Attach, SetStatus, KeepStatus, TaOf,
         where, lists, data, banks, TypeOK, OnePlace, AtWork, PhaseInv,
         FailedInv, Sending
<1>25. ASSUME ReceiveAbort PROVE FailedInv'
  BY <1>25 DEF ReceiveAbort, Answer, AnswerMessage, Attach, SetStatus, KeepStatus,
         TaOf, EndJob, Failed, where, lists, data, banks, TypeOK, OnePlace, AtWork,
         PhaseInv, FailedInv, Sending
<1>26. ASSUME NoAnswer PROVE FailedInv'
  BY <1>26 DEF NoAnswer, EndJob, Failed, where, lists, data, banks, TypeOK, OnePlace,
         AtWork, PhaseInv, FailedInv, Sending
<1>27. ASSUME DialogJobAnswered PROVE FailedInv'
  BY <1>27 DEF DialogJobAnswered, where, lists, data, banks, TypeOK, OnePlace,
         AtWork, PhaseInv, FailedInv, Sending
<1>28. ASSUME DialogJobRefused PROVE FailedInv'
  BY <1>28 DEF DialogJobRefused, EndJob, Failed, where, lists, data, banks, TypeOK,
         OnePlace, AtWork, PhaseInv, FailedInv, Sending
<1>29. ASSUME NextMessage PROVE FailedInv'
  BY <1>29 DEF NextMessage, NeedsMore, where, lists, data, banks, TypeOK, OnePlace,
         AtWork, PhaseInv, FailedInv, Sending
<1>30. ASSUME NEW r \in {"ok", "error"}, JobDone(r) PROVE FailedInv'
  BY <1>30 DEF JobDone, EndJob, Failed, NeedsMore, where, lists, data, banks, TypeOK,
         OnePlace, AtWork, PhaseInv, FailedInv, Sending
<1>31. ASSUME NEW S \in SUBSET Job, NEW bad \in SUBSET S, Call(S, bad) PROVE FailedInv'
  BY <1>31 DEF Call, Sendable, where, lists, data, banks, TypeOK, OnePlace, AtWork,
         PhaseInv, FailedInv, Sending
<1>32. CASE UNCHANGED vars
  BY <1>32 DEF vars, where, lists, data, banks, where, lists, data, banks, TypeOK,
         OnePlace, AtWork, PhaseInv, FailedInv, Sending
<1> QED
  BY <1>1, <1>2, <1>3, <1>4, <1>5, <1>6, <1>7, <1>8, <1>9, <1>10, <1>11,
     <1>12, <1>13, <1>14, <1>15, <1>16, <1>17, <1>18, <1>19, <1>20, <1>21,
     <1>22, <1>23, <1>24, <1>25, <1>26, <1>27, <1>28, <1>29, <1>30, <1>31,
     <1>32
  DEF Next, Step, OutboxStep, DialogStep, JobStep


(* An order goes out once, and its results are those of the bank. *)
LEMMA OrderStep ==
    ASSUME TypeOK, OnePlace, PhaseInv, OrderInv, StatusInv, [Next]_vars
    PROVE  OrderInv'
<1> USE OutboxAssumption
<1>1. ASSUME LockUsers PROVE OrderInv'
  BY <1>1 DEF LockUsers, where, lists, data, banks, TypeOK, OnePlace, AtWork,
         PhaseInv, OrderInv, StatusInv, StatusOf, Order, Fresh
<1>2. ASSUME LockFails PROVE OrderInv'
  BY <1>2 DEF LockFails, where, lists, data, banks, TypeOK, OnePlace, AtWork,
         PhaseInv, OrderInv, StatusInv, StatusOf, Order, Fresh
<1>3. ASSUME LastBox PROVE OrderInv'
  BY <1>3 DEF LastBox, where, lists, data, banks, TypeOK, OnePlace, AtWork,
         PhaseInv, OrderInv, StatusInv, StatusOf, Order, Fresh
<1>4. ASSUME NextPass PROVE OrderInv'
  BY <1>4 DEF NextPass, Matching, where, lists, data, banks, TypeOK, OnePlace,
         AtWork, PhaseInv, OrderInv, StatusInv, StatusOf, Order, Fresh
<1>5. ASSUME NEW u \in User, StartBox(u) PROVE OrderInv'
  BY <1>5 DEF StartBox, where, lists, data, banks, TypeOK, OnePlace, AtWork,
         PhaseInv, OrderInv, StatusInv, StatusOf, Order, Fresh
<1>6. ASSUME FinishBox PROVE OrderInv'
  BY <1>6 DEF FinishBox, where, lists, data, banks, TypeOK, OnePlace, AtWork,
         PhaseInv, OrderInv, StatusInv, StatusOf, Order, Fresh
<1>7. ASSUME BoxDone PROVE OrderInv'
  BY <1>7 DEF BoxDone, where, lists, data, banks, TypeOK, OnePlace, AtWork,
         PhaseInv, OrderInv, StatusInv, StatusOf, Order, Fresh
<1>8. ASSUME SampleResults PROVE OrderInv'
  BY <1>8 DEF SampleResults, Verdict, where, lists, data, banks, TypeOK, OnePlace,
         AtWork, PhaseInv, OrderInv, StatusInv, StatusOf, Order, Fresh
<1>9. ASSUME NEW j \in Job, ProcessJob(j) PROVE OrderInv'
  BY <1>9 DEF ProcessJob, SetStatus, KeepStatus, TaOf, where, lists, data, banks,
         TypeOK, OnePlace, AtWork, PhaseInv, OrderInv, StatusInv, StatusOf,
         Order, Fresh
<1>10. ASSUME NEW j \in Job, TakeDialogJob(j) PROVE OrderInv'
  BY <1>10 DEF TakeDialogJob, Take, Matching, where, lists, data, banks, TypeOK,
         OnePlace, AtWork, PhaseInv, OrderInv, StatusInv, StatusOf, Order,
         Fresh
<1>11. ASSUME NEW j \in Job, TakeJob(j) PROVE OrderInv'
  BY <1>11 DEF TakeJob, Take, Matching, where, lists, data, banks, TypeOK,
         OnePlace, AtWork, PhaseInv, OrderInv, StatusInv, StatusOf, Order,
         Fresh
<1>12. ASSUME Connect PROVE OrderInv'
  BY <1>12 DEF Connect, where, lists, data, banks, TypeOK, OnePlace, AtWork,
         PhaseInv, OrderInv, StatusInv, StatusOf, Order, Fresh
<1>13. ASSUME OpenDialog PROVE OrderInv'
  BY <1>13 DEF OpenDialog, where, lists, data, banks, TypeOK, OnePlace, AtWork,
         PhaseInv, OrderInv, StatusInv, StatusOf, Order, Fresh
<1>14. ASSUME OpenDialogFails PROVE OrderInv'
  BY <1>14 DEF OpenDialogFails, Matching, where, lists, data, banks, TypeOK, OnePlace,
         AtWork, PhaseInv, OrderInv, StatusInv, StatusOf, Order, Fresh
<1>15. ASSUME CloseDialog PROVE OrderInv'
  BY <1>15 DEF CloseDialog, where, lists, data, banks, TypeOK, OnePlace, AtWork,
         PhaseInv, OrderInv, StatusInv, StatusOf, Order, Fresh
<1>16. ASSUME NEW r \in {"error", "abort"}, ConnectFails(r) PROVE OrderInv'
  BY <1>16 DEF ConnectFails, EndJob, Failed, where, lists, data, banks, TypeOK, OnePlace,
         AtWork, PhaseInv, OrderInv, StatusInv, StatusOf, Order, Fresh
<1>17. ASSUME NEW r \in {"ok", "error"}, CloseDialogOfJob(r) PROVE OrderInv'
  BY <1>17 DEF CloseDialogOfJob, EndJob, Failed, where, lists, data, banks, TypeOK,
         OnePlace, AtWork, PhaseInv, OrderInv, StatusInv, StatusOf, Order,
         Fresh
<1>18. ASSUME Prepare PROVE OrderInv'
  BY <1>18 DEF Prepare, where, lists, data, banks, TypeOK, OnePlace, AtWork,
         PhaseInv, OrderInv, StatusInv, StatusOf, Order, Fresh
<1>19. ASSUME PrepareFails PROVE OrderInv'
  BY <1>19 DEF PrepareFails, EndJob, Failed, SetStatus, TaOf, where, lists, data, banks,
         TypeOK, OnePlace, AtWork, PhaseInv, OrderInv, StatusInv, StatusOf,
         Order, Fresh
<1>20. ASSUME Encode PROVE OrderInv'
  BY <1>20 DEF Encode, SetStatus, TaOf, where, lists, data, banks, TypeOK,
         OnePlace, AtWork, PhaseInv, OrderInv, StatusInv, StatusOf, Order,
         Fresh
<1>21. ASSUME NEW st \in {"enqueued", "error"}, EncodeFails(st) PROVE OrderInv'
  BY <1>21 DEF EncodeFails, EndJob, Failed, SetStatus, TaOf, where, lists, data, banks,
         TypeOK, OnePlace, AtWork, PhaseInv, OrderInv, StatusInv, StatusOf,
         Order, Fresh
<1>22. ASSUME NEW v \in Verdicts, Send(v) PROVE OrderInv'
  BY <1>22 DEF Send, SetStatus, TaOf, BankGets, Verdicts, where, lists, data,
         banks, TypeOK, OnePlace, AtWork, PhaseInv, OrderInv, StatusInv,
         StatusOf, Order, Fresh
<1>23. ASSUME NEW r \in {"error", "abort"}, NEW arrived \in BOOLEAN,
                      SendFails(r, arrived) PROVE OrderInv'
  BY <1>23 DEF SendFails, EndJob, Failed, BankGets, Verdicts, where, lists, data, banks,
         TypeOK, OnePlace, AtWork, PhaseInv, OrderInv, StatusInv, StatusOf,
         Order, Fresh
<1>24. ASSUME Receive PROVE OrderInv'
  BY <1>24 DEF Receive, Answer, AnswerMessage, Attach, SetStatus, KeepStatus, TaOf,
         where, lists, data, banks, TypeOK, OnePlace, AtWork, PhaseInv,
         OrderInv, StatusInv, StatusOf, Order, Fresh
<1>25. ASSUME ReceiveAbort PROVE OrderInv'
  BY <1>25 DEF ReceiveAbort, Answer, AnswerMessage, Attach, SetStatus, KeepStatus,
         TaOf, EndJob, Failed, where, lists, data, banks, TypeOK, OnePlace, AtWork,
         PhaseInv, OrderInv, StatusInv, StatusOf, Order, Fresh
<1>26. ASSUME NoAnswer PROVE OrderInv'
  BY <1>26 DEF NoAnswer, EndJob, Failed, where, lists, data, banks, TypeOK, OnePlace,
         AtWork, PhaseInv, OrderInv, StatusInv, StatusOf, Order, Fresh
<1>27. ASSUME DialogJobAnswered PROVE OrderInv'
  BY <1>27 DEF DialogJobAnswered, where, lists, data, banks, TypeOK, OnePlace,
         AtWork, PhaseInv, OrderInv, StatusInv, StatusOf, Order, Fresh
<1>28. ASSUME DialogJobRefused PROVE OrderInv'
  BY <1>28 DEF DialogJobRefused, EndJob, Failed, where, lists, data, banks, TypeOK,
         OnePlace, AtWork, PhaseInv, OrderInv, StatusInv, StatusOf, Order,
         Fresh
<1>29. ASSUME NextMessage PROVE OrderInv'
  BY <1>29 DEF NextMessage, NeedsMore, where, lists, data, banks, TypeOK, OnePlace,
         AtWork, PhaseInv, OrderInv, StatusInv, StatusOf, Order, Fresh
<1>30. ASSUME NEW r \in {"ok", "error"}, JobDone(r) PROVE OrderInv'
  BY <1>30 DEF JobDone, EndJob, Failed, NeedsMore, where, lists, data, banks, TypeOK,
         OnePlace, AtWork, PhaseInv, OrderInv, StatusInv, StatusOf, Order,
         Fresh
<1>31. ASSUME NEW S \in SUBSET Job, NEW bad \in SUBSET S, Call(S, bad) PROVE OrderInv'
  BY <1>31 DEF Call, Sendable, where, lists, data, banks, TypeOK, OnePlace, AtWork,
         PhaseInv, OrderInv, StatusInv, StatusOf, Order, Fresh
<1>32. CASE UNCHANGED vars
  BY <1>32 DEF vars, where, lists, data, banks, where, lists, data, banks, TypeOK,
         OnePlace, AtWork, PhaseInv, OrderInv, StatusInv, StatusOf, Order,
         Fresh
<1> QED
  BY <1>1, <1>2, <1>3, <1>4, <1>5, <1>6, <1>7, <1>8, <1>9, <1>10, <1>11,
     <1>12, <1>13, <1>14, <1>15, <1>16, <1>17, <1>18, <1>19, <1>20, <1>21,
     <1>22, <1>23, <1>24, <1>25, <1>26, <1>27, <1>28, <1>29, <1>30, <1>31,
     <1>32
  DEF Next, Step, OutboxStep, DialogStep, JobStep


(* The status of an order says no more than the bank has said. *)
LEMMA StatusStep ==
    ASSUME TypeOK, OnePlace, PhaseInv, OrderInv, StatusInv, [Next]_vars
    PROVE  StatusInv'
<1> USE OutboxAssumption
<1>1. ASSUME LockUsers PROVE StatusInv'
  BY <1>1 DEF LockUsers, where, lists, data, banks, TypeOK, OnePlace, AtWork,
         PhaseInv, OrderInv, StatusInv, StatusOf, Order, Fresh
<1>2. ASSUME LockFails PROVE StatusInv'
  BY <1>2 DEF LockFails, where, lists, data, banks, TypeOK, OnePlace, AtWork,
         PhaseInv, OrderInv, StatusInv, StatusOf, Order, Fresh
<1>3. ASSUME LastBox PROVE StatusInv'
  BY <1>3 DEF LastBox, where, lists, data, banks, TypeOK, OnePlace, AtWork,
         PhaseInv, OrderInv, StatusInv, StatusOf, Order, Fresh
<1>4. ASSUME NextPass PROVE StatusInv'
  BY <1>4 DEF NextPass, Matching, where, lists, data, banks, TypeOK, OnePlace,
         AtWork, PhaseInv, OrderInv, StatusInv, StatusOf, Order, Fresh
<1>5. ASSUME NEW u \in User, StartBox(u) PROVE StatusInv'
  BY <1>5 DEF StartBox, where, lists, data, banks, TypeOK, OnePlace, AtWork,
         PhaseInv, OrderInv, StatusInv, StatusOf, Order, Fresh
<1>6. ASSUME FinishBox PROVE StatusInv'
  BY <1>6 DEF FinishBox, where, lists, data, banks, TypeOK, OnePlace, AtWork,
         PhaseInv, OrderInv, StatusInv, StatusOf, Order, Fresh
<1>7. ASSUME BoxDone PROVE StatusInv'
  BY <1>7 DEF BoxDone, where, lists, data, banks, TypeOK, OnePlace, AtWork,
         PhaseInv, OrderInv, StatusInv, StatusOf, Order, Fresh
<1>8. ASSUME SampleResults PROVE StatusInv'
  <2> SUFFICES ASSUME NEW j \in Order PROVE StatusOf(j)'
    BY <1>8 DEF StatusInv, StatusOf
  <2>1. j \in Job /\ Class[j] # 0
    BY DEF Order
  <2>2. CASE j \in outFinished
    <3>1. taStatus'[j] = Verdict(j)
      BY <1>8, <2>1, <2>2 DEF SampleResults
    <3>2. results[j] \subseteq Verdicts /\ results[j] \subseteq {bank[j]}
      BY <2>1 DEF TypeOK, OrderInv
    <3> QED
      BY <1>8, <2>1, <2>2, <3>1, <3>2
      DEF SampleResults, Verdict, Verdicts, where, lists, banks, TypeOK,
          OnePlace, AtWork, StatusOf
  <2>3. CASE j \notin outFinished
    BY <1>8, <2>1, <2>3
    DEF SampleResults, where, lists, banks, TypeOK, OnePlace, AtWork,
        PhaseInv, StatusInv, StatusOf
  <2> QED
    BY <2>2, <2>3
<1>9. ASSUME NEW j \in Job, ProcessJob(j) PROVE StatusInv'
  BY <1>9 DEF ProcessJob, SetStatus, KeepStatus, TaOf, where, lists, data, banks,
         TypeOK, OnePlace, AtWork, PhaseInv, OrderInv, StatusInv, StatusOf,
         Order, Fresh
<1>10. ASSUME NEW j \in Job, TakeDialogJob(j) PROVE StatusInv'
  BY <1>10 DEF TakeDialogJob, Take, Matching, where, lists, data, banks, TypeOK,
         OnePlace, AtWork, PhaseInv, OrderInv, StatusInv, StatusOf, Order,
         Fresh
<1>11. ASSUME NEW j \in Job, TakeJob(j) PROVE StatusInv'
  BY <1>11 DEF TakeJob, Take, Matching, where, lists, data, banks, TypeOK,
         OnePlace, AtWork, PhaseInv, OrderInv, StatusInv, StatusOf, Order,
         Fresh
<1>12. ASSUME Connect PROVE StatusInv'
  BY <1>12 DEF Connect, where, lists, data, banks, TypeOK, OnePlace, AtWork,
         PhaseInv, OrderInv, StatusInv, StatusOf, Order, Fresh
<1>13. ASSUME OpenDialog PROVE StatusInv'
  BY <1>13 DEF OpenDialog, where, lists, data, banks, TypeOK, OnePlace, AtWork,
         PhaseInv, OrderInv, StatusInv, StatusOf, Order, Fresh
<1>14. ASSUME OpenDialogFails PROVE StatusInv'
  BY <1>14 DEF OpenDialogFails, Matching, where, lists, data, banks, TypeOK, OnePlace,
         AtWork, PhaseInv, OrderInv, StatusInv, StatusOf, Order, Fresh
<1>15. ASSUME CloseDialog PROVE StatusInv'
  BY <1>15 DEF CloseDialog, where, lists, data, banks, TypeOK, OnePlace, AtWork,
         PhaseInv, OrderInv, StatusInv, StatusOf, Order, Fresh
<1>16. ASSUME NEW r \in {"error", "abort"}, ConnectFails(r) PROVE StatusInv'
  BY <1>16 DEF ConnectFails, EndJob, Failed, where, lists, data, banks, TypeOK, OnePlace,
         AtWork, PhaseInv, OrderInv, StatusInv, StatusOf, Order, Fresh
<1>17. ASSUME NEW r \in {"ok", "error"}, CloseDialogOfJob(r) PROVE StatusInv'
  BY <1>17 DEF CloseDialogOfJob, EndJob, Failed, where, lists, data, banks, TypeOK,
         OnePlace, AtWork, PhaseInv, OrderInv, StatusInv, StatusOf, Order,
         Fresh
<1>18. ASSUME Prepare PROVE StatusInv'
  BY <1>18 DEF Prepare, where, lists, data, banks, TypeOK, OnePlace, AtWork,
         PhaseInv, OrderInv, StatusInv, StatusOf, Order, Fresh
<1>19. ASSUME PrepareFails PROVE StatusInv'
  BY <1>19 DEF PrepareFails, EndJob, Failed, SetStatus, TaOf, where, lists, data, banks,
         TypeOK, OnePlace, AtWork, PhaseInv, OrderInv, StatusInv, StatusOf,
         Order, Fresh
<1>20. ASSUME Encode PROVE StatusInv'
  BY <1>20 DEF Encode, SetStatus, TaOf, where, lists, data, banks, TypeOK,
         OnePlace, AtWork, PhaseInv, OrderInv, StatusInv, StatusOf, Order,
         Fresh
<1>21. ASSUME NEW st \in {"enqueued", "error"}, EncodeFails(st) PROVE StatusInv'
  BY <1>21 DEF EncodeFails, EndJob, Failed, SetStatus, TaOf, where, lists, data, banks,
         TypeOK, OnePlace, AtWork, PhaseInv, OrderInv, StatusInv, StatusOf,
         Order, Fresh
<1>22. ASSUME NEW v \in Verdicts, Send(v) PROVE StatusInv'
  BY <1>22 DEF Send, SetStatus, TaOf, BankGets, Verdicts, where, lists, data,
         banks, TypeOK, OnePlace, AtWork, PhaseInv, OrderInv, StatusInv,
         StatusOf, Order, Fresh
<1>23. ASSUME NEW r \in {"error", "abort"}, NEW arrived \in BOOLEAN,
                      SendFails(r, arrived) PROVE StatusInv'
  BY <1>23 DEF SendFails, EndJob, Failed, BankGets, Verdicts, where, lists, data, banks,
         TypeOK, OnePlace, AtWork, PhaseInv, OrderInv, StatusInv, StatusOf,
         Order, Fresh
<1>24. ASSUME Receive PROVE StatusInv'
  BY <1>24 DEF Receive, Answer, AnswerMessage, Attach, SetStatus, KeepStatus, TaOf,
         where, lists, data, banks, TypeOK, OnePlace, AtWork, PhaseInv,
         OrderInv, StatusInv, StatusOf, Order, Fresh
<1>25. ASSUME ReceiveAbort PROVE StatusInv'
  BY <1>25 DEF ReceiveAbort, Answer, AnswerMessage, Attach, SetStatus, KeepStatus,
         TaOf, EndJob, Failed, where, lists, data, banks, TypeOK, OnePlace, AtWork,
         PhaseInv, OrderInv, StatusInv, StatusOf, Order, Fresh
<1>26. ASSUME NoAnswer PROVE StatusInv'
  BY <1>26 DEF NoAnswer, EndJob, Failed, where, lists, data, banks, TypeOK, OnePlace,
         AtWork, PhaseInv, OrderInv, StatusInv, StatusOf, Order, Fresh
<1>27. ASSUME DialogJobAnswered PROVE StatusInv'
  BY <1>27 DEF DialogJobAnswered, where, lists, data, banks, TypeOK, OnePlace,
         AtWork, PhaseInv, OrderInv, StatusInv, StatusOf, Order, Fresh
<1>28. ASSUME DialogJobRefused PROVE StatusInv'
  BY <1>28 DEF DialogJobRefused, EndJob, Failed, where, lists, data, banks, TypeOK,
         OnePlace, AtWork, PhaseInv, OrderInv, StatusInv, StatusOf, Order,
         Fresh
<1>29. ASSUME NextMessage PROVE StatusInv'
  BY <1>29 DEF NextMessage, NeedsMore, where, lists, data, banks, TypeOK, OnePlace,
         AtWork, PhaseInv, OrderInv, StatusInv, StatusOf, Order, Fresh
<1>30. ASSUME NEW r \in {"ok", "error"}, JobDone(r) PROVE StatusInv'
  BY <1>30 DEF JobDone, EndJob, Failed, NeedsMore, where, lists, data, banks, TypeOK,
         OnePlace, AtWork, PhaseInv, OrderInv, StatusInv, StatusOf, Order,
         Fresh
<1>31. ASSUME NEW S \in SUBSET Job, NEW bad \in SUBSET S, Call(S, bad) PROVE StatusInv'
  BY <1>31 DEF Call, Sendable, where, lists, data, banks, TypeOK, OnePlace, AtWork,
         PhaseInv, OrderInv, StatusInv, StatusOf, Order, Fresh
<1>32. CASE UNCHANGED vars
  BY <1>32 DEF vars, where, lists, data, banks, where, lists, data, banks, TypeOK,
         OnePlace, AtWork, PhaseInv, OrderInv, StatusInv, StatusOf, Order,
         Fresh
<1> QED
  BY <1>1, <1>2, <1>3, <1>4, <1>5, <1>6, <1>7, <1>8, <1>9, <1>10, <1>11,
     <1>12, <1>13, <1>14, <1>15, <1>16, <1>17, <1>18, <1>19, <1>20, <1>21,
     <1>22, <1>23, <1>24, <1>25, <1>26, <1>27, <1>28, <1>29, <1>30, <1>31,
     <1>32
  DEF Next, Step, OutboxStep, DialogStep, JobStep


(* The invariant holds initially. *)
LEMMA InitInv == Init => IInv
<1> USE OutboxAssumption
<1> SUFFICES ASSUME Init PROVE IInv
  OBVIOUS
<1>1. TypeOK
  BY DEF Init, TypeOK, PC, JobStatus, TaStatus, Verdicts, Classes, NoDialog
<1>2. OnePlace /\ PhaseInv /\ FailedInv
  BY DEF Init, OnePlace, PhaseInv, FailedInv, Sending, AtWork, InDialog
<1>3. OrderInv /\ StatusInv
  BY DEF Init, OrderInv, StatusInv, StatusOf, Order, Fresh
<1> QED
  BY <1>1, <1>2, <1>3 DEF IInv

(* The outbox keeps its invariant IInv: the types, one place for each job,   *)
(* what holds at each place of the program, and that orders are sent once    *)
(* and their status is what the bank said (outbox.c, cbox_queue.c).          *)
THEOREM Invariant == Spec => []IInv
<1>1. Init => IInv
  BY InitInv
<1>2. IInv /\ [Next]_vars => IInv'
  BY TypeStep, PlaceStep, PhaseStep, FailedStep, OrderStep, StatusStep DEF IInv
<1> QED
  BY <1>1, <1>2, PTL DEF Spec

(* No job is in two of the outbox's lists, or lost while it is at work.      *)
THEOREM JobsHaveOnePlace == Spec => []OnePlace
<1>1. IInv => OnePlace
  BY DEF IInv
<1> QED
  BY <1>1, Invariant, PTL

(* A job goes out only in a dialog opened with its flags, and no dialog      *)
(* outlives its box (_sendMatchingNonDialogJobs(), _sendDialogJob()).        *)
THEOREM DialogDiscipline == Spec => []RightDialog
<1>1. IInv => RightDialog
  BY DEF IInv, PhaseInv, InDialog, AtWork, RightDialog
<1> QED
  BY <1>1, Invariant, PTL

(* As long as the outbox goes on with the jobs of a user, nothing has gone   *)
(* wrong at any job of that user in this call: no answer was lost, no dialog *)
(* refused or ended by the bank, and the jobs dealt with were all sent.      *)
THEOREM FailureStopsBox == Spec => []StopsOnFailure
<1>1. IInv => StopsOnFailure
  BY DEF IInv, FailedInv, Sending, AtWork, StopsOnFailure
<1> QED
  BY <1>1, Invariant, PTL

(* However often the application calls SendCommands with the transaction of  *)
(* an order, the bank gets the order at most once.                           *)
THEOREM AtMostOnce == Spec => []OrderSentOnce
<1>1. IInv => OrderSentOnce
  BY DEF IInv, OrderInv, OrderSentOnce
<1> QED
  BY <1>1, Invariant, PTL

(* Accepted, pending and rejected are what the bank made of an order.        *)
THEOREM StatusIsTrue == Spec => []ReportedTruly
<1>1. IInv => ReportedTruly
  BY DEF IInv, StatusInv, StatusOf, ReportedTruly
<1> QED
  BY <1>1, Invariant, PTL

-----------------------------------------------------------------------------
(* The refinement of JobDelivery.                                           *)

(* Steps that move no job between the lists, and send none.                 *)
LEMMA MovesNothing ==
    ASSUME busy' = busy, todo' = todo, got' = got,
           finished' \cup outFinished' = finished \cup outFinished
    PROVE  [Delivery!Next]_<<[j \in Job |-> Place(j)], got>>
<1>1. \A j \in Job : Place(j)' = Place(j)
  BY DEF Place
<1> QED
  BY <1>1

(* Steps that send the job at work, or give it back, or both.               *)
LEMMA WorksOnJob ==
    ASSUME TypeOK, OnePlace, pc \in AtWork,
           todo' = todo, outFinished' = outFinished,
           \/ busy' = busy /\ finished' = finished
           \/ busy' = NoJob /\ finished' = finished \cup {busy},
           NEW n \in {0, 1}, got' = [got EXCEPT ![busy] = @ + n]
    PROVE  Delivery!Next
<1> USE OutboxAssumption
<1> DEFINE st == [j \in Job |-> Place(j)]
<1>1. PICK b \in Job : b = busy
  BY DEF TypeOK, OnePlace
<1>2. st[b] = "active"
  BY <1>1 DEF Place
<1>3. Place(b)' \in {"active", "finished"}
  BY <1>1 DEF Place, OnePlace
<1>4. \A j \in Job \ {b} : Place(j)' = Place(j)
  BY <1>1 DEF Place
<1>5. st' = [st EXCEPT ![b] = Place(b)']
  BY <1>1, <1>4
<1>6. Delivery!Work(b)
  BY <1>1, <1>2, <1>3, <1>5 DEF Delivery!Work
<1> QED
  BY <1>6 DEF Delivery!Next

(* Steps that take a job out of its list.                                   *)
LEMMA TakesJob ==
    ASSUME TypeOK, OnePlace, pc \notin AtWork, NEW j \in Job, Take(j)
    PROVE  Delivery!Next
<1> USE OutboxAssumption
<1> DEFINE st == [i \in Job |-> Place(i)]
<1>1. busy = NoJob /\ j \in todo /\ busy' = j
  BY DEF OnePlace, Take, Matching
<1>2. Delivery!Idle /\ st[j] = "waiting"
  BY <1>1 DEF Delivery!Idle, Place
<1>3. \A i \in Job : Place(i)' = IF i = j THEN "active" ELSE Place(i)
  BY <1>1 DEF Take, Place, lists
<1>4. st' = [st EXCEPT ![j] = "active"]
  BY <1>3
<1>5. Delivery!Take(j)
  BY <1>2, <1>4 DEF Delivery!Take, Take, banks
<1> QED
  BY <1>5 DEF Delivery!Next

(* The box gives back what it has not sent.                                 *)
LEMMA SkipsJobs ==
    ASSUME TypeOK, OnePlace, FinishBox
    PROVE  Delivery!Next
<1> USE OutboxAssumption
<1> DEFINE st == [i \in Job |-> Place(i)]
           S  == {i \in todo : UserOf[i] = box}
<1>1. busy = NoJob /\ busy' = busy
  BY DEF OnePlace, FinishBox, AtWork
<1>2. Delivery!Idle /\ \A i \in S : st[i] = "waiting"
  BY <1>1 DEF Delivery!Idle, Place, TypeOK
<1>3. \A i \in Job : Place(i)' = IF i \in S THEN "finished" ELSE Place(i)
  BY <1>1 DEF FinishBox, Place, OnePlace
<1>4. Delivery!Skip(S)
  BY <1>2, <1>3 DEF Delivery!Skip, FinishBox, banks
<1>5. S \in SUBSET Job
  BY DEF TypeOK
<1> QED
  BY <1>4, <1>5 DEF Delivery!Next

(* A call begins with an outbox of its own.                                 *)
LEMMA BeginsCall ==
    ASSUME TypeOK, OnePlace, NEW S \in SUBSET Job, NEW bad \in SUBSET S,
           Call(S, bad)
    PROVE  Delivery!Next
<1> USE OutboxAssumption
<1>1. busy = NoJob /\ busy' = busy
  BY DEF OnePlace, Call, AtWork
<1>2. Delivery!Idle
  BY <1>1 DEF Delivery!Idle, Place
<1>3. \A i \in Job : Place(i)' = IF i \in S \ bad THEN "waiting" ELSE "outside"
  BY <1>1 DEF Call, Place
<1>4. Delivery!Begin(S \ bad)
  BY <1>2, <1>3 DEF Delivery!Begin, Call, banks
<1>5. S \ bad \in SUBSET Job
  OBVIOUS
<1> QED
  BY <1>4, <1>5 DEF Delivery!Next

(* Every step of the outbox is a step of JobDelivery, or none.              *)
LEMMA DeliveryStep ==
    ASSUME TypeOK, OnePlace, PhaseInv, [Next]_vars
    PROVE  [Delivery!Next]_<<[j \in Job |-> Place(j)], got>>
<1> USE OutboxAssumption
<1> DEFINE Goal == [Delivery!Next]_<<[j \in Job |-> Place(j)], got>>
<1>1. CASE UNCHANGED vars
  BY <1>1, MovesNothing DEF vars, lists, banks
<1>2. ASSUME NEW S \in SUBSET Job, NEW bad \in SUBSET S, Call(S, bad)
      PROVE  Goal
  BY <1>2, BeginsCall
<1>3. CASE OutboxStep
  <2>1. CASE FinishBox
    BY <2>1, SkipsJobs
  <2>2. ASSUME NEW j \in Job, ProcessJob(j) PROVE Goal
    <3>1. finished' \cup outFinished' = finished \cup outFinished
      BY <2>2 DEF ProcessJob
    <3> QED
      BY <2>2, <3>1, MovesNothing DEF ProcessJob, banks
  <2>3. CASE \/ LockUsers \/ LockFails \/ LastBox \/ NextPass \/ BoxDone
             \/ SampleResults \/ \E u \in User : StartBox(u)
    BY <2>3, MovesNothing
    DEF LockUsers, LockFails, LastBox, NextPass, BoxDone, SampleResults,
        StartBox, lists, banks
  <2> QED
    BY <1>3, <2>1, <2>2, <2>3 DEF OutboxStep
<1>4. CASE DialogStep
  <2>1. ASSUME NEW j \in Job, TakeDialogJob(j) \/ TakeJob(j) PROVE Goal
    BY <2>1, TakesJob DEF TakeDialogJob, TakeJob, AtWork
  <2>2. CASE Connect \/ OpenDialog \/ OpenDialogFails \/ CloseDialog
    BY <2>2, MovesNothing
    DEF Connect, OpenDialog, OpenDialogFails, CloseDialog, lists, banks
  <2>3. ASSUME NEW r, ConnectFails(r) \/ CloseDialogOfJob(r) PROVE Goal
    <3>1. got' = [got EXCEPT ![busy] = @ + 0]
      BY <2>3 DEF ConnectFails, CloseDialogOfJob, banks, TypeOK
    <3> QED
      BY <2>3, <3>1, WorksOnJob
      DEF ConnectFails, CloseDialogOfJob, EndJob, Failed, AtWork
  <2> QED
    BY <1>4, <2>1, <2>2, <2>3 DEF DialogStep
<1>5. CASE JobStep
  <2>1. CASE Prepare \/ Encode \/ Receive \/ DialogJobAnswered \/ NextMessage
    BY <2>1, MovesNothing
    DEF Prepare, Encode, Receive, DialogJobAnswered, NextMessage, lists, banks
  <2>2. ASSUME NEW v \in Verdicts, Send(v) PROVE Goal
    BY <2>2, WorksOnJob DEF Send, BankGets, lists, AtWork
  <2>3. ASSUME NEW r \in {"error", "abort"}, NEW arrived \in BOOLEAN,
               SendFails(r, arrived)
        PROVE  Goal
    <3>1. CASE arrived
      BY <2>3, <3>1, WorksOnJob DEF SendFails, BankGets, EndJob, Failed, AtWork
    <3>2. CASE ~arrived
      <4>1. got' = [got EXCEPT ![busy] = @ + 0]
        BY <2>3, <3>2 DEF SendFails, banks, TypeOK
      <4> QED
        BY <2>3, <4>1, WorksOnJob DEF SendFails, EndJob, Failed, AtWork
    <3> QED
      BY <3>1, <3>2
  <2>4. ASSUME NEW r, NEW st,
               \/ PrepareFails \/ EncodeFails(st) \/ ReceiveAbort \/ NoAnswer
               \/ DialogJobRefused \/ JobDone(r)
        PROVE  Goal
    <3>1. got' = [got EXCEPT ![busy] = @ + 0]
      BY <2>4
      DEF PrepareFails, EncodeFails, ReceiveAbort, NoAnswer, DialogJobRefused,
          JobDone, banks, TypeOK
    <3>2. pc \in AtWork
      BY <2>4
      DEF PrepareFails, EncodeFails, ReceiveAbort, NoAnswer, DialogJobRefused,
          JobDone, AtWork
    <3>3. \E s : EndJob(s)
      BY <2>4
      DEF PrepareFails, EncodeFails, ReceiveAbort, NoAnswer, DialogJobRefused,
          JobDone
    <3> QED
      BY <3>1, <3>2, <3>3, WorksOnJob DEF EndJob, Failed
  <2> QED
    BY <1>5, <2>1, <2>2, <2>3, <2>4 DEF JobStep
<1> QED
  BY <1>1, <1>2, <1>3, <1>4, <1>5 DEF Next, Step

(* The outbox keeps what JobDelivery promises: one job at a time, only that  *)
(* job reaches the bank, and a job given back is not touched again.          *)
THEOREM Refinement == Spec => ImplementsDelivery
<1>1. Init => Delivery!Init
  BY OutboxAssumption DEF Init, Delivery!Init, Place
<1>2. IInv /\ [Next]_vars
        => [Delivery!Next]_<<[j \in Job |-> Place(j)], got>>
  BY DeliveryStep DEF IInv
<1> QED
  BY <1>1, <1>2, Invariant, PTL DEF Spec, ImplementsDelivery, Delivery!Spec
=============================================================================
