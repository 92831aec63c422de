---------------------------- MODULE SendCommands ----------------------------
(***************************************************************************)
(* AB_Banking_SendCommands(): the commands of an application on their way  *)
(* to the backends that need no dialog with the bank: aqofxconnect,        *)
(* aqpaypal and aqebics (Outbox takes over for aqhbci).                    *)
(*                                                                         *)
(*   sort       every command is put into the queue of its account;        *)
(*   byProvider the account queues are sorted by backend;                  *)
(*   providers  one backend after the other is used;                       *)
(*   byUser     it sorts its account queues by user;                       *)
(*   users      one user after the other is locked;                        *)
(*   collect    the commands of an account become the list of jobs to send *)
(*              (AO_Provider__AddJobToList2()): a job that asks for what   *)
(*              another one will get is not sent, but refers to the other; *)
(*   send       the jobs are sent, until one is aborted;                   *)
(*   finish     a job that refers to another one is given its status.      *)
(*                                                                         *)
(* Only the first two phases return an error to the application: what goes *)
(* wrong later is written to a log.                                        *)
(***************************************************************************)
EXTENDS Integers, Sequences

CONSTANTS
    NumJobs,    \* length of the list of commands; its members are 1..NumJobs
    Account, User, Provider,
    NoAccount,  \* the account of a command without a unique account id
    UserOf,     \* user of an account
    ProviderOf, \* backend of an account
    Kind,       \* which backend a provider is
    LastDate,   \* dates are 1..LastDate; 0: none
    Period,     \* what requests for transactions ask for: first and last date
    Fault,      \* what goes wrong, a set of members of AllFaults
    MaxFault    \* bound: number of steps at which something goes wrong

AllFaults == {"noSpec", "noProvider", "noAccount", "noLock", "noSecrets",
              "noUnlock", "noDetails"}
Backend   == {"aqofxconnect", "aqpaypal", "aqebics"}

ASSUME SendCommandsAssumption ==
    /\ NumJobs \in Nat /\ LastDate \in Nat /\ MaxFault \in Nat
    /\ NoAccount \notin Account
    /\ UserOf \in [Account -> User]
    /\ ProviderOf \in [Account -> Provider]
    /\ Kind \in [Provider -> Backend]
    /\ Fault \subseteq AllFaults
    /\ Period \subseteq (0..LastDate) \X (0..LastDate)
    \* A user is one backend's, and so are its accounts.
    /\ \A a, b \in Account : UserOf[a] = UserOf[b] => ProviderOf[a] = ProviderOf[b]

VARIABLES
    account, command,       \* the commands: what the application asks for ...
    from, to,               \* ... and the days it asks for, or 0
    status, ref,            \* what it is told; the job a job refers to, or 0
    next,                   \* next command to be sorted
    accountQueues,          \* accounts whose queues have no backend yet
    queue,                  \* the queue of an account
    providerQueues,         \* backends yet to be used
    accountsOf,             \* accounts in the queue of a backend
    userQueues,             \* users yet to be served by the current backend
    accountsFor,            \* accounts in the queue of a user
    toSend,                 \* jobs to be sent for the current account
    i,                      \* position in the list that is being worked on
    pc,                     \* phase
    locked,                 \* users locked by this program
    stuck,                  \* history: users whose release has failed
    rv,                     \* value returned to the application
    reported,               \* jobs of which the context has a copy marked wrong
    answered,               \* history: jobs the bank has answered
    asked,                  \* history: jobs that were sent
    faults, aborted         \* faults so far; has somebody aborted a job?

commands == <<account, command, from, to>>
queues   == <<accountQueues, queue, providerQueues, accountsOf, userQueues,
              accountsFor>>
locks    == <<locked, stuck>>
history  == <<reported, answered, asked, faults, aborted>>
vars     == <<commands, status, ref, next, queues, toSend, i, pc, locks, rv,
              history>>

-----------------------------------------------------------------------------
Job     == 1..NumJobs
Command == {"balance", "transactions", "transfer"}
Final   == {"accepted", "rejected", "error", "aborted"}
Status  == {"none", "enqueued", "sending"} \cup Final
Phase   == {"sort", "byProvider", "providers", "byUser", "users", "accounts",
            "collect", "send", "finish", "endProvider", "done"}
Waiting == {"none", "enqueued"}

InSeq(s)      == {s[k] : k \in DOMAIN s}
Earliest(I)   == CHOOSE k \in I : \A l \in I : k <= l
Without(s, k) == SubSeq(s, 1, k - 1) \o SubSeq(s, k + 1, Len(s))
\* A queue is appended to a list unless it is there.
Listed(s, x)  == IF x \in InSeq(s) THEN s ELSE Append(s, x)
Fails(f)      == f \in Fault /\ faults < MaxFault /\ faults' = faults + 1

Init ==
    /\ account \in [Job -> Account \cup {NoAccount}]
    /\ command \in [Job -> Command]
    /\ \E period \in [Job -> Period \cup {<<0, 0>>}] :
          /\ \A j \in Job : IF command[j] = "transactions" THEN period[j] \in Period
                                                          ELSE period[j] = <<0, 0>>
          /\ from = [j \in Job |-> period[j][1]]
          /\ to = [j \in Job |-> period[j][2]]
    /\ status \in [Job -> {"none", "accepted"}]
    /\ ref = [j \in Job |-> 0]
    /\ next = 1
    /\ accountQueues = <<>> /\ providerQueues = <<>> /\ userQueues = <<>>
    /\ queue = [a \in Account |-> <<>>]
    /\ accountsOf = [p \in Provider |-> <<>>]
    /\ accountsFor = [u \in User |-> <<>>]
    /\ toSend = <<>>
    /\ i = 1
    /\ pc = "sort"
    /\ locked = {} /\ stuck = {}
    /\ rv = "none"
    /\ reported = {} /\ answered = {} /\ asked = {}
    /\ faults = 0
    /\ aborted = FALSE

-----------------------------------------------------------------------------
(* _sendCommandsInsideProgress().                                          *)

Return(r) == pc' = "done" /\ rv' = r

\* A command with a status of its own is left out.
Sort ==
    /\ pc = "sort"
    /\ next <= NumJobs
    /\ status[next] \in Waiting => account[next] # NoAccount
    /\ next' = next + 1
    /\ IF status[next] \in Waiting
         THEN LET a == account[next] IN
              /\ accountQueues' = Listed(accountQueues, a)
              /\ queue' = [queue EXCEPT ![a] = Append(@, next)]
              /\ status' = [status EXCEPT ![next] = "enqueued"]
              /\ ref' = [ref EXCEPT ![next] = 0]
         ELSE UNCHANGED <<accountQueues, queue, status, ref>>
    /\ UNCHANGED <<commands, providerQueues, accountsOf, userQueues, accountsFor,
                   toSend, i, pc, locks, rv, history>>

SortRefused ==
    /\ pc = "sort"
    /\ next <= NumJobs
    /\ status[next] \in Waiting /\ account[next] = NoAccount
    /\ Return("error")
    /\ UNCHANGED <<commands, status, ref, next, queues, toSend, i, locks, history>>

Sorted ==
    /\ pc = "sort"
    /\ next > NumJobs
    /\ pc' = "byProvider"
    /\ UNCHANGED <<commands, status, ref, next, queues, toSend, i, locks, rv, history>>

SortAccount ==
    /\ pc = "byProvider"
    /\ accountQueues # <<>>
    /\ LET a == Head(accountQueues)
           p == ProviderOf[a]
       IN /\ providerQueues' = Listed(providerQueues, p)
          /\ accountsOf' = [accountsOf EXCEPT ![p] = Append(@, a)]
    /\ accountQueues' = Tail(accountQueues)
    /\ UNCHANGED <<commands, status, ref, next, queue, userQueues, accountsFor,
                   toSend, i, pc, locks, rv, history>>

\* The account has no account spec.
NoSpec ==
    /\ pc = "byProvider"
    /\ accountQueues # <<>>
    /\ Fails("noSpec")
    /\ Return("error")
    /\ UNCHANGED <<commands, status, ref, next, queues, toSend, i, locks,
                   reported, answered, asked, aborted>>

SortedByProvider ==
    /\ pc = "byProvider"
    /\ accountQueues = <<>>
    /\ pc' = "providers"
    /\ UNCHANGED <<commands, status, ref, next, queues, toSend, i, locks, rv, history>>

\* The backend begins with an empty list of user queues
\* (AB_UserQueue_List_new() in the SendCommands() of each backend).
BeginUseProvider ==
    /\ pc = "providers"
    /\ providerQueues # <<>>
    /\ userQueues' = <<>>
    /\ accountsFor' = [u \in User |-> <<>>]
    /\ pc' = "byUser"
    /\ UNCHANGED <<commands, status, ref, next, accountQueues, queue,
                   providerQueues, accountsOf, toSend, i, locks, rv, history>>

\* The jobs of a backend that is not available are dropped.
ProviderUnavailable ==
    /\ pc = "providers"
    /\ providerQueues # <<>>
    /\ Fails("noProvider")
    /\ providerQueues' = Tail(providerQueues)
    /\ UNCHANGED <<commands, status, ref, next, accountQueues, queue, accountsOf,
                   userQueues, accountsFor, toSend, i, pc, locks, rv, reported,
                   answered, asked, aborted>>

EndUseProvider ==
    /\ \/ pc = "endProvider"
       \/ pc = "users" /\ userQueues = <<>>
    /\ providerQueues' = Tail(providerQueues)
    /\ pc' = "providers"
    /\ UNCHANGED <<commands, status, ref, next, accountQueues, queue, accountsOf,
                   userQueues, accountsFor, toSend, i, locks, rv, history>>

\* Whatever has become of the jobs.
Sent ==
    /\ pc = "providers"
    /\ providerQueues = <<>>
    /\ Return("ok")
    /\ UNCHANGED <<commands, status, ref, next, queues, toSend, i, locks, history>>

-----------------------------------------------------------------------------
(* AB_Provider_SortProviderQueueIntoUserQueueList().                       *)

CurrentProvider == Head(providerQueues)
CurrentUser     == Head(userQueues)
CurrentAccount  == Head(accountsFor[CurrentUser])
CurrentKind     == Kind[CurrentProvider]

SortUser ==
    /\ pc = "byUser"
    /\ accountsOf[CurrentProvider] # <<>>
    /\ LET a == Head(accountsOf[CurrentProvider])
           u == UserOf[a]
       IN /\ userQueues' = Listed(userQueues, u)
          /\ accountsFor' = [accountsFor EXCEPT ![u] = Append(@, a)]
    /\ accountsOf' = [accountsOf EXCEPT ![CurrentProvider] = Tail(@)]
    /\ UNCHANGED <<commands, status, ref, next, accountQueues, queue,
                   providerQueues, toSend, i, pc, locks, rv, history>>

\* An account or a user that cannot be read: the backend gives up.
NoUser ==
    /\ pc = "byUser"
    /\ accountsOf[CurrentProvider] # <<>>
    /\ Fails("noAccount")
    /\ pc' = "endProvider"
    /\ UNCHANGED <<commands, status, ref, next, queues, toSend, i, locks, rv,
                   reported, answered, asked, aborted>>

SortedByUser ==
    /\ pc = "byUser"
    /\ accountsOf[CurrentProvider] = <<>>
    /\ pc' = "users"
    /\ UNCHANGED <<commands, status, ref, next, queues, toSend, i, locks, rv, history>>

-----------------------------------------------------------------------------
(* AO_Provider__SendUserQueue(), _sendUserQueue() of aqpaypal and          *)
(* EBC_Provider__SendUserQueue().                                          *)

NextUser == userQueues' = Tail(userQueues) /\ pc' = "users"

LockUser ==
    /\ pc = "users"
    /\ userQueues # <<>>
    /\ locked' = locked \cup {CurrentUser}
    /\ pc' = "accounts"
    /\ UNCHANGED <<commands, status, ref, next, queues, toSend, i, stuck, rv,
                   history>>

\* AB_Provider_EndExclUseUser() to abandon the user: it is unlocked.  When that
\* fails, the user stays locked: nobody looks at the result.
Abandon ==
    \/ locked' = locked \ {CurrentUser} /\ UNCHANGED stuck
    \/ /\ "noUnlock" \in Fault
       /\ locked' = locked \cup {CurrentUser}
       /\ stuck' = stuck \cup {CurrentUser}

\* The user is not locked, or is but cannot be read, and is abandoned.
\* Includes a session that cannot be initialised (aqebics).
LockFails ==
    /\ pc = "users"
    /\ userQueues # <<>>
    /\ Fails("noLock")
    /\ Abandon
    /\ NextUser
    /\ UNCHANGED <<commands, status, ref, next, accountQueues, queue,
                   providerQueues, accountsOf, accountsFor, toSend, i, rv,
                   reported, answered, asked, aborted>>

\* Mutant: the user is not abandoned.
NoSecrets_Locked ==
    /\ pc = "users"
    /\ userQueues # <<>>
    /\ CurrentKind = "aqpaypal"
    /\ Fails("noSecrets")
    /\ locked' = locked \cup {CurrentUser}
    /\ NextUser
    /\ UNCHANGED <<commands, status, ref, next, accountQueues, queue,
                   providerQueues, accountsOf, accountsFor, toSend, i, stuck,
                   rv, reported, answered, asked, aborted>>

\* aqpaypal needs the secrets of the user: without them it abandons the lock.
NoSecrets ==
    /\ pc = "users"
    /\ userQueues # <<>>
    /\ CurrentKind = "aqpaypal"
    /\ Fails("noSecrets")
    /\ Abandon
    /\ NextUser
    /\ UNCHANGED <<commands, status, ref, next, accountQueues, queue,
                   providerQueues, accountsOf, accountsFor, toSend, i, rv,
                   reported, answered, asked, aborted>>

\* AB_Provider_EndExclUseUser() writes the user and unlocks it; when it
\* fails, the user is abandoned.
UnlockUser ==
    /\ pc = "accounts"
    /\ accountsFor[CurrentUser] = <<>>
    /\ \/ locked' = locked \ {CurrentUser} /\ UNCHANGED <<stuck, faults>>
       \/ Fails("noUnlock") /\ Abandon
    /\ NextUser
    /\ UNCHANGED <<commands, status, ref, next, accountQueues, queue,
                   providerQueues, accountsOf, accountsFor, toSend, i, rv,
                   reported, answered, asked, aborted>>

NextAccount ==
    /\ pc = "accounts"
    /\ accountsFor[CurrentUser] # <<>>
    /\ toSend' = <<>>
    /\ i' = 1
    /\ pc' = "collect"
    /\ UNCHANGED <<commands, status, ref, next, queues, locks, rv, history>>

-----------------------------------------------------------------------------
(* AO_Provider__AddJobToList2(), _addJobToList2() of aqpaypal and          *)
(* EBC_Provider_SortTransactionsIntoJobQueues().                           *)

Supported(k, j) == \/ command[j] = "transactions"
                   \/ command[j] = "balance" /\ k # "aqebics"

\* Positions in toSend of jobs that will get what job j asks for.
Answers(k, j) ==
    {n \in DOMAIN toSend :
        LET t == toSend[n] IN
        IF command[j] = "balance"
          THEN command[t] = "balance" \/ k = "aqofxconnect"
          ELSE /\ command[t] = "transactions"
               /\ k = "aqebics" \/ from[j] = 0}

\* Mutant: the earlier job has to go.
Replaced_Earlier(k, j) ==
    {n \in DOMAIN toSend :
        /\ command[j] = "transactions" /\ command[toSend[n]] = "transactions"
        /\ k # "aqebics" /\ from[j] # 0
        /\ from[toSend[n]] = 0 \/ from[toSend[n]] < from[j]}

\* Positions of jobs that are to be replaced by job j: they ask for no date,
\* or for a later one.
Replaced(k, j) ==
    {n \in DOMAIN toSend :
        /\ command[j] = "transactions" /\ command[toSend[n]] = "transactions"
        /\ k # "aqebics" /\ from[j] # 0
        /\ from[toSend[n]] = 0 \/ from[toSend[n]] > from[j]}

\* Mutant: the job is not added when it replaces another one.
AddJob_Dropped(k, j) ==
    IF Answers(k, j) # {}
      THEN /\ ref' = [ref EXCEPT ![j] = toSend[Earliest(Answers(k, j))]]
           /\ UNCHANGED toSend
      ELSE IF Replaced(k, j) # {}
      THEN LET n == Earliest(Replaced(k, j)) IN
           /\ ref' = [ref EXCEPT ![toSend[n]] = j]
           /\ toSend' = Without(toSend, n)
      ELSE toSend' = Append(toSend, j) /\ UNCHANGED ref

AddJob(k, j) ==
    IF Answers(k, j) # {}
      THEN /\ ref' = [ref EXCEPT ![j] = toSend[Earliest(Answers(k, j))]]
           /\ UNCHANGED toSend
      ELSE IF Replaced(k, j) # {}
      THEN LET n == Earliest(Replaced(k, j)) IN
           /\ ref' = [ref EXCEPT ![toSend[n]] = j]
           /\ toSend' = Append(Without(toSend, n), j)
      ELSE toSend' = Append(toSend, j) /\ UNCHANGED ref

Collect ==
    /\ pc = "collect"
    /\ i <= Len(queue[CurrentAccount])
    /\ i' = i + 1
    /\ LET j == queue[CurrentAccount][i] IN
       IF Supported(CurrentKind, j)
         THEN AddJob(CurrentKind, j) /\ UNCHANGED reported
         ELSE /\ reported' = IF CurrentKind = "aqebics" THEN reported
                               ELSE reported \cup {j}
              /\ UNCHANGED <<toSend, ref>>
    /\ UNCHANGED <<commands, status, next, queues, pc, locks, rv, answered,
                   asked, faults, aborted>>

Collected ==
    /\ pc = "collect"
    /\ i > Len(queue[CurrentAccount])
    /\ i' = 1
    /\ pc' = "send"
    /\ UNCHANGED <<commands, status, ref, next, queues, toSend, locks, rv, history>>

-----------------------------------------------------------------------------
(* AO_Provider__SendJobList(), _sendJobList() of aqpaypal and              *)
(* EBC_Provider_ExecContext_STA().                                         *)

\* aqpaypal does not send a request for transactions without a date.
Sendable(k, j) == k = "aqpaypal" /\ command[j] = "transactions" => from[j] # 0

\* The status a job is given before it is sent.
Sending(k) == IF k = "aqebics" THEN "enqueued" ELSE "sending"

\* The user may abort after a job: the others are not sent.
Onwards ==
    \/ i' = i + 1 /\ UNCHANGED <<pc, aborted>>
    \/ CurrentKind # "aqebics" /\ i' = 1 /\ pc' = "finish" /\ aborted' = TRUE

Send ==
    /\ pc = "send"
    /\ i <= Len(toSend)
    /\ toSend[i] \notin asked
    /\ Sendable(CurrentKind, toSend[i])
    /\ status' = [status EXCEPT ![toSend[i]] = Sending(CurrentKind)]
    /\ asked' = asked \cup {toSend[i]}
    /\ UNCHANGED <<commands, ref, next, queues, toSend, i, pc, locks, rv, reported,
                   answered, faults, aborted>>

NotSendable ==
    /\ pc = "send"
    /\ i <= Len(toSend)
    /\ ~Sendable(CurrentKind, toSend[i])
    /\ status' = [status EXCEPT ![toSend[i]] = "error"]
    /\ Onwards
    /\ UNCHANGED <<commands, ref, next, queues, toSend, locks, rv, reported,
                   answered, asked, faults>>

InFlight == pc = "send" /\ i <= Len(toSend) /\ toSend[i] \in asked

\* The bank answers; aqebics leaves the status alone unless there are no data.
Answer ==
    /\ InFlight
    /\ answered' = answered \cup {toSend[i]}
    /\ status' \in {[status EXCEPT ![toSend[i]] = "accepted"]}
                     \cup (IF CurrentKind = "aqebics" THEN {status} ELSE {})
    /\ Onwards
    /\ UNCHANGED <<commands, ref, next, queues, toSend, locks, rv, reported,
                   asked, faults>>

\* aqpaypal cannot get the details of a transaction: the status is set to
\* "error" by the function that asks for the transactions ...
NoDetails ==
    /\ InFlight
    /\ CurrentKind = "aqpaypal" /\ command[toSend[i]] = "transactions"
    /\ status[toSend[i]] = "sending"
    /\ Fails("noDetails")
    /\ status' = [status EXCEPT ![toSend[i]] = "error"]
    /\ UNCHANGED <<commands, ref, next, queues, toSend, i, pc, locks, rv,
                   reported, answered, asked, aborted>>

\* ... which returns 0 nevertheless: Answer.

Refuse ==
    /\ InFlight
    /\ status[toSend[i]] # "error"
    /\ status' = [status EXCEPT ![toSend[i]] =
                    IF CurrentKind = "aqebics" THEN "rejected" ELSE "error"]
    /\ Onwards
    /\ UNCHANGED <<commands, ref, next, queues, toSend, locks, rv, reported,
                   answered, asked, faults>>

\* The exchange itself is aborted.
Abort ==
    /\ InFlight
    /\ CurrentKind # "aqpaypal"
    /\ status' = [status EXCEPT ![toSend[i]] =
                    IF CurrentKind = "aqebics" THEN "rejected" ELSE "aborted"]
    /\ aborted' = TRUE
    /\ i' = 1
    /\ pc' = "finish"
    /\ UNCHANGED <<commands, ref, next, queues, toSend, locks, rv, reported,
                   answered, asked, faults>>

AllSent ==
    /\ pc = "send"
    /\ i > Len(toSend)
    /\ i' = 1
    /\ pc' = "finish"
    /\ UNCHANGED <<commands, status, ref, next, queues, toSend, locks, rv, history>>

-----------------------------------------------------------------------------
(* AO_Provider__FinishJobs(): aqofxconnect only.                           *)

\* The status of the job it refers to, as it stands now.
Finish ==
    /\ pc = "finish"
    /\ CurrentKind = "aqofxconnect"
    /\ i <= Len(queue[CurrentAccount])
    /\ LET j == queue[CurrentAccount][i] IN
       status' = IF ref[j] = 0 THEN status ELSE [status EXCEPT ![j] = status[ref[j]]]
    /\ i' = i + 1
    /\ UNCHANGED <<commands, ref, next, queues, toSend, pc, locks, rv, history>>

Finished ==
    /\ pc = "finish"
    /\ CurrentKind = "aqofxconnect" => i > Len(queue[CurrentAccount])
    /\ accountsFor' = [accountsFor EXCEPT ![CurrentUser] = Tail(@)]
    /\ pc' = "accounts"
    /\ UNCHANGED <<commands, status, ref, next, accountQueues, queue,
                   providerQueues, accountsOf, userQueues, toSend, i, locks, rv,
                   history>>

-----------------------------------------------------------------------------
Step ==
    \/ Sort \/ SortRefused \/ Sorted \/ SortAccount \/ NoSpec \/ SortedByProvider
    \/ BeginUseProvider \/ ProviderUnavailable \/ EndUseProvider \/ Sent
    \/ SortUser \/ NoUser \/ SortedByUser
    \/ LockUser \/ LockFails \/ NoSecrets \/ UnlockUser \/ NextAccount
    \/ Collect \/ Collected \/ Send \/ NotSendable \/ Answer \/ NoDetails \/ Refuse \/ Abort
    \/ AllSent \/ Finish \/ Finished

\* The application has been answered.
Done == pc = "done" /\ UNCHANGED vars

Next == Step \/ Done

Spec == Init /\ [][Next]_vars

-----------------------------------------------------------------------------
(* Properties.                                                             *)

TypeOK ==
    /\ account \in [Job -> Account \cup {NoAccount}]
    /\ command \in [Job -> Command]
    /\ from \in [Job -> 0..LastDate] /\ to \in [Job -> 0..LastDate]
    /\ status \in [Job -> Status]
    /\ ref \in [Job -> 0..NumJobs]
    /\ next \in 1..NumJobs + 1
    /\ accountQueues \in Seq(Account)
    /\ queue \in [Account -> Seq(Job)]
    /\ providerQueues \in Seq(Provider)
    /\ accountsOf \in [Provider -> Seq(Account)]
    /\ userQueues \in Seq(User)
    /\ accountsFor \in [User -> Seq(Account)]
    /\ toSend \in Seq(Job)
    /\ i \in Nat \ {0}
    /\ pc \in Phase
    /\ locked \subseteq User /\ stuck \subseteq User
    /\ rv \in {"none", "ok", "error"}
    /\ reported \subseteq Job /\ answered \subseteq Job /\ asked \subseteq Job
    /\ faults \in 0..MaxFault
    /\ aborted \in BOOLEAN

\* The jobs that were taken from the list.
Taken == {j \in Job : \E a \in Account : j \in InSeq(queue[a])}

\* The days a request for transactions asks for; 0 and LastDate + 1 stand for
\* all days before and after the dates.
Days(j) == {d \in 0..LastDate + 1 : from[j] <= d /\ (to[j] = 0 \/ d <= to[j])}

\* Job k asks the bank for all that job j asks for.
Covers(k, j) ==
    /\ account[k] = account[j]
    /\ command[j] = "transactions" =>
         command[k] = "transactions" /\ Days(j) \subseteq Days(k)

\* Job k is for the account of job j, and asks for a first date as early as that
\* of job j, if job j has one.
Begins(k, j) ==
    /\ account[k] = account[j]
    /\ command[j] = "transactions" /\ from[j] # 0 =>
         command[k] = "transactions" /\ 0 < from[k] /\ from[k] <= from[j]

\* The requests for the transactions of an account all have a first date, and
\* the same last date, or none.
SameEnd(a) ==
    \A j, k \in Job :
        /\ account[j] = a /\ account[k] = a
        /\ command[j] = "transactions" /\ command[k] = "transactions"
          => from[j] # 0 /\ to[j] = to[k]

\* A job is reported as accepted only if the bank has answered it or another
\* job for the same account that begins no later, whichever jobs replace and
\* answer one another, in any order (AO_Provider__AddJobToList2(),
\* AO_Provider__FinishJobs()).  The answer holds all the job has asked for when
\* the requests for the account differ in their first dates only: last dates
\* are sent to the bank, but not compared, and a request without a first date,
\* which asks for everything, gives way to any request with one.
AcceptedWasAnswered ==
    \A j \in Taken : status[j] = "accepted" =>
        \E k \in answered : Begins(k, j) /\ (SameEnd(account[j]) => Covers(k, j))

\* The jobs there is no more to be done for: they were sent, refused or
\* reported, or are left alone by aqebics.
Settled ==
    asked \cup reported \cup
    {k \in Job :
        \/ status[k] \in Final
        \/ /\ account[k] \in Account /\ Kind[ProviderOf[account[k]]] = "aqebics"
           /\ ~Supported("aqebics", k)}

\* By the references r job j leads to a job of set R that refers to no other:
\* every set that holds j and the jobs its members refer to has such a job.
LeadsTo(r, j, R) ==
    \A S \in SUBSET Job :
        j \in S /\ (\A k \in S : r[k] # 0 => r[k] \in S)
          => \E k \in S : r[k] = 0 /\ k \in R

\* Unless something has failed, no job is lost between the queues, nor in a
\* circle of jobs that refer to one another: every job was sent or refused, or
\* its references lead to one that was.
NothingForgotten ==
    pc = "done" /\ rv = "ok" /\ faults = 0 /\ ~aborted =>
      \A j \in Taken : LeadsTo(ref, j, Settled)

\* A request for an account goes out only while the user of the account is
\* locked by this program; and a user stays locked behind the call only if it
\* was abandoned and that has failed, whatever else has failed (the
\* _sendUserQueue() of the backends).
LockDiscipline ==
    [][/\ \A j \in asked' \ asked : UserOf[account[j]] \in locked
       /\ pc' = "done" => locked' \subseteq stuck']_vars
=============================================================================
