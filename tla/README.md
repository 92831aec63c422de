# A verification project for AqBanking

AqBanking is a C library for online banking: an application hands it
transactions, a *backend* talks to the banks (FinTS/HBCI, EBICS, OFX, PayPal,
...), and the answers come back as statuses, messages and imported data.  This
directory holds TLA+ models of the parts of it whose correctness depends on the
order in which things happen, the runs that check them with TLC, and proofs of
their main properties for TLAPS.  Paths are relative to the root of the
repository's sources; `aqbanking/` stands for `src/libs/aqbanking/` and
`aqhbci/` for `src/libs/plugins/backends/aqhbci/`,
and so for the other backends (`aqebics/`, `aqofxconnect/`, `aqpaypal/`).

## 1. The system

### Components, their state and their operations

| component | state | operations | modelled |
|---|---|---|---|
| Unique ids (`aqbanking/banking.c`) | one config group `main/uniqueId` with all counters, shared by all processes | `AB_Banking_GetNamedUniqueId` | `UniqueId` |
| Configuration store (`banking_cfg.c`) | config groups on disk, a lock per group (GWEN_ConfigMgr) | read, write, lock, unlock, delete a group; read all groups of a table | one group, call by call: `ExclUse`; tables: `ConfigUpdate`, `AccountStore` |
| Users (`backendsupport/provider_user.c`) | `AB_USER` objects in memory, one config group each | Begin/EndExclUseUser, Get, Read, Write, Add, DeleteUser | exclusive use: `ExclUse`; adding and deleting: `AccountStore` |
| Accounts, account specs (`provider_account.c`, `provider_accspec.c`, `banking_accspec.c`) | config groups that refer to a user, one spec per account | Add, Write, DeleteAccount, fetching the accounts of a user | `AccountStore` |
| Update of the configuration (`banking_update.c`, `banking_init.c`) | groups under old and new names, version of the library and of the backends | `AB_Banking_Init`, `AB_Banking_Update`, `AB_Banking_Fini` | `ConfigUpdate` |
| `AB_Banking_SendCommands` (`banking_online.c`, `provider_queues.c`) and the job lists of aqofxconnect, aqpaypal, aqebics | queues by account, backend, user; status of every command, references between commands | sort, use each backend, lock each user, collect, send, finish | `SendCommands`; for aqhbci the calls of `Outbox` |
| Outbox (`aqhbci/applayer/`) | a box per user, lists of jobs to do and finished, the open dialog | `AH_Outbox_Execute`, opening and closing dialogs, sending and receiving queues | `Outbox` |
| TAN and verification of payee (`cbox_voptan.c`, `cbox_psd2.c`, `cbox_itan.c`, `tan/`) | the jobs HKVPP and HKTAN of one order: result codes, attach point, VOP id, challenge, reference | stage 1 (order, verification, challenge), polling, question to the user, stage 2 (confirmation, order again, TAN, approval) | one order: `VopTan`; opening dialogs, TAN methods and input: not |
| Job layer (`aqhbci/joblayer/`) | `AH_JOB` status, flags, attach point, responses; `AH_JOBQUEUE` | add to a queue, encode, dispatch an answer, next message | status and dispatch to one job: `Outbox` |
| Jobs (`ajobs/`, `admjobs/`) | arguments, verdict on the transaction | prepare, process, handle results, commit | verdicts: `Outbox` |
| EBICS transfers (`aqebics/requests/`, `aqebics/client/p_tools.c`) | segments of an answer or of an order; at the bank: what was not fetched yet | download with receipt, upload | `EbicsTransfer` |
| EBICS keys (`p_tools.c`, `aqebics/control/`, `dlg_newkeyfile.c`) | flags and status of the user, key file; at the bank: the user's keys | INI, HIA, HPB, creation of keys, reset, the dialog for a new user | `EbicsKeys` |
| Message layer (`aqhbci/msglayer/`) | dialog id, message number, keys | encode, sign, encrypt, parse | not modelled |
| Control commands, dialogs of the HBCI backend | none of their own | use a user, run a dialog job | as sessions of `ExclUse`, calls of `Outbox` |
| Providers, crypt tokens (`banking_online.c`, `provider.c`) | group of the backend, list of tokens | begin and end the use | begin and end as steps of `ConfigUpdate` and `SendCommands` |
| other backends, im- and exporters, parsers, bank information, user interface, tools, C++ wrapper | little or none between calls | conversions, one request per response | not modelled |

`PROJECT.json` lists all of them with the reason for what is left out.

### How they interact

An application calls `AB_Banking_SendCommands(list)`.  Transactions with status
unknown, none or enqueued get a job id (unique ids), are sorted by account and
backend, and each backend gets its queue.  The HBCI backend turns every
transaction into a job, puts it into the outbox, and runs it: all users that
have jobs are locked and read (exclusive use), then the boxes are worked on one
after the other.  A box first runs its dialog jobs, each in a dialog of its
own, then, for each of the four combinations of SIGN and CRYPT, opens one
dialog for the jobs with these flags.  A job is prepared, encoded into a
message, sent, and the answer is dispatched to it; it may need more messages.
Whatever happened, all jobs of a box end up in the list of finished jobs; those
that were answered are processed, and in the end their results set the status
of the transactions.  Users are written back and unlocked.  Several processes
(applications, command line tools) do this at the same time on one settings
folder; the locks of config groups are all that keeps them apart.

The backends aqofxconnect, aqpaypal and aqebics have no outbox: they lock one user
after the other and make of the commands of an account a list of requests, where
one request may answer several commands.  Users of aqebics must first be
initialised, in several steps and by several commands, with the bank's clerk in
between.  A program that finds a configuration of an older version converts it
before it does anything else.

### What is hard

- *Concurrency between processes*: every change of the configuration is a
  read-modify-write of a whole config group under a lock that can be refused.
- *Errors anywhere*: nearly each call can fail; error paths forget unlocks,
  move jobs between lists by hand, drop error codes of callees.
- *The bank*: messages and answers may be lost; a job may have been executed
  although its answer was not seen; orders must not be repeated.
- *Order*: flags, dialogs, attach points and results of several messages of one
  job live in the same object.
- *Crashes*: a process may die between any two writes.

### What makes the components correct

- Unique ids: an id is handed out at most once per name, counters never fall,
  only failed calls leave the group locked, every call returns.
- Exclusive use: no two sessions use a user at a time, no stored change is
  lost, banks are contacted only with all users locked, nobody waits for ever,
  success means that everything was released.
- Outbox: a job is in one list at a time and comes back finished, jobs go out
  in the dialog of their user with their flags, a failed job stops its box, an
  order reaches the bank at most once, the status the application sees is what
  the bank did, every call returns.
- Users, accounts and specs: a user in use is not deleted, an application sees an
  account once, a spec has its account.
- Update of the configuration: no crash loses a group or (in one run of the
  update) the user of an account, and the new version is stored only when all is
  converted, and some time it is.
- SendCommands: what is reported as accepted rests on an answer to a request that
  begins no later, no command gets lost between the queues, the bank is asked only
  under the lock of the user, and no lock stays behind but one whose release failed.
- EBICS transfers: a call that reports success has moved all segments, in order,
  and what the bank took off its list the application has got.
- EBICS keys: flags and status of a user say what is so at the bank, and no
  program takes back what another one has done.
- TAN and verification of payee: a doubtful payee is put to the user before
  anything more is sent, nothing is sent after a refusal, an order is repeated at
  most once, for a cause, and never after its release, success means that the
  order was released and, where the bank wants it, confirmed.

The hazards are listed one by one, at their lines, in `PROJECT.json`.

## 2. The modules

### `UniqueId`, refining `UniqueIdAbs`

`AB_Banking_GetNamedUniqueId()` as seen by processes `App`.  `owner` is the lock
of the group, `counter` the stored group, `buf` the copy (`dbConfig`) of a
process, `uid` the id it computed, `ret` what its last call returned, `pc` the
next call of the config manager.  Actions: `Call`; `LockGroup`/`LockFails`;
`GetGroup`/`GetFails` (the latter returns *without* unlocking); `SetGroup` (all
of the computation, and the write)/`SetFails`, followed by `AbortUnlock`;
`UnlockGroup`/`UnlockFails`; `Crash`.  The history variable `taken` remembers the
ids that left a counter; no guard reads it.  A new named counter starts at the
standard counter `Std`, which then counts, too (`NewId`, `NewGroup`).  Ids are
unbounded integers: 2^31 ids are out of reach.

`UniqueIdAbs` says what the callers rely on: an atomic draw of a fresh id that
may be lost but never repeated.  The draw is the write of the group.

### `ExclUse`

Sessions of processes `Proc` that use `User`s: `edit` (the dialogs and control
commands: one user), `send` (`AH_Outbox_Execute()`: every user that has jobs),
and `reopen` (see the finding below).  `owner`, `exists` and `stored` are the
config groups; `stored[u]` is the set of sessions whose change it contains, so
that a lost update is visible.  `locked[p]` is the list `lockedUsers`,
`copy[p][u]` the object in memory.  The actions follow
`AB_Banking_ReadNamedConfigGroup()` and `...WriteNamedConfigGroup()` call by call:
`LockUser`, `LockFails`, `ReadUser`, `ReadFails` (unlocks), `ReadNotFound` (does not),
`DropLock`, `Use`, `WriteUser`, `UnlockUser` and their failures, `AbandonUser`
(`EndExclUseUser(..., 1)`).  `EndFails` has the difference between the callers: an
editor abandons the user, the outbox counts the error and goes on, so that the
user stays locked.  `DeleteUser` is the last step of `AB_Provider_DeleteUser()`,
which takes no lock.  The history variable `leaky` says whether a write or an
unlock has failed, a process has died, or a user was deleted (`ReadNotFound`): the
four ways in which a lock may stay behind.

### `Outbox`, refining `JobDelivery`

One process, from the call to the results.  `pc` is the place in the code;
`boxes`, `box` and `pass` are the loops over users and flags; `dlg` is the open
dialog (its flags), `busy` the job that was taken out of its list, `todo`,
`finished`, `outFinished` the lists; `jobStatus`, `attach`, `resp`, `results` the
state of a job; `taStatus` the status of its transaction, which outlives the
call; `bank`, `got`, `more` belong to the bank.  The action comments name the
functions.  Abstractions:

- a job carries one transaction; multi jobs put several into one message with
  one verdict;
- each message carries one job, as in the code when neither TAN nor
  verification of payee is asked for (users with key files or cards);
- opening a dialog is one step that succeeds or fails, since the job that opens
  it is invisible to the outbox (`OpenDialog`, `OpenDialogFails`); dialog jobs of
  control commands are modelled with their messages;
- result codes are `executed` (20..29), `pending` (10..19) and `refused` (others);
- the acknowledge job is the step of `JobDone` that may fail;
- the order of boxes and of jobs with the same flags is arbitrary;
- locking the users is one step, `ExclUse` has it in detail.

`failed` is history: the jobs at which something has gone wrong in this call, each
entered by the step at which it goes wrong (`Failed` in `ConnectFails`,
`PrepareFails`, `EncodeFails`, `SendFails`, `ReceiveAbort`, `NoAnswer`,
`DialogJobRefused`; all the jobs of a dialog that is not opened, in
`OpenDialogFails`; and the jobs after which the bank, or an error, has closed the
dialog, whatever their status).  `StopsOnFailure` looks at it and at the finished
jobs: a job whose message was sent and whose answer is lost has the status `sent`,
like one whose answer is not needed, and is no reason to go on.  A refusal of the
whole message does not end a box, and is none of these.

`JobDelivery` is what the rest of the backend relies on: jobs are outside,
waiting, active or finished, one is active at a time, only the active one reaches
the bank, and a finished one is not touched.

### `VopTan`, refining `PaymentConsent`

One call of `AH_OutboxCBox_SendAndReceiveJobWithTanAndVpp()` (`withTan`) or of
`AH_OutboxCBox_SendAndReceiveJobWithVpp()` (not `withTan`), with or without a job
HKVPP (`withVop`: the bank wants the payee verified and the job can be created).
`pc` is the place in the call, `step` the message at work, `segs` what is in it.
What the code reads again later is state: the result codes of the three jobs
(`tanCodes`, `workCodes`, `vppCodes`), the attach point, VOP id, message and list
of results of HKVPP (`attach`, `vopId`, `vopMsg`, `mismatch`), the challenge and the
`reference` of HKTAN.  A reference is the number of the challenge it belongs to.

| code | actions |
|---|---|
| `_sendAndRecvQueue` | `Send`, `SendFails`, `ReceiveFails` and one action per answer |
| `_handleStage1`, `_repeatJobUntilNoAttachPoint` | `Start`, `AnswerStage1`, `AnswerPoll`, then `PayeeRejected`, `PayeeDoubtful` or `PayeeAccepted` |
| `_handleStage2`, four branches | `OrderAgain`, `ReleaseFirst` (no TAN, approval elsewhere, TAN), `NoVopId` |
| `_sendHKVPAandHKXXXandHKTAN` | `OrderAgain`, `AnswerAgain` |
| `_createQueueForStage2a` | `FirstRelease` |
| TAN input, approval | `InputTan`, `NoChallenge`, `UserApproves`, `AnswerNotYet`, `AnswerApproved`, `AnswerLast` |
| question about the payee, abort in any dialog | `UserAccepts`, `UserRefuses` |
| `_handleStage2` of `cbox_vophbci.c` | `Confirm`, `NothingToConfirm` |

`orders`, `challenge`, `confirmed` and `answered` are what the bank has got;
`accepted`, `refused` and `waiting` what the user and the bank have said.  No guard
reads them, but for `challenge`, by which the bank numbers its references.
Abstractions: of the result codes those are kept that the code looks for; the
answer to each message is any set of them, with or without the data that may come
along; the bank says "not yet" (an attach point, or 3956) at most `MaxRepeats`
times in a call, which is the one bound.  Codes and responses that are copied
into the order for its later verdict are left out, as are signers and flags of
queues.  An answer that is ignored in stage 1 because its security is found
wanting is an answer without data.  `SendFails` may or may not have delivered the
message.

What the model shows and no property forbids, since nothing in the repository
says that it should not be: where no TAN is needed or the order is approved
elsewhere, HKVPA is never sent (the TODO at `cbox_voptan.c:248`); a payee with 3090
and nothing to show is accepted without asking (`:209`); without a challenge the
user is not asked before the question for the approval (`:1090`); without TAN the
order is sent again even if the bank waived the confirmation
(`cbox_vophbci.c:331`).

`PaymentConsent` is what the rest relies on: the bank gets the order at most
twice, never after its release, confirmed at most once; while a concern about the
payee is open nothing is sent and the call cannot succeed; a call that is over
sends nothing.

### `ConfigUpdate`

Programs `Proc` start (`AB_Banking_Init()`), update the configuration as long as
the main group has an old version, run, and end (`AB_Banking_Fini()`, which stores
the new version).  `phase` is the table and the conversion at work; a phase lists
the groups (`ListGroups`), reads them one by one (`ReadGroup`, `GroupGone`,
`ReadFails`, `ReadDone`) and goes through its copies `all`: `KeepName`,
`WriteDerived` and `DeleteOld` (`AB_Banking_UpdateConfList()`), `SetUserId`,
`SetBackendName`, and, in the backend, `CreateSpec`.  `Fail` has what an error does:
it ends `AB_Banking_Init()`, but not that of a backend.  `store` is the set of
groups; a group is an id, the form of its name (`old`, or `derived` from the id),
and the three variables of its content that the conversions touch.  `converted`
and `overlap` are history.  Every access to one group is atomic, as it is made
under the lock of the group (`ExclUse` has the steps of one access).

`CurrentIsComplete` holds as long as no two programs run at once: a second program
that has read groups before the first one converted them writes its copies back
over the converted ones, after the first one has stored the version.  `NoGroupLost`
and `UserKeptByOneUpdate` hold for any number of programs.

### `AccountStore`

The tables of users, accounts and account specs, and programs that change them:
`AddUser`, `Fetch` (the accounts a bank has sent for a user are matched with the
specs; found ones are modified, others added), `DeleteAccount`, `DeleteUser`.
Every read and write of a group is a step; `pc` says which one is next, `got` holds
the groups that were read, `partial` that one of them was unreadable.  The errors are
treated as in the code, that is each in another way: an id that is an error code is
taken for an id (`AddUserBadId`, `AddAccount`), unreadable specs mean that there are
none (`SpecsRead`), unreadable accounts prevent a deletion (`AccountsRead`), a failed
deletion of a spec is overlooked (`DeleteFails`).  `using` and `overlap` are history.
The user that accounts are fetched for is locked by the program; since
`DeleteUser` asks for no lock, this plays no part in the model.

The conditions of `VisibleOnce` and `SpecHasAccount` are what the code needs: without
`~overlap`, or with an unreadable spec or a deletion that fails, they are violated
(see the findings).

### `SendCommands`

`AB_Banking_SendCommands()` for the backends without a dialog with the bank.  `pc` is
the phase: sorting commands into queues by account, backend and user; then, for each
backend and each user, lock, collect, send, finish, unlock.  Every backend begins with
a new list of user queues (`BeginUseProvider`), as `AO_Provider_SendCommands()` and its
likes do.  A command is an account, a
kind, a first and a last date (`from`, `to`; 0: none); `ref` is the command whose answer
will be its own.
`AddJob` is `AO_Provider__AddJobToList2()` (and its twin in aqpaypal): `Answers` are
the jobs in the list that get what the new one asks for, `Replaced` those that are
taken out for it.  `Finish` gives a job the status which the job it refers to has *at
that time*.  `LockFails`, `NoSecrets` and `UnlockUser` end with `Abandon`
(`AB_Provider_EndExclUseUser(pro, u, 1)`), whose result nobody looks at: if that fails,
the user stays locked, which the history `stuck` remembers.  What differs between the backends is a condition on `CurrentKind`.
Only the first two phases return an error to the application (`rv`); everything later
shows in the status of the commands, or not at all.  The list of the commands
contains any mixture of kinds, accounts and dates, and commands that an earlier call
has settled.

What an accepted command may rely on has two parts.  `Begins`: the bank has answered
it, or a request for its account whose first date is as early as its own, if it has
one; this is all the code ensures.  `Covers`: the answer holds every day the command
has asked for (`Days`).  The requests carry a last date as well
(`aqofxconnect/common/n_statement.c:126`, `aqpaypal/provider_getstm.c:75`), but
`AO_Provider__AddJobToList2()` and its twin compare first dates only, and let a request
without a first date, which is one for everything, give way to any with one.  So
`AcceptedWasAnswered` promises `Covers` only for accounts whose requests all have a
first date and the same last date, or none (`SameEnd`).  Without that condition TLC
finds a violation with two commands for an account of aqofxconnect: the request for
everything is put into the list, the one from day 1 on replaces it, its answer
settles both, and the first is reported as accepted; likewise a request for day 1 only
replaces one from day 2 on.

### `EbicsTransfer`

Calls of a user of EBICS: downloads (initial request, a request for every further
segment, decoding, receipt, import) and uploads (initial request, a request with
every segment), in the protocol versions H002 and H003, which differ in when a
download takes a segment for the last one (`LastSegment`) and whether the body of the
answer to a receipt is looked at (`ReceiptRefused`).  `fresh` is what the bank still
has for the user, `inTx` what it put into the answer to this download, `handed` what
the application was given.  An answer or a request may get lost at every step, with
or without effect at the bank; the bank may answer without a transaction id or
refuse a segment in the body of its answer, which the code does not look at:
`trouble` = `ignored`.

### `EbicsKeys`

Programs that run one of the commands `sendkeys`, `getkeys`, `createkeys` and
`resetuser`, or the dialog for a new key file, for one user.  A command checks the
flags of a copy that it has read without a lock (`Command`, `Check`, `SentAlready`),
then locks the user and reads it again (`Lock`), exchanges its request, and writes the
user (`Write`) or gives up (`Abandon`).  The dialog makes the user and its keys, sends
both requests under one lock, and deletes user and key file when anything fails
(`Undo`).  `bank[r]` is the generation of keys the bank got with request `r`;
`active` that its clerk has enabled the user.  `disturbed` is history: keys were made
or thrown away while the bank had some, or while another program was at work; of
the key file nothing can be said then, of flags and status still.  The key file is
taken to hold what the token holds, and the answer to HPB to hold both of the bank's
keys.  Beginning the exclusive use is one step.

### Composition

The modules share the configuration, and each takes for a step what another one
has in detail: `Outbox`, `SendCommands` and `EbicsKeys` the exclusive use
(`ExclUse`), `AccountStore` and `SendCommands` the ids (`UniqueId`), `Outbox` the
exchange of an order with TAN (`VopTan`), `SendCommands` a download
(`EbicsTransfer`).  Each step they take is one that the detailed module shows to be
possible: an id is new or the call has failed, a lock is had or refused, a call
ends.

## 3. The runs

| run | instance | question |
|---|---|---|
| `unique_id` | 3 processes, 2 names, 3 calls | ids unique, refinement of `UniqueIdAbs`, leaks only with errors, calls return |
| `excl_use` | 2 processes, 2 users, 3 sessions, every fault, death and deletion | exclusive use, no lost update, banks only with all locks |
| `excl_use_errors` | 2 processes, 2 users, 2 sessions of every kind, groups that cannot be read, written or unlocked | leaks only where a release failed, success means released, no deadlock of two outboxes |
| `excl_use_reopen` | 2 sessions, no fault | **violated**: see the findings |
| `outbox` | 2 users, 2 orders, a request for data, a dialog job, 2 calls, 1 attach point | right dialog, stop on failure, orders once, true reports, refinement of `JobDelivery` |
| `outbox_live` | the same with 1 call | the call returns, every job ends up finished |
| `vop_tan` | calls with and without TAN and verification, every set of result codes, 2 times "not yet" | consent, repetition for a cause, right challenge, released and confirmed, no means no, refinement of `PaymentConsent`, the call ends |
| `config_update` | 2 programs, an account or none, a user, 1 fault | no group lost, user kept, complete when current, completes |
| `account_store` | 2 programs, a person, a bank account, 2 account ids, 1 fault of any kind | accounts visible once, specs with accounts, users in use kept |
| `send_commands` | 3 commands of any kind and 4 periods of 2 dates for 3 accounts at 3 backends, 1 fault of any kind, and of abandoning behind it | accepted means answered, nothing forgotten, locks held, and released unless that fails |
| `ebics_transfer` | 2 statements, 4 calls, up to 4 segments, any fault at any step | no silent loss, success is whole, no failure without a fault |
| `ebics_keys` | 2 programs, 5 commands or dialogs, any fault at any step | flags and status true, flags grow |

Type invariants are not among the properties of the runs: each is part of an
inductive invariant that is proved.

Why the bounds are enough.  A lost update or a double id needs two actors that
overlap and a third that sees the result: two processes with three sessions,
three processes with three calls.  Locks in opposite orders need two users.
Repeating an order needs a second call.  The order of two jobs in one dialog, of
passes, of a dialog job before them and of two boxes needs two jobs with the same
flags and a dialog job for one user, and a job of another.  One attach point
gives a job with two messages.  Two times "not yet" give a poll or a question
that follows one with another answer, and one of each in a call; all else in
`VopTan` is finite by itself.  An update that is interrupted and run again, or runs
beside another one, needs one account, one fault and two programs; accounts do not
look at one another.  An account that is stored twice needs two ids; a deletion
that races with a fetch, two programs.  Among three commands one can replace a
second and be replaced by a third, or refer to a job that refers to another; the four
periods have requests with and without a first and a last date, an earlier and a later
first date, and two of the same first date with different ends.  Four
segments are one more than the smallest number at which the two protocol versions
differ; a statement that is lost in a call is missed in the next, and one that
arrives in between is the second.  Five commands are the dialog, a reset, both
requests anew and the bank's keys, with two of them at a time.

A process has nothing to do when the bound on calls, sessions or commands is
reached: `CHECK_DEADLOCK FALSE` stands in the configurations for which this is so
(`ConfigUpdate`, whose programs go on for ever, and `SendCommands`, which has a
step for the end, are checked for deadlock).

Fairness.  The code of a call is straight-line code of a running process: weak
fairness of its next step (`Step(p)`) and nothing else.  A process that dies has no
enabled step; nothing obliges anybody to call, to die, or a fault to occur or to
stop occurring.  Lock attempts give up by themselves, network operations have
timeouts, which is why a step is always possible.  The bank hands out finitely
many attach points (`MaxMore`): with a bank that never stops the code does not
either (hazard at `cbox_queue.c:338`).  The same holds for the polls of `VopTan`
(hazard at `cbox_voptan.c:609`), whose fairness is that of one running call,
`WF_vars(Next)`: messages have timeouts, and a user in front of a dialog is
expected to answer it one way or the other.  `UpdateCompletes` is about
configurations, not calls: it assumes that programs are started again and again
and go on with what they do (weak fairness), that those that run long enough end
and use their backends (strong fairness, since an error may send them back), and that
faults stop some time (`MaxFault`).

### Findings

`backendsupport/provider_be.h:438` says that a user read with *both* `doLock` and
`doUnlock` set may later be given to `AB_Provider_EndExclUseUser()`.  That function
writes the object without locking the group and only then fails to unlock it, so
what another process stored in between is lost: run `excl_use_reopen`.  The
callers in `aqhbci/control` use `doLock=1, doUnlock=0`, with which the other runs
and the theorem `NothingLost` show that nothing is lost.  The same sentence stands
at the functions for accounts.

The rest was met while modelling.  Each is what a property in its plain form is
violated by; the property stated in the module has the condition that excludes it,
or the model has the step and no property about it.

| where | what the code does | in the model |
|---|---|---|
| `banking_update.c:276` | sets `userId` from `user` and deletes `user` without a look at either: an update that was interrupted behind this step and runs again sets `userId` to 0; `aqhbci/banking/provider_accspec.c:81` calls the result "SNH!" (should not happen) | `converted` in `UserKeptByOneUpdate` |
| `banking_cfg.c:572` | reading an empty table is an error, which `AB_Banking_UpdateConfList()` passes on: an old configuration with users and no accounts can never be opened again | premise of `UpdateCompletes` |
| `banking_update.c:42` | nothing keeps a second program from updating at the same time; it writes its old copies over the converted groups | `overlap` in `CurrentIsComplete` |
| `aqhbci/joblayer/jobqueue_account.c:341` | looks for the bank's accounts among the specs only: an account whose spec was not written, or could not be read, is stored once more; the comment at `:332` promises to "find out which accounts are new" | `AddAccount`; `read` in `VisibleOnce` |
| `provider_account.c:235` | tests for errors with `rv>0`, errors are negative: `AB_Provider_DeleteAccount()` reports success whatever failed, against `provider_be.h:384` | `DeleteFails`; `delete` in `SpecHasAccount` |
| `provider_user.c:169` | an error code of `AB_Banking_GetNamedUniqueId()` becomes the id of the user; the next user with the same error takes its place | `AddUserBadId` |
| `banking_online.c:756` | logs that a backend is not available and returns 0; its commands stay enqueued | `ProviderUnavailable`, `Sent` |
| `aqofxconnect/provider_sendcmd.c:117` (and `aqpaypal/provider_sendcmd.c:148`, which passes no status on) | compares first dates only, while last dates are sent; a request without dates gives way: a command is accepted on an answer with less than it has asked for, against `:98` ("once is enough") | `Answers`, `Replaced`; `SameEnd` in `AcceptedWasAnswered` |
| `aqpaypal/provider_sendcmd.c:438`, `aqofxconnect/provider_sendcmd.c:392`, `aqebics/client/provider_sendcmd.c:108` | ignores the result of abandoning a user whose use cannot be ended: the user stays locked, and 0 is returned all the same | `Abandon`; `stuck` in `LockDiscipline` |
| `aqofxconnect/provider_sendcmd.c:247` | goes through the jobs once: a job whose answer is that of a job which itself refers to a later one gets the status from before | `Finish` |
| `aqofxconnect/provider_sendcmd.c:120` | looks for later dates only: a job is sent although one with an earlier date is in the list, against the comment at `:99` ("once is enough") | `Answers` in `AddJob` |
| `aqpaypal/provider_sendcmd.c:241` | sets the status to accepted over the error that `provider_getstm.c:100` has set | `NoDetails`, then `Answer` |
| `aqebics/client/provider_sendcmd.c:255` | leaves a request that was answered with data enqueued | `Answer` |
| `cbox_voptan.c:769` | "result "MATCH" not found, need to add workJob again" comments a condition that is narrower: the answer must also have the code 20 | `FirstRelease`; `OrderRepeatedForCause` states what the code does |
| `aqebics/requests/r_download_h003.c:330` | never asks for the last of three or more segments: the download fails | `LastSegment`; the second disjunct of `FaultlessSucceeds` |
| `aqebics/requests/r_download_h003.c:117`, `:128`, `r_upload_h003.c:206` | an answer without transaction id or segments is a success without data | `NoTransaction`, `NoUploadTransaction`; `trouble` = `ignored` |
| `aqebics/requests/r_upload_h003.c:257`, `r_download_h002.c` (receipt) | do not look at the result code in the body of the answer | `SegmentRefused`, `ReceiptRefused`; `trouble` = `ignored` |
| `aqebics/client/p_tools.c:684` | the receipt is sent before the data are imported: a failure in between loses them, with an error | premise of `NothingLost` |
| `aqebics/dialogs/dlg_newkeyfile.c:1118` | deletes user and key file although the bank may have the keys: the user has to be reset by the bank | `Undo`; `disturbed` |
| `aqebics/control/createkeys.c:118` | replaces the keys of a user of whom the bank has keys | `CreateKeys`; `disturbed` |

## 4. The proofs

All proofs hold for any number of processes, users, jobs, calls, segments and polls;
the only assumptions are the named `ASSUME`s on the constants, and for the theorems
`Invariant`, `AllLocksWhileSending` and `NothingLost` of `ExclUse` that no session of
kind `reopen` takes part (`NoReopen`), without which they are false.

- `UniqueId_proofs`.  `IInv` says that a process between lock and unlock owns the
  lock (`LockProtects`), hence that its copy is the stored group
  (`CopyIsCurrent`), and that no id taken is above its counter
  (`TakenBelowCounter`).  The last one needs the second, which needs the first;
  none of them is inductive alone.  From it: `IdsAreUnique`, `CountersOnlyRise`,
  `SuccessReleasesLock`, and `Refinement`, where every step maps to a step or a
  stutter of `UniqueIdAbs` and `SetGroup` to the draw.
- `ExclUse_proofs`.  `IInv` adds the bookkeeping of the phases (`PhaseOK`) to
  `Exclusive`, and `CopyIsCurrent` in the form that the stored set is contained in
  the copy, which deletion preserves.  From it: `AllLocksWhileSending` and
  `NothingLost`.  Two more invariants hold for sessions of every kind.
  `NothingLeaks`: as long as `leaky` is false, the locks a process owns are those it
  knows of.  `SuccessReleasesAll` (from `ReleaseInv`): of the users of a session that
  is at its end and has seen no error, only those it has still to release are its own.
- `Outbox_proofs`.  `IInv` consists of `OnePlace`, of what holds at each place of
  the code (`PhaseInv`), of `FailedInv` (as long as the box goes on, none of its
  jobs has failed and those that are finished were sent), `OrderInv` (what is known of an order is the answer to its one message)
  and `StatusInv` (a transaction is enqueued only if its order never went out).
  That an order goes out at most once needs the last two together: a second call
  takes only enqueued transactions.  One lemma per action and conjunct that the
  action can disturb.  From it: `JobsHaveOnePlace`, `DialogDiscipline`,
  `FailureStopsBox`, `AtMostOnce`, `StatusIsTrue`, and `Refinement` of
  `JobDelivery`.
- `VopTan_proofs`.  `IInv` consists of `MessageInv` (which message goes out where,
  and what is in it), `BankInv` (what the bank has got at each place: the order
  once, `BankOnce`, or twice, `BankTwice`), `VppInv` (after the verification the
  payee is not rejected, and accepted if doubtful), `TanInv` (the reference is
  that of the last challenge) and the five properties.  `ConsentComesFirst` needs
  `VppInv` for the question and `BankInv` for the time before it;
  `SuccessMeansConfirmed` needs that no release was sent for the first order of a
  bank that wants a check; none of the properties is inductive alone.  One lemma
  per part (`MessageStep`, `BankStep`, `VppStep`, `TanStep`, ...), with a step per
  action.  From it: `TypeCorrect`, `Consent`, `NoNeedlessRepeat`, `RightChallenge`, `Released`,
  `Confirmed`, the action properties `Last` (nothing of the order changes for the bank
  after its release) and `NoIsNo`, and `Refinement`, where
  sending a message maps to `PaymentConsent`'s `Message`, the last answer to HKVPP
  to `Raise` or a stutter, the user's consent to `Accept`, and the return to `End`.
- `ConfigUpdate_proofs`.  `IInv` says that a group about to be deleted is there
  under its new name, which gives `NothingLost`; and that every group *and every copy
  a program holds, however old*, knows the user of its account unless the account was
  converted twice (`KnowsAll`), which gives `UserKept` and is inductive only with the
  copies.  `CompleteWhenCurrent` needs a second invariant, `AloneInv`: as long as no
  two programs have run at once, what the phases so far were to do is done for all
  groups but those the one running program still has before it (`Progress`), and all
  is done when the version is current.
- `AccountStore_proofs`.  Its `IInv` says that what a program is about to write has an id
  (`OwnIds`), that a program about to delete a user has overlooked no account that used
  it all along (`NotOverlooked`: such an account is listed and unread, or read, or
  the reading is marked partial), and, as long as one program works at a time, what
  the specs it has read and the accounts it has written are worth (`AccountsInv`,
  `SpecsInv`).  From it: `NoSecondSpec`, `SpecsHaveAccounts`, `NoUsedUserDeleted`.
- `SendCommands_proofs`.  The parts of `IInv` need one another.  A command is in one
  queue and an account in one list (`QueuesOK`, `ListsOK`, `PhaseOK`), so a command
  that has not been looked at refers to nothing (`Untouched`), nor does one in
  the list of those to be sent (`ToSendOK`): a reference is set once and stays.  In
  aqofxconnect, where an answer is passed on along the references, it leads to a command
  that begins no later (`RefersBack`); that relation (`Begins`) is transitive, which
  keeps `AcceptedBegins` without following a chain, and with `SameEndCovers` (among
  requests with the same end, one that begins no later asks for more) gives
  `AcceptedRestsOnAnswer`.  `Accounted` says that,
  as long as nothing has failed, every command waits with its account (`Pending`), or
  its references lead to one that is about to be sent or settled.  `LeadsTo` says this
  of a finite chain of any length without recursion: every set of commands that
  contains the first and is closed under the references contains such an end.  The
  lemmas `LeadsToMore`, `LeadsToSelf` and `LeadsToFurther` (a chain that is extended
  at its end) stand for the induction; a circle of references, which would lead
  nowhere, is excluded with it.  From it: `TypeCorrect`, `AcceptedRestsOnAnswer`,
  `NoJobForgotten`, and `RequestsUnderLock`, for which `PhaseOK` says whose lock is
  held in which phase, and that all others are `stuck`.
- `Ebics_proofs` holds the proofs of both EBICS modules.  For `EbicsKeys`, `IInv` says
  of every copy of the user, however old, what `StatusIsTrue` says of the stored one,
  which is inductive because what is true of the bank stays true; `LockOK` says that a
  program under the lock has all flags that are stored, which gives `FlagsOnlyGrow`.
  For `EbicsTransfer`, whose names differ from those of `EbicsKeys` so that one module
  can extend both, `TransferInv` has `PhaseOK`: at every step the buffer, or what the
  bank has got, is a prefix of the segments in order, and a call in which something
  was ignored has nothing that could get lost. From it: `TransferInvariant`,
  `NothingIsLost`, `WholeOnSuccess`, `FaultlessDoesNotFail`.

Every safety and action property of the runs is proved, but for `NoLostUpdate` in
`excl_use_reopen`, which is false there.  Only model-checked: the liveness properties
(`CallReturns`, `SessionEnds`, `CallEnds` of `Outbox` and of `VopTan`, `AllFinished`,
`UpdateCompletes`), since the prover has neither fairness nor `ENABLED`.

## 5. What is not modelled

Encoding, parsing, cryptography, conversion of files, user interface, argument
parsing: data without protocol.  They are most of the repository (message engine,
im- and exporters, SWIFT parser, bank directories, generated types, the ids of jobs
and the layout of messages in every backend), which is why the modules cover a
small share of its lines.  Wording of messages and logs.  Memory management.

Of the protocols: opening a dialog with a TAN, TAN methods and their input
(`cbox_psd2.c`, `cbox_itan.c`, `tan/`), queues with several jobs in one message and
their segment numbers, message numbers and dialog ids, the results of an order with
several messages *and* a TAN; of EBICS the requests PUB, HPD, HKD and HTD, the
version H004 of transfers, commands and dialogs that set flags and status by
hand; copying the settings folder of an older version; the session of aqfints, which
is in development; the requests of aqofxconnect, aqpaypal and aqgivve.  In the
models: a lock that is found stale while its owner lives, a disk that loses what
was written, more than 2^31 ids.
