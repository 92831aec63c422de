----------------------------- MODULE EbicsKeys ------------------------------
(***************************************************************************)
(* How a user of the EBICS backend is initialised: keys are created and    *)
(* sent to the bank (INI: signature key, HIA: the other two), the bank     *)
(* enables the user by hand, the bank's keys are fetched (HPB).            *)
(*                                                                         *)
(*   EBC_Provider_Send_INI(), _HIA(), _HPB(), CreateKeys()                 *)
(*                                        aqebics/client/p_tools.c         *)
(*   EBC_Provider_XchgIniRequest_H003(), ...       aqebics/requests/       *)
(*   the commands sendkeys, getkeys, createkeys, resetuser                 *)
(*   the dialog for a new key file                 dialogs/dlg_newkeyfile.c *)
(*                                                                         *)
(* Each process is a program that runs one of the commands, or the dialog, *)
(* for the same user.  A command reads the user without a lock, checks     *)
(* what it read, and locks and reads it again (AB_Provider_BeginExclUse-   *)
(* User(), one step here, see ExclUse) before it talks to the bank.  The   *)
(* bank, the user's key file and the network are external: the bank takes  *)
(* the keys of a user once; requests and answers may get lost.             *)
(***************************************************************************)
EXTENDS Integers

CONSTANTS
    Proc,
    Nobody,   \* no process holds the lock
    MaxRuns   \* bound: commands and dialogs started

ASSUME EbicsKeysAssumption == Nobody \notin Proc /\ MaxRuns \in Nat

Flag   == {"INI", "HIA"}
Status == {"new", "init1", "init2", "enabled"}
Config == [flags : SUBSET Flag, status : Status]
NewUser == [flags |-> {}, status |-> "new"]

VARIABLES
    exists,  \* is there a configuration of the user?
    user,    \* the stored configuration
    lock,    \* who holds its lock
    keyFile, \* generation of the keys in the key file, 0: there is none
    stored,  \* keys of the bank that the key file has
    bank,    \* generation of the user's keys at the bank, by request
    active,  \* has the bank enabled the user?
    pc,      \* where a process stands
    dialog,  \* is it the dialog?
    req,     \* its request: "ini", "hia", "hpb", or "reset"
    copy,    \* its copy of the configuration (AB_USER)
    runs,    \* number of commands started
    created, \* number of times keys were created
    disturbed \* were keys created, or thrown away, while the bank had
              \* some or another program was at work?

world == <<keyFile, stored, bank, active, created, disturbed>>
vars  == <<exists, user, lock, pc, dialog, req, copy, runs, world>>

PC == {"idle", "check", "lock", "create", "exchange", "auth", "crypt", "write",
       "abandon", "undo", "undoUser"}

Init ==
    /\ exists = FALSE /\ user = NewUser /\ lock = Nobody
    /\ keyFile = 0 /\ stored = {}
    /\ bank = [r \in {"ini", "hia"} |-> 0] /\ active = FALSE
    /\ pc = [p \in Proc |-> "idle"] /\ dialog = [p \in Proc |-> FALSE]
    /\ req = [p \in Proc |-> "ini"] /\ copy = [p \in Proc |-> NewUser]
    /\ runs = 0 /\ created = 0 /\ disturbed = FALSE

Goto(p, l) == pc' = [pc EXCEPT ![p] = l]
FlagOf(r)  == IF r = "ini" THEN "INI" ELSE "HIA"

Start(p, l, r, d) ==
    /\ pc[p] = "idle" /\ runs < MaxRuns
    /\ runs' = runs + 1
    /\ Goto(p, l)
    /\ req' = [req EXCEPT ![p] = r]
    /\ dialog' = [dialog EXCEPT ![p] = d]
    /\ UNCHANGED lock

\* AB_Provider_GetUser(pro, uid, 1, 1, &u), which waits for no lock.
Command(p, l, r) ==
    /\ exists /\ lock = Nobody
    /\ Start(p, l, r, FALSE)
    /\ copy' = [copy EXCEPT ![p] = user]
    /\ UNCHANGED <<exists, user, world>>

\* The dialog makes an empty key file and a user before it locks it.
NewDialog(p) ==
    /\ ~exists /\ keyFile = 0
    /\ Start(p, "lock", "ini", TRUE)
    /\ exists' = TRUE /\ user' = NewUser
    /\ copy' = [copy EXCEPT ![p] = NewUser]
    /\ stored' = {}
    /\ UNCHANGED <<keyFile, bank, active, created, disturbed>>

-----------------------------------------------------------------------------
(* EBC_Provider_Send_INI(), _HIA(), _HPB().                                *)

Allowed(r, u) ==
    IF r = "hpb" THEN u.status \in {"init2", "enabled"}
    ELSE u.status \in {"new", "init1"}

\* Flags and status are those the command has read without the lock.
Check(p) ==
    /\ pc[p] = "check"
    /\ FlagOf(req[p]) \notin copy[p].flags \/ req[p] = "hpb"
    /\ Goto(p, IF Allowed(req[p], copy[p]) THEN "lock" ELSE "idle")
    /\ UNCHANGED <<exists, user, lock, dialog, req, copy, runs, world>>

\* sendkeys goes from INI to HIA.
AfterRequest(p) ==
    IF req[p] = "ini"
      THEN req' = [req EXCEPT ![p] = "hia"] /\ Goto(p, "check")
      ELSE UNCHANGED req /\ Goto(p, "idle")

SentAlready(p) ==
    /\ pc[p] = "check" /\ req[p] # "hpb"
    /\ FlagOf(req[p]) \in copy[p].flags
    /\ AfterRequest(p)
    /\ UNCHANGED <<exists, user, lock, dialog, copy, runs, world>>

Place(p) == IF dialog[p] THEN "create"
            ELSE IF req[p] = "reset" THEN "write" ELSE "exchange"

Reread(p) == IF req[p] = "reset" THEN NewUser ELSE user

\* Mutant: the user is not read again.
Lock_Stale(p) ==
    /\ pc[p] = "lock" /\ lock = Nobody /\ exists
    /\ lock' = p
    /\ Goto(p, Place(p))
    /\ UNCHANGED <<exists, user, dialog, req, copy, runs, world>>

Lock(p) ==
    /\ pc[p] = "lock" /\ lock = Nobody /\ exists
    /\ lock' = p
    /\ copy' = [copy EXCEPT ![p] = Reread(p)]
    /\ Goto(p, Place(p))
    /\ UNCHANGED <<exists, user, dialog, req, runs, world>>

\* The lock is held, cannot be had, or the user is gone.
LockFails(p) ==
    /\ pc[p] = "lock"
    /\ Goto(p, IF dialog[p] THEN "undo" ELSE "idle")
    /\ UNCHANGED <<exists, user, lock, dialog, req, copy, runs, world>>

Disturbs(p) == \/ \E r \in {"ini", "hia"} : bank[r] # 0
               \/ \E q \in Proc \ {p} : pc[q] # "idle"

\* EBC_Provider_CreateKeys(): of the dialog, or of the command, which takes
\* no lock and looks at no status.  The dialog leaves the token open; keyFile
\* is what the token holds, that a crash may lose it unwritten is left out.
CreateKeys(p) ==
    /\ pc[p] = "create" /\ (dialog[p] \/ keyFile # 0)
    /\ created' = created + 1 /\ keyFile' = created + 1
    /\ disturbed' = (disturbed \/ Disturbs(p))
    /\ Goto(p, IF dialog[p] THEN "exchange" ELSE "idle")
    /\ UNCHANGED <<exists, user, lock, dialog, req, copy, runs, stored, bank,
                   active>>

CreateFails(p) ==
    /\ pc[p] = "create"
    /\ Goto(p, IF dialog[p] THEN "abandon" ELSE "idle")
    /\ UNCHANGED <<exists, user, lock, dialog, req, copy, runs, world>>

\* Mutant: the user is ready when one of the keys was sent.
WithFlag_Ready(u, f) == [flags |-> u.flags \cup {f}, status |-> "init2"]

WithFlag(u, f) ==
    [flags  |-> u.flags \cup {f},
     status |-> IF u.flags \cup {f} = Flag THEN "init2" ELSE "init1"]

\* The bank takes a user's key if it has none.
BankTakes(r) ==
    /\ keyFile # 0 /\ bank[r] = 0
    /\ bank' = [bank EXCEPT ![r] = keyFile]

\* INI or HIA; the dialog sends both under the same lock.
SendKeys(p) ==
    /\ pc[p] = "exchange" /\ req[p] # "hpb"
    /\ BankTakes(req[p])
    /\ copy' = [copy EXCEPT ![p] = WithFlag(@, FlagOf(req[p]))]
    /\ IF dialog[p] /\ req[p] = "ini"
         THEN req' = [req EXCEPT ![p] = "hia"] /\ UNCHANGED pc
         ELSE UNCHANGED req /\ Goto(p, "write")
    /\ UNCHANGED <<exists, user, lock, dialog, runs, keyFile, stored, active,
                   created, disturbed>>

\* The answer to HPB; the request was signed with the user's key.
GetKeys(p) ==
    /\ pc[p] = "exchange" /\ req[p] = "hpb"
    /\ active /\ keyFile = bank["hia"]
    /\ Goto(p, "auth")
    /\ UNCHANGED <<exists, user, lock, dialog, req, copy, runs, world>>

\* The request is refused, or it or its answer gets lost.
ExchangeFails(p) ==
    /\ pc[p] = "exchange"
    /\ Goto(p, "abandon")
    /\ \/ UNCHANGED bank
       \/ req[p] # "hpb" /\ BankTakes(req[p])
    /\ UNCHANGED <<exists, user, lock, dialog, req, copy, runs, keyFile, stored,
                   active, created, disturbed>>

\* The user of the dialog stops it after INI or HIA.
UserAborts(p) ==
    /\ dialog[p] /\ pc[p] \in {"exchange", "write"}
    /\ Goto(p, "abandon")
    /\ UNCHANGED <<exists, user, lock, dialog, req, copy, runs, world>>

StoreAuthKey(p) ==
    /\ pc[p] = "auth"
    /\ stored' = stored \cup {"auth"}
    /\ Goto(p, "crypt")
    /\ UNCHANGED <<exists, user, lock, dialog, req, copy, runs, keyFile, bank,
                   active, created, disturbed>>

Enabled(u) == IF u.flags = Flag THEN [u EXCEPT !.status = "enabled"] ELSE u

StoreCryptKey(p) ==
    /\ pc[p] = "crypt"
    /\ stored' = stored \cup {"crypt"}
    /\ copy' = [copy EXCEPT ![p] = Enabled(@)]
    /\ Goto(p, "write")
    /\ UNCHANGED <<exists, user, lock, dialog, req, runs, keyFile, bank, active,
                   created, disturbed>>

StoreFails(p) ==
    /\ pc[p] \in {"auth", "crypt"}
    /\ Goto(p, "abandon")
    /\ UNCHANGED <<exists, user, lock, dialog, req, copy, runs, world>>

\* AB_Provider_EndExclUseUser(pro, u, 0).
Write(p) ==
    /\ pc[p] = "write"
    /\ user' = copy[p] /\ exists' = TRUE
    /\ lock' = Nobody
    /\ IF dialog[p] THEN Goto(p, "idle") /\ UNCHANGED req ELSE AfterRequest(p)
    /\ UNCHANGED <<dialog, copy, runs, world>>

WriteFails(p) ==
    /\ pc[p] = "write"
    /\ lock' = Nobody
    /\ Goto(p, IF dialog[p] THEN "undoUser" ELSE "idle")
    /\ UNCHANGED <<exists, user, dialog, req, copy, runs, world>>

\* AB_Provider_EndExclUseUser(pro, u, 1).
Abandon(p) ==
    /\ pc[p] = "abandon"
    /\ lock' = Nobody
    /\ Goto(p, IF dialog[p] THEN "undo" ELSE "idle")
    /\ UNCHANGED <<exists, user, dialog, req, copy, runs, world>>

\* The dialog deletes the user, and, unless only the last write has failed,
\* the key file, whatever the bank has got of it.
Undo(p) ==
    /\ pc[p] \in {"undo", "undoUser"}
    /\ exists' = FALSE /\ user' = NewUser
    /\ IF pc[p] = "undo" THEN keyFile' = 0 /\ stored' = {}
                         ELSE UNCHANGED <<keyFile, stored>>
    /\ disturbed' = (disturbed \/ Disturbs(p))
    /\ Goto(p, "idle")
    /\ UNCHANGED <<lock, dialog, req, copy, runs, bank, active, created>>

\* The process dies; its lock is found stale and removed.
Crash(p) ==
    /\ pc[p] # "idle"
    /\ Goto(p, "idle")
    /\ lock' = IF lock = p THEN Nobody ELSE lock
    /\ UNCHANGED <<exists, user, dialog, req, copy, runs, world>>

\* The bank has received the letter with the hashes of the keys.
Activate ==
    /\ ~active /\ \A r \in {"ini", "hia"} : bank[r] # 0
    /\ active' = TRUE
    /\ UNCHANGED <<exists, user, lock, pc, dialog, req, copy, runs, keyFile,
                   stored, bank, created, disturbed>>

-----------------------------------------------------------------------------
Request(p) ==
    \/ Check(p) \/ SentAlready(p) \/ Lock(p) \/ LockFails(p)
    \/ CreateKeys(p) \/ CreateFails(p)
    \/ SendKeys(p) \/ GetKeys(p) \/ ExchangeFails(p) \/ UserAborts(p)
    \/ StoreAuthKey(p) \/ StoreCryptKey(p) \/ StoreFails(p)
    \/ Write(p) \/ WriteFails(p) \/ Abandon(p) \/ Undo(p)

Next ==
    \/ \E p \in Proc :
          \/ NewDialog(p)
          \/ \E r \in {"ini", "hia", "hpb"} : Command(p, "check", r)
          \/ Command(p, "lock", "reset") \/ Command(p, "create", "ini")
          \/ Request(p) \/ Crash(p)
    \/ Activate

Spec == Init /\ [][Next]_vars

-----------------------------------------------------------------------------
\* Types of the variables.
TypeOK ==
    /\ exists \in BOOLEAN /\ user \in Config /\ lock \in Proc \cup {Nobody}
    /\ keyFile \in Nat /\ stored \subseteq {"auth", "crypt"}
    /\ bank \in [{"ini", "hia"} -> Nat] /\ active \in BOOLEAN
    /\ pc \in [Proc -> PC] /\ dialog \in [Proc -> BOOLEAN]
    /\ req \in [Proc -> {"ini", "hia", "hpb", "reset"}]
    /\ copy \in [Proc -> Config]
    /\ runs \in Nat /\ created \in Nat /\ disturbed \in BOOLEAN

\* What a configuration says of a user is true, and its status agrees with its
\* flags: a flag means that the bank has the key; an enabled user has sent both,
\* and has both of the bank's.  Then the bank has the keys of the key file,
\* unless they were changed in the course of it.
IsTrue(u) ==
    /\ "INI" \in u.flags => bank["ini"] # 0
    /\ "HIA" \in u.flags => bank["hia"] # 0
    /\ u.status = "new" <=> u.flags = {}
    /\ u.status \in {"init2", "enabled"} <=> u.flags = Flag
    /\ u.status = "enabled" => active
    /\ u.status = "enabled" /\ ~disturbed =>
          /\ stored = {"auth", "crypt"}
          /\ bank["ini"] = keyFile /\ bank["hia"] = keyFile

\* The stored configuration of the user is true, whichever programs work on
\* it and wherever they fail (EBC_Provider_Send_INI(), _HIA(), _HPB()).
StatusIsTrue == IsTrue(user)

\* What a program has found out about a user no other one takes back: flags
\* disappear only with a reset, or with the user.
FlagsGrow ==
    [][\/ user.flags \subseteq user'.flags
       \/ \E p \in Proc : pc[p] = "write" /\ req[p] = "reset" /\ lock = p
       \/ ~exists']_vars

\* The bank's view: it has keys of the key file, or none, and enables a user
\* of whom it has all; the answer to HPB is that of an enabled user.
BankOK ==
    /\ active => bank["ini"] # 0 /\ bank["hia"] # 0
    /\ ~disturbed => bank["ini"] \in {0, keyFile} /\ bank["hia"] \in {0, keyFile}
    /\ \A p \in Proc : pc[p] \in {"auth", "crypt"} => active
    /\ \A p \in Proc : pc[p] = "crypt" /\ ~disturbed => "auth" \in stored

\* Between Lock and the end of the use a process holds the lock.
Holds(p) == \/ pc[p] \in {"exchange", "auth", "crypt", "write", "abandon"}
            \/ pc[p] = "create" /\ dialog[p]

LockOK ==
    /\ ~exists => user = NewUser
    /\ \A p \in Proc : Holds(p) => lock = p
    /\ \A p \in Proc : Holds(p) /\ req[p] # "reset" =>
                           user.flags \subseteq copy[p].flags
    /\ \A p \in Proc : dialog[p] \/ pc[p] = "exchange" => req[p] # "reset"

\* The inductive invariant: no copy is wrong, however old it is.
IInv ==
    /\ TypeOK
    /\ StatusIsTrue
    /\ \A p \in Proc : IsTrue(copy[p])
    /\ BankOK
    /\ LockOK
=============================================================================
