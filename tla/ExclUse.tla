------------------------------ MODULE ExclUse -------------------------------
(***************************************************************************)
(* Exclusive use of user configurations by several processes.              *)
(*                                                                         *)
(* A session is a program that uses AB_Provider_BeginExclUseUser() and     *)
(* AB_Provider_EndExclUseUser() (backendsupport/provider_user.c):          *)
(*   "edit"  a dialog or a control command: lock and read one user, change *)
(*           it, write and unlock it; if that fails, just unlock it;       *)
(*   "send"  AH_Outbox_Execute(): lock and read every user that has jobs,  *)
(*           talk to the banks, write and unlock every user.  If a user    *)
(*           cannot be locked, those already locked are just unlocked.     *)
(*   "reopen" the use the comments in provider_be.h allow: read the user     *)
(*           with doLock and doUnlock both set, change it, EndExclUseUser(). *)
(* AB_Provider_DeleteUser() runs beside them and takes no lock.            *)
(*                                                                         *)
(* A user's configuration is the set of sessions whose change it contains. *)
(* The order in which a session visits its users is the order in which     *)
(* jobs were added to the outbox: any order.  The config manager is        *)
(* external: see UniqueId.                                                 *)
(***************************************************************************)
EXTENDS Integers

CONSTANTS
    Proc,        \* processes that share the settings folder
    User,        \* users, by unique id
    Nobody,      \* no process holds the lock
    MaxSession,  \* bound: number of sessions in a behaviour
    Kind,        \* kinds of sessions, a set of members of AllKinds
    Fault        \* which faults occur, a set of members of AllFaults

AllKinds  == {"edit", "send", "reopen"}
AllFaults == {"lock", "read", "write", "unlock", "crash", "delete"}

ASSUME ExclUseAssumption ==
    /\ Nobody \notin Proc
    /\ MaxSession \in Nat
    /\ Kind \subseteq AllKinds
    /\ Fault \subseteq AllFaults

VARIABLES
    owner,    \* holder of the lock of a user's config group
    exists,   \* is there a config group with a unique id in it?
    stored,   \* its content: the sessions whose change it contains
    pc,       \* where the session of a process stands
    kind,     \* kind of its session
    users,    \* the users of the session
    locked,   \* the users it has locked and read (lockedUsers)
    cur,      \* the user it is busy with
    copy,     \* its private copies of the configurations (AB_USER objects)
    err,      \* has something failed?
    sess,     \* number of its session
    started,  \* number of sessions started so far
    leaky     \* has a write or an unlock failed, a process died or a user been
              \* deleted, so far?

store == <<exists, stored>>
vars == <<owner, exists, stored, pc, kind, users, locked, cur, copy, err,
          sess, started, leaky>>

PC == {"idle", "lock", "read", "drop", "use", "end", "unlock", "abandon",
       "dead"}

Init ==
    /\ owner  = [u \in User |-> Nobody]
    /\ exists = [u \in User |-> TRUE]
    /\ stored = [u \in User |-> {}]
    /\ pc     = [p \in Proc |-> "idle"]
    /\ kind   \in [Proc -> Kind]
    /\ users  = [p \in Proc |-> {}]
    /\ locked = [p \in Proc |-> {}]
    /\ cur    \in [Proc -> User]
    /\ copy   = [p \in Proc |-> [u \in User |-> {}]]
    /\ err    = [p \in Proc |-> FALSE]
    /\ sess   = [p \in Proc |-> 0]
    /\ started = 0
    /\ leaky = FALSE

Goto(p, l) == pc' = [pc EXCEPT ![p] = l]
Failed(p)  == err' = [err EXCEPT ![p] = TRUE]

Start(p, k, us) ==
    /\ pc[p] = "idle"
    /\ started < MaxSession
    /\ started' = started + 1
    /\ sess'  = [sess EXCEPT ![p] = started + 1]
    /\ kind'  = [kind EXCEPT ![p] = k]
    /\ users' = [users EXCEPT ![p] = us]
    /\ err'   = [err EXCEPT ![p] = FALSE]
    /\ Goto(p, "lock")
    /\ UNCHANGED <<owner, store, locked, cur, copy, leaky>>

-----------------------------------------------------------------------------
(* BeginExclUseUser() of the next user.                                    *)

\* Mutant: the group is read without being locked (doLock=0).
LockUser_NoLock(p, u) ==
    /\ pc[p] = "lock"
    /\ u \in users[p] \ locked[p]
    /\ owner' = [owner EXCEPT ![u] = p]
    /\ cur' = [cur EXCEPT ![p] = u]
    /\ Goto(p, "read")
    /\ UNCHANGED <<store, kind, users, locked, copy, err, sess, started,
                   leaky>>

LockUser(p, u) ==
    /\ pc[p] = "lock"
    /\ u \in users[p] \ locked[p]
    /\ owner[u] = Nobody
    /\ owner' = [owner EXCEPT ![u] = p]
    /\ cur' = [cur EXCEPT ![p] = u]
    /\ Goto(p, "read")
    /\ UNCHANGED <<store, kind, users, locked, copy, err, sess, started,
                   leaky>>

\* Mutant: a session that cannot lock a user keeps those it has locked.
GiveUp_KeepLocked(p) ==
    /\ Failed(p)
    /\ Goto(p, "abandon")
    /\ locked' = [locked EXCEPT ![p] = {}]
    /\ UNCHANGED <<store, kind, users, cur, copy, sess, started>>

\* The session ends: the users locked so far are unlocked, not written.
GiveUp(p) ==
    /\ Failed(p)
    /\ Goto(p, "abandon")
    /\ UNCHANGED <<store, kind, users, locked, cur, copy, sess, started>>

\* Mutant: the lock attempt blocks for as long as the lock is held.
LockFails_Blocks(p, u) ==
    /\ pc[p] = "lock"
    /\ u \in users[p] \ locked[p]
    /\ "lock" \in Fault
    /\ GiveUp(p)
    /\ UNCHANGED <<owner, leaky>>

\* The lock is held, by anybody, or the attempt fails for another reason.
LockFails(p, u) ==
    /\ pc[p] = "lock"
    /\ u \in users[p] \ locked[p]
    /\ owner[u] # Nobody \/ "lock" \in Fault
    /\ GiveUp(p)
    /\ UNCHANGED <<owner, leaky>>

AddLocked(p) ==
    /\ locked' = [locked EXCEPT ![p] = @ \cup {cur[p]}]
    /\ Goto(p, IF locked'[p] = users[p] THEN "use" ELSE "lock")

\* Mutant: the object keeps what it was created with, it is not read again.
ReadUser_Stale(p) ==
    /\ pc[p] = "read"
    /\ exists[cur[p]]
    /\ AddLocked(p)
    /\ UNCHANGED <<owner, store, kind, users, cur, copy, err, sess, started,
                   leaky>>

ReadUser(p) ==
    /\ pc[p] = "read"
    /\ exists[cur[p]]
    /\ copy' = [copy EXCEPT ![p][cur[p]] = stored[cur[p]]]
    /\ IF kind[p] = "reopen"
         THEN Goto(p, "drop") /\ UNCHANGED locked
         ELSE AddLocked(p)
    /\ UNCHANGED <<owner, store, kind, users, cur, err, sess, started, leaky>>

\* GWEN_ConfigMgr_GetGroup() fails: the group is unlocked again, and nobody
\* looks at the result of that.
ReadFails(p) ==
    /\ pc[p] = "read"
    /\ "read" \in Fault
    /\ \/ owner' = [owner EXCEPT ![cur[p]] = Nobody] /\ UNCHANGED leaky
       \/ "unlock" \in Fault /\ UNCHANGED owner /\ leaky' = TRUE
    /\ GiveUp(p)

\* The group was read but holds no unique id: the lock is NOT released.
ReadNotFound(p) ==
    /\ pc[p] = "read"
    /\ ~exists[cur[p]]
    /\ GiveUp(p)
    /\ UNCHANGED owner
    /\ leaky' = TRUE

\* The unlock that doUnlock asks for; if it fails, so does the read.
DropLock(p) ==
    /\ pc[p] = "drop"
    /\ owner' = [owner EXCEPT ![cur[p]] = Nobody]
    /\ AddLocked(p)
    /\ UNCHANGED <<store, kind, users, cur, copy, err, sess, started, leaky>>

DropFails(p) ==
    /\ pc[p] = "drop"
    /\ "unlock" \in Fault
    /\ GiveUp(p)
    /\ UNCHANGED owner
    /\ leaky' = TRUE

-----------------------------------------------------------------------------
(* The use of the objects, then EndExclUseUser() of every user.            *)

\* The session changes the objects it holds.  Whatever comes of the talk to
\* the banks, the outbox writes the users back.
Use(p) ==
    /\ pc[p] = "use"
    /\ copy' = [copy EXCEPT ![p] =
                  [u \in User |-> IF u \in users[p] THEN @[u] \cup {sess[p]}
                                                    ELSE @[u]]]
    /\ Goto(p, "end")
    /\ UNCHANGED <<owner, store, kind, users, locked, cur, err, sess, started,
                   leaky>>

\* An editor that fails, or is told to, abandons the user.
UseFails(p) ==
    /\ pc[p] = "use"
    /\ kind[p] # "send"
    /\ GiveUp(p)
    /\ UNCHANGED <<owner, leaky>>

WriteUser(p, u) ==
    /\ pc[p] = "end"
    /\ u \in locked[p]
    /\ stored' = [stored EXCEPT ![u] = copy[p][u]]
    /\ exists' = [exists EXCEPT ![u] = TRUE]
    /\ cur' = [cur EXCEPT ![p] = u]
    /\ Goto(p, "unlock")
    /\ UNCHANGED <<owner, kind, users, locked, copy, err, sess, started,
                   leaky>>

\* An editor then abandons the user; the outbox counts the error and goes on
\* with the next user, so that this one stays locked.
EndFails(p, u) ==
    /\ Failed(p)
    /\ IF kind[p] # "send"
         THEN Goto(p, "abandon") /\ UNCHANGED locked
         ELSE Goto(p, "end") /\ locked' = [locked EXCEPT ![p] = @ \ {u}]
    /\ UNCHANGED <<owner, kind, users, copy, sess, started>>

WriteFails(p, u) ==
    /\ pc[p] = "end"
    /\ u \in locked[p]
    /\ "write" \in Fault
    /\ EndFails(p, u)
    /\ UNCHANGED <<store, cur>>
    /\ leaky' = TRUE

UnlockUser(p) ==
    /\ pc[p] = "unlock"
    /\ owner[cur[p]] = p
    /\ owner' = [owner EXCEPT ![cur[p]] = Nobody]
    /\ locked' = [locked EXCEPT ![p] = @ \ {cur[p]}]
    /\ Goto(p, "end")
    /\ UNCHANGED <<store, kind, users, cur, copy, err, sess, started, leaky>>

\* Mutant: the result of the unlock is not looked at.
UnlockFails_Ignored(p) ==
    /\ pc[p] = "unlock"
    /\ owner[cur[p]] # p \/ "unlock" \in Fault
    /\ locked' = [locked EXCEPT ![p] = @ \ {cur[p]}]
    /\ Goto(p, "end")
    /\ UNCHANGED <<owner, store, kind, users, cur, copy, err, sess, started,
                   leaky>>

UnlockFails(p) ==
    /\ pc[p] = "unlock"
    /\ owner[cur[p]] # p \/ "unlock" \in Fault
    /\ EndFails(p, cur[p])
    /\ UNCHANGED <<store, cur>>
    /\ leaky' = (leaky \/ owner[cur[p]] = p)

\* EndExclUseUser() with abandon: errors are logged, no more.
AbandonUser(p, u) ==
    /\ pc[p] = "abandon"
    /\ u \in locked[p]
    /\ \/ owner[u] = p /\ owner' = [owner EXCEPT ![u] = Nobody]
          /\ UNCHANGED leaky
       \/ (owner[u] # p \/ "unlock" \in Fault) /\ UNCHANGED owner
          /\ leaky' = (leaky \/ owner[u] = p)
    /\ locked' = [locked EXCEPT ![p] = @ \ {u}]
    /\ UNCHANGED <<store, pc, kind, users, cur, copy, err, sess, started>>

Finish(p) ==
    /\ pc[p] \in {"end", "abandon"}
    /\ locked[p] = {}
    /\ Goto(p, "idle")
    /\ UNCHANGED <<owner, store, kind, users, locked, cur, copy, err, sess,
                   started, leaky>>

-----------------------------------------------------------------------------
\* The process dies; each of its locks is stale, or detected and removed.
Crash(p) ==
    /\ "crash" \in Fault
    /\ pc[p] # "dead"
    /\ Goto(p, "dead")
    /\ locked' = [locked EXCEPT ![p] = {}]
    /\ \E S \in SUBSET User :
          owner' = [u \in User |-> IF u \in S /\ owner[u] = p THEN Nobody
                                                              ELSE owner[u]]
    /\ UNCHANGED <<store, kind, users, cur, copy, err, sess, started>>
    /\ leaky' = TRUE

\* The last step of AB_Provider_DeleteUser(): no lock is taken.
DeleteUser(u) ==
    /\ "delete" \in Fault
    /\ exists[u]
    /\ exists' = [exists EXCEPT ![u] = FALSE]
    /\ stored' = [stored EXCEPT ![u] = {}]
    /\ UNCHANGED <<owner, pc, kind, users, locked, cur, copy, err, sess,
                   started>>
    /\ leaky' = TRUE

-----------------------------------------------------------------------------
Begin(p) ==
    \/ \E u \in User : LockUser(p, u) \/ LockFails(p, u)
    \/ ReadUser(p) \/ ReadFails(p) \/ ReadNotFound(p) \/ DropLock(p)
    \/ DropFails(p)

End(p) ==
    \/ \E u \in User : WriteUser(p, u) \/ WriteFails(p, u) \/ AbandonUser(p, u)
    \/ UnlockUser(p) \/ UnlockFails(p)
    \/ Finish(p)

Step(p) == Begin(p) \/ Use(p) \/ UseFails(p) \/ End(p)

Next ==
    \/ \E p \in Proc :
          \/ \E k \in Kind \ {"send"}, u \in User : Start(p, k, {u})
          \/ \E k \in Kind \cap {"send"}, us \in SUBSET User \ {{}} :
                Start(p, k, us)
          \/ Step(p)
          \/ Crash(p)
    \/ \E u \in User : DeleteUser(u)

\* A session runs to its end: lock attempts give up by themselves, and the
\* talk to the banks is bounded by network timeouts.
Spec == Init /\ [][Next]_vars /\ \A p \in Proc : WF_vars(Step(p))

-----------------------------------------------------------------------------
\* Types of the variables.
TypeOK ==
    /\ owner \in [User -> Proc \cup {Nobody}]
    /\ exists \in [User -> BOOLEAN]
    /\ stored \in [User -> SUBSET Nat]
    /\ pc \in [Proc -> PC]
    /\ kind \in [Proc -> Kind]
    /\ users \in [Proc -> SUBSET User]
    /\ locked \in [Proc -> SUBSET User]
    /\ cur \in [Proc -> User]
    /\ copy \in [Proc -> [User -> SUBSET Nat]]
    /\ err \in [Proc -> BOOLEAN]
    /\ sess \in [Proc -> Nat]
    /\ started \in Nat
    /\ leaky \in BOOLEAN

\* What a process believes to hold.
Claims(p) ==
    locked[p] \cup IF pc[p] \in {"read", "drop"} THEN {cur[p]} ELSE {}

\* A user that a session has locked, and not yet ended the use of, is locked
\* by that session: no two sessions use one user at a time.
Exclusive == \A p \in Proc : \A u \in Claims(p) : owner[u] = p

\* The banks are contacted only when every user of the outbox is locked.
SendsWithAllLocks ==
    \A p \in Proc : pc[p] = "use" => \A u \in users[p] : owner[u] = p

\* The copy a session works on has every change that was stored meanwhile.
CopyIsCurrent ==
    \A p \in Proc : \A u \in locked[p] : stored[u] \subseteq copy[p][u]

\* A session that has had no error yet has released every user it ended.
EndedIsReleased ==
    \A p \in Proc : pc[p] \in {"end", "unlock"} /\ ~err[p] =>
        \A u \in users[p] \ locked[p] : owner[u] # p

\* Bookkeeping of the phases.
PhaseOK ==
    \A p \in Proc :
        /\ pc[p] \in {"idle", "dead"} => locked[p] = {}
        /\ pc[p] \in {"read", "drop"} => cur[p] \in users[p] \ locked[p]
        /\ pc[p] = "unlock" => cur[p] \in locked[p]
        /\ pc[p] = "use" => locked[p] = users[p]
        /\ pc[p] = "drop" => kind[p] = "reopen"
        /\ locked[p] \subseteq users[p]

\* The inductive invariant.
IInv ==
    /\ TypeOK
    /\ PhaseOK
    /\ Exclusive
    /\ CopyIsCurrent
    /\ EndedIsReleased

\* No stored change of a user is undone, unless the user is deleted: nobody
\* writes back a configuration older than the stored one (provider_user.c).
NoLostUpdate ==
    [][\A u \in User : stored[u] \subseteq stored'[u] \/ ~exists'[u]]_vars

\* A session that ends without an error holds no user of its any more.
SuccessReleases ==
    [][\A p \in Proc :
          pc[p] = "end" /\ pc'[p] = "idle" /\ ~err[p]
            => \A u \in users[p] : owner'[u] # p]_vars

\* A session leaves a lock behind only when a write or an unlock has failed, a
\* process has died or a user has been deleted: a lock that another session holds, or a group that
\* cannot be locked or read, costs no lock (_lockUsers() abandons the others).
NoLeak ==
    \A p \in Proc : pc[p] = "idle" /\ ~leaky => \A u \in User : owner[u] # p

\* Two outboxes that want the same users never wait for each other for ever:
\* every session ends.
SessionEnds == \A p \in Proc : pc[p] = "lock" ~> pc[p] \in {"idle", "dead"}
=============================================================================
