---------------------------- MODULE UniqueIdAbs ----------------------------
(***************************************************************************)
(* What AB_Banking_GetNamedUniqueId() promises to the applications that    *)
(* share one settings folder: an id is handed out at most once per counter *)
(* name, however the calls of several processes overlap, fail or die.  An  *)
(* id may be lost (nobody gets it), it is never handed out twice.          *)
(***************************************************************************)
EXTENDS Integers

CONSTANTS
    App,     \* processes that share the settings folder
    IdName   \* names of counters ("user", "account", "jobid", ...)

VARIABLES
    taken,   \* [IdName -> set of ids that left the counter]
    phase,   \* [App -> state of the call of that application]
    id,      \* [App -> id drawn by the current call]
    ret      \* [App -> what the last call returned]

absVars == <<taken, phase, id, ret>>

Failed == -1

Init ==
    /\ taken = [n \in IdName |-> {}]
    /\ phase = [p \in App |-> "idle"]
    /\ id    = [p \in App |-> 0]
    /\ ret   = [p \in App |-> 0]

Ask(p) ==
    /\ phase[p] = "idle"
    /\ phase' = [phase EXCEPT ![p] = "asked"]
    /\ UNCHANGED <<taken, id, ret>>

\* The one visible step of the allocation: the id drawn is fresh.  It is
\* named by its next value so that the step can be checked without
\* enumerating the natural numbers.
Take(p, n) ==
    /\ phase[p] = "asked"
    /\ id'[p] \in Nat \ {0}
    /\ id'[p] \notin taken[n]
    /\ id' = [id EXCEPT ![p] = id'[p]]
    /\ taken' = [taken EXCEPT ![n] = @ \cup {id'[p]}]
    /\ phase' = [phase EXCEPT ![p] = "drawn"]
    /\ UNCHANGED ret

Succeed(p) ==
    /\ phase[p] = "drawn"
    /\ ret' = [ret EXCEPT ![p] = id[p]]
    /\ phase' = [phase EXCEPT ![p] = "idle"]
    /\ UNCHANGED <<taken, id>>

Fail(p) ==
    /\ phase[p] \in {"asked", "drawn"}
    /\ ret' = [ret EXCEPT ![p] = Failed]
    /\ phase' = [phase EXCEPT ![p] = "idle"]
    /\ UNCHANGED <<taken, id>>

Die(p) ==
    /\ phase' = [phase EXCEPT ![p] = "dead"]
    /\ UNCHANGED <<taken, id, ret>>

Next ==
    \E p \in App :
        \/ Ask(p) \/ Succeed(p) \/ Fail(p) \/ Die(p)
        \/ \E n \in IdName : Take(p, n)

Spec == Init /\ [][Next]_absVars
=============================================================================
