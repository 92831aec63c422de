---------------------------- MODULE JobDelivery -----------------------------
(***************************************************************************)
(* What the outbox of the HBCI backend promises about the jobs it is given *)
(* (aqhbci/applayer/outbox.c, cbox_queue.c): one job is worked on at a     *)
(* time, only the job worked on reaches the bank, and a job that has been  *)
(* given back is not touched again.                                        *)
(***************************************************************************)
EXTENDS Integers

CONSTANT Job

VARIABLES
    state,  \* where a job is, a member of States
    got     \* number of messages with a job that the bank got

States == {"outside", "waiting", "active", "finished"}

Init ==
    /\ state = [j \in Job |-> "outside"]
    /\ got = [j \in Job |-> 0]

Idle == \A j \in Job : state[j] # "active"

\* A new outbox with the jobs S: what the last one left is forgotten.
Begin(S) ==
    /\ Idle
    /\ state' = [j \in Job |-> IF j \in S THEN "waiting" ELSE "outside"]
    /\ UNCHANGED got

Take(j) ==
    /\ Idle
    /\ state[j] = "waiting"
    /\ state' = [state EXCEPT ![j] = "active"]
    /\ UNCHANGED got

\* At most one message goes out, and the job may be given back.
Work(j) ==
    /\ state[j] = "active"
    /\ \E s \in {"active", "finished"} : state' = [state EXCEPT ![j] = s]
    /\ \E n \in {0, 1} : got' = [got EXCEPT ![j] = @ + n]

\* The jobs S are given back without having been sent.
Skip(S) ==
    /\ Idle
    /\ \A j \in S : state[j] = "waiting"
    /\ state' = [j \in Job |-> IF j \in S THEN "finished" ELSE state[j]]
    /\ UNCHANGED got

Next ==
    \/ \E S \in SUBSET Job : Begin(S) \/ Skip(S)
    \/ \E j \in Job : Take(j) \/ Work(j)

Spec == Init /\ [][Next]_<<state, got>>
=============================================================================
