--------------------------- MODULE PaymentConsent ---------------------------
(***************************************************************************)
(* What one call of the HBCI backend for an order with TAN or verification *)
(* of payee promises (aqhbci/applayer/cbox_voptan.c, cbox_vophbci.c): the  *)
(* order goes to the bank once, or a second time before it is released; a  *)
(* concern about the payee is put to the user before anything more is      *)
(* sent; nothing is sent when the call is over.                            *)
(***************************************************************************)
EXTENDS Integers

VARIABLES
    orders,     \* number of times the bank got the order
    confirmed,  \* has the bank got the confirmation of the payee?
    released,   \* has the bank got a TAN or a question for the approval?
    concern,    \* about the payee: "none", "raised", "accepted"
    outcome     \* "open", "ok", "error"

vars == <<orders, confirmed, released, concern, outcome>>

Init ==
    /\ orders = 0
    /\ confirmed = FALSE
    /\ released = FALSE
    /\ concern = "none"
    /\ outcome = "open"

\* A message with the order (o), the confirmation (c), a release (r).
Message(o, c, r) ==
    /\ outcome = "open"
    /\ concern # "raised"
    /\ o => orders < 2 /\ ~released
    /\ c => orders > 0 /\ ~confirmed /\ ~released
    /\ r => orders > 0
    /\ orders' = IF o THEN orders + 1 ELSE orders
    /\ confirmed' = (confirmed \/ c)
    /\ released' = (released \/ r)
    /\ outcome' \in {"open", "error"}
    /\ UNCHANGED concern

Raise ==
    /\ outcome = "open"
    /\ orders = 1
    /\ ~confirmed
    /\ ~released
    /\ concern = "none"
    /\ concern' = "raised"
    /\ UNCHANGED <<orders, confirmed, released, outcome>>

Accept ==
    /\ outcome = "open"
    /\ concern = "raised"
    /\ concern' = "accepted"
    /\ UNCHANGED <<orders, confirmed, released, outcome>>

\* A call succeeds only with an order the bank has and no open concern.
End(r) ==
    /\ outcome = "open"
    /\ r = "ok" => orders > 0 /\ concern # "raised"
    /\ outcome' = r
    /\ UNCHANGED <<orders, confirmed, released, concern>>

Next ==
    \/ \E o, c, r \in BOOLEAN : Message(o, c, r)
    \/ Raise
    \/ Accept
    \/ \E r \in {"ok", "error"} : End(r)

Spec == Init /\ [][Next]_vars
=============================================================================
