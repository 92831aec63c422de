------------------------------ MODULE MCOutbox ------------------------------
(* TLC instance of Outbox: a user with an order and a request for data, each*)
(* in a dialog of its own, and a dialog job of a control command; a second  *)
(* user with another order.                                                 *)
EXTENDS Outbox, TLC

CONSTANTS u1, u2, order1, order2, fetch, admin

MCUserOf == [j \in Job |-> IF j = order2 THEN u2 ELSE u1]
MCClass  == [j \in Job |-> IF j = admin THEN 0 ELSE 4]
=============================================================================
