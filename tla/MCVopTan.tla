------------------------------ MODULE MCVopTan ------------------------------
(* TLC instance of VopTan: calls with and without TAN and verification.     *)
EXTENDS VopTan
=============================================================================
