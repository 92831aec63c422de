-------------------------- MODULE MCEbicsTransfer ---------------------------
(* TLC instance of EbicsTransfer.                                           *)
EXTENDS EbicsTransfer
=============================================================================
