--------------------------- MODULE MCSendCommands ---------------------------
(* TLC instance of SendCommands.                                          *)
EXTENDS SendCommands, TLC

CONSTANTS a1, a2, a3, u1, u2, u3, ofx, paypal, ebics

\* Requests for everything, from either day on, and for the first day only.
AllPeriods    == {<<0, 0>>, <<1, 0>>, <<2, 0>>, <<1, 1>>}

\* One account at each backend.
AllUserOf     == (a1 :> u1) @@ (a2 :> u2) @@ (a3 :> u3)
AllProviderOf == (a1 :> ofx) @@ (a2 :> paypal) @@ (a3 :> ebics)
AllKind       == (ofx :> "aqofxconnect") @@ (paypal :> "aqpaypal")
                   @@ (ebics :> "aqebics")
=============================================================================
