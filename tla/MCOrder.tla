-------------------------------- MODULE MCOrder --------------------------------
(* Instances of OrderLifecycle for TLC: one adjustment tells the lines that were *)
(* won from the lines that were signed.                                          *)
EXTENDS OrderLifecycle

MCWon == "as won"
MCSnapshots == {MCWon, "adjusted"}
MCNoInvoice == "no invoice"
=============================================================================
