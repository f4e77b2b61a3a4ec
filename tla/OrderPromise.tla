----------------------------- MODULE OrderPromise -----------------------------
(***************************************************************************)
(* What an order promises to the restaurant and the supplier: it is refused *)
(* at the door or delivered on the terms that were signed, it is settled    *)
(* once, and it is billed on those terms.                                   *)
(***************************************************************************)
CONSTANTS
  Terms,   \* what the parties may sign: the lines of a challan
  NoTerms

VARIABLES stage, signedTerms, bill

vars == <<stage, signedTerms, bill>>

Init == stage = "underway" /\ signedTerms = NoTerms /\ bill = NoTerms

Refuse ==
  /\ stage = "underway"
  /\ stage' = "refused"
  /\ UNCHANGED <<signedTerms, bill>>

Deliver ==
  /\ stage = "underway"
  /\ stage' = "delivered"
  /\ signedTerms' \in Terms
  /\ UNCHANGED bill

Settle ==
  /\ stage = "delivered"
  /\ stage' = "settled"
  /\ UNCHANGED <<signedTerms, bill>>

Bill ==
  /\ stage = "settled" /\ bill = NoTerms
  /\ bill' = signedTerms
  /\ UNCHANGED <<stage, signedTerms>>

Next == Refuse \/ Deliver \/ Settle \/ Bill

Spec == Init /\ [][Next]_vars
=============================================================================
