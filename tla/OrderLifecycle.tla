---------------------------- MODULE OrderLifecycle ----------------------------
(***************************************************************************)
(* One order from its creation to its close: the handlers of                *)
(* orders/routes.ts that change the order, its challan, its payment, its    *)
(* invoice and its tracking session, and tickSlaBreach of workers/index.ts. *)
(*                                                                         *)
(* Each handler works on one order.  h[p] is the handler in slot p: the     *)
(* step it takes next and what it read before its last await.               *)
(***************************************************************************)
EXTENDS Integers

CONSTANTS
  Procs,       \* slots for handlers in flight
  Overlap,     \* whether handlers and ticks may overlap
  Snapshots,   \* values of lineSnapshotJson
  Won,         \* the snapshot made when the order is created
  NoInvoice

ASSUME OrderAssumption ==
  /\ Overlap \in BOOLEAN
  /\ Won \in Snapshots
  /\ NoInvoice \notin Snapshots

VARIABLES
  status, deliveredAt, slaStatus,   \* Order; deliveredAt: whether it is set
  late,                             \* whether slaDeadlineAt has passed
  tracking,                         \* TrackingSession: none, active or ended
  signed, lines,                    \* DigitalChallan: ~isDraft, lineSnapshotJson
  payment, confirmedAt,             \* OfflinePayment
  invoice,                          \* lineJson of the GstInvoice
  h,                                \* handlers in flight
  sla                               \* the running tick of tickSlaBreach

orderVars == <<status, deliveredAt>>
slaVars == <<slaStatus, sla>>
challanVars == <<signed, lines>>
paymentVars == <<payment, confirmedAt>>
vars == <<orderVars, slaVars, late, tracking, challanVars, paymentVars, invoice, h>>

(***************************************************************************)
(* Types.                                                                  *)
(***************************************************************************)
OrderStatus == {"placed", "bid_accepted", "preparing", "out_for_delivery", "arrived",
                "inspection_pending", "challan_signed", "rejected_on_spot",
                "delivered", "closed"}
OfflinePaymentStatus == {"not_started", "initiated", "marked_paid_by_consumer",
                         "confirmed_by_supplier", "disputed"}

Idle == [at |-> "idle"]

Handlers ==
  {Idle}
  \cup [at : {"advance"}, next : {"preparing", "out_for_delivery", "arrived"}]
  \cup [at : {"inspect", "rejectCheck", "reject", "rejectDraft", "payCheck", "payStart",
              "markCheck", "mark", "confirm", "confirmClose", "confirmInvoice",
              "disputeCheck", "dispute"}]
  \cup [at : {"adjust", "invoiceCheck", "bill"}, lines : Snapshots]
  \cup [at : {"sign"}, onTime : BOOLEAN]

TypeOK ==
  /\ status \in OrderStatus
  /\ deliveredAt \in BOOLEAN
  /\ slaStatus \in {"on_track", "at_risk", "met", "breached"}
  /\ late \in BOOLEAN
  /\ tracking \in {"none", "active", "ended"}
  /\ signed \in BOOLEAN
  /\ lines \in Snapshots
  /\ payment \in OfflinePaymentStatus
  /\ confirmedAt \in BOOLEAN
  /\ invoice \in Snapshots \cup {NoInvoice}
  /\ h \in [Procs -> Handlers]
  /\ sla \in {"idle", "write"}

\* insertOrderFromBid creates the order with its payment and its draft challan.
Init ==
  /\ status = "bid_accepted" /\ deliveredAt = FALSE
  /\ slaStatus = "on_track" /\ late = FALSE
  /\ tracking = "none"
  /\ signed = FALSE /\ lines = Won
  /\ payment = "not_started" /\ confirmedAt = FALSE
  /\ invoice = NoInvoice
  /\ h = [p \in Procs |-> Idle]
  /\ sla = "idle"

(***************************************************************************)
(* Handlers start in a free slot, go on to a next step, and end.            *)
(***************************************************************************)
MayStart == Overlap \/ (sla = "idle" /\ \A q \in Procs : h[q] = Idle)

Goto(p, step) == h' = [h EXCEPT ![p] = step]
End(p) == Goto(p, Idle)

\* A handler that has read the order and goes on.
Start(p, step) ==
  /\ h[p] = Idle
  /\ MayStart
  /\ Goto(p, step)
  /\ UNCHANGED <<orderVars, slaVars, late, tracking, challanVars, paymentVars, invoice>>

\* A handler that has checked a second row, and goes on if the check holds.
Check(p, from, holds, step) ==
  /\ h[p].at = from
  /\ IF holds THEN Goto(p, step) ELSE End(p)
  /\ UNCHANGED <<orderVars, slaVars, late, tracking, challanVars, paymentVars, invoice>>

\* A crash, a rolled back transaction or a database error between two steps.
Abort(p) ==
  /\ h[p] # Idle
  /\ End(p)
  /\ UNCHANGED <<orderVars, slaVars, late, tracking, challanVars, paymentVars, invoice>>

\* Mutant: the session is left running.
RunningTracking == tracking

\* trackingSession.updateMany: nothing when there is no session.
EndedTracking == IF tracking = "none" THEN "none" ELSE "ended"

DeadlinePasses ==
  /\ ~late
  /\ late' = TRUE
  /\ UNCHANGED <<orderVars, slaVars, tracking, challanVars, paymentVars, invoice, h>>

(***************************************************************************)
(* The supplier's way to the door.                                         *)
(***************************************************************************)
\* Mutant: the step is looked up by its target alone.
AllowedByTarget(s) == {"preparing", "out_for_delivery", "arrived"}

\* allowed
Allowed(s) ==
  CASE s = "bid_accepted" -> {"preparing"}
    [] s = "preparing" -> {"out_for_delivery"}
    [] s = "out_for_delivery" -> {"arrived"}
    [] OTHER -> {}

AdvanceRead(p, next) ==
  /\ next \in Allowed(status)
  /\ Start(p, [at |-> "advance", next |-> next])

\* Arrived immediately opens the inspection at the door.
AdvanceWrite(p) ==
  /\ h[p].at = "advance"
  /\ \/ /\ h[p].next = "preparing"
        /\ status' = "preparing" /\ UNCHANGED tracking
     \/ /\ h[p].next = "out_for_delivery"
        /\ status' = "out_for_delivery" /\ tracking' = "active"
     \/ /\ h[p].next = "arrived"
        /\ status' = "inspection_pending" /\ tracking' = EndedTracking
  /\ End(p)
  /\ UNCHANGED <<deliveredAt, slaVars, late, challanVars, paymentVars, invoice>>

InspectRead(p) ==
  /\ status \in {"arrived", "out_for_delivery"}
  /\ Start(p, [at |-> "inspect"])

InspectWrite(p) ==
  /\ h[p].at = "inspect"
  /\ status' = "inspection_pending"
  /\ End(p)
  /\ UNCHANGED <<deliveredAt, slaVars, late, tracking, challanVars, paymentVars, invoice>>

(***************************************************************************)
(* At the door: the challan is adjusted, refused or signed.                 *)
(***************************************************************************)
\* Mutant: the challan is not looked at.
AdjustAnyRead(p, snapshot) == Start(p, [at |-> "adjust", lines |-> snapshot])

AdjustRead(p, snapshot) ==
  /\ ~signed
  /\ Start(p, [at |-> "adjust", lines |-> snapshot])

AdjustWrite(p) ==
  /\ h[p].at = "adjust"
  /\ lines' = h[p].lines
  /\ End(p)
  /\ UNCHANGED <<orderVars, slaVars, late, tracking, signed, paymentVars, invoice>>

AtDoor == status \in {"arrived", "inspection_pending"}

RejectRead(p) == AtDoor /\ Start(p, [at |-> "rejectCheck"])
RejectCheck(p) == Check(p, "rejectCheck", ~signed, [at |-> "reject"])

RejectWrite(p) ==
  /\ h[p].at = "reject"
  /\ status' = "rejected_on_spot"
  /\ Goto(p, [at |-> "rejectDraft"])
  /\ UNCHANGED <<deliveredAt, slaVars, late, tracking, challanVars, paymentVars, invoice>>

RejectDraft(p) ==
  /\ h[p].at = "rejectDraft"
  /\ signed' = FALSE
  /\ End(p)
  /\ UNCHANGED <<orderVars, slaVars, late, tracking, lines, paymentVars, invoice>>

SignRead(p) ==
  /\ AtDoor
  /\ Start(p, [at |-> "sign", onTime |-> ~late])

\* Mutant: the verdict is not a value of SlaStatus.
VerdictInWords(onTime) == IF onTime THEN "met" ELSE "late"

Verdict(onTime) == IF onTime THEN "met" ELSE "breached"

SignWrite(p) ==
  /\ h[p].at = "sign"
  /\ signed' = TRUE
  /\ status' = "delivered" /\ deliveredAt' = TRUE
  /\ slaStatus' = Verdict(h[p].onTime)
  /\ tracking' = EndedTracking
  /\ End(p)
  /\ UNCHANGED <<sla, late, lines, paymentVars, invoice>>

(***************************************************************************)
(* Payment, outside the app: started and marked paid by the consumer,       *)
(* confirmed or disputed by the supplier.                                  *)
(***************************************************************************)
Deliverable == status \in {"delivered", "challan_signed"}

\* Mutant: payment may start before the delivery.
PayAnyRead(p) == Start(p, [at |-> "payCheck"])

PayRead(p) == Deliverable /\ Start(p, [at |-> "payCheck"])
PayCheck(p) == Check(p, "payCheck", payment = "not_started", [at |-> "payStart"])

MarkRead(p) == Deliverable /\ Start(p, [at |-> "markCheck"])
MarkCheck(p) == Check(p, "markCheck", payment = "initiated", [at |-> "mark"])

DisputeRead(p) == Deliverable /\ Start(p, [at |-> "disputeCheck"])
DisputeCheck(p) ==
  Check(p, "disputeCheck", payment \notin {"confirmed_by_supplier", "disputed"},
        [at |-> "dispute"])

SetPayment(p, from, to) ==
  /\ h[p].at = from
  /\ payment' = to
  /\ End(p)
  /\ UNCHANGED <<orderVars, slaVars, late, tracking, challanVars, confirmedAt, invoice>>

PayStart(p) == SetPayment(p, "payStart", "initiated")
Mark(p) == SetPayment(p, "mark", "marked_paid_by_consumer")
Dispute(p) == SetPayment(p, "dispute", "disputed")

\* The supplier may confirm whatever the consumer has done.
ConfirmRead(p) == Deliverable /\ Start(p, [at |-> "confirm"])

Confirm(p) ==
  /\ h[p].at = "confirm"
  /\ payment' = "confirmed_by_supplier" /\ confirmedAt' = TRUE
  /\ Goto(p, [at |-> "confirmClose"])
  /\ UNCHANGED <<orderVars, slaVars, late, tracking, challanVars, invoice>>

ConfirmClose(p) ==
  /\ h[p].at = "confirmClose"
  /\ status' = "closed"
  /\ Goto(p, [at |-> "confirmInvoice"])
  /\ UNCHANGED <<deliveredAt, slaVars, late, tracking, challanVars, paymentVars, invoice>>

(***************************************************************************)
(* The invoice, made by the confirmation or by the first who asks for it.   *)
(***************************************************************************)
ConfirmInvoice(p) ==
  Check(p, "confirmInvoice", TRUE, [at |-> "bill", lines |-> lines])

InvoiceRead(p) == Start(p, [at |-> "invoiceCheck", lines |-> lines])

InvoiceCheck(p) ==
  /\ h[p].at = "invoiceCheck"
  /\ Check(p, "invoiceCheck", payment = "confirmed_by_supplier" /\ invoice = NoInvoice,
           [at |-> "bill", lines |-> h[p].lines])

\* Mutant: the upsert of the confirmation updates an existing invoice.
Rebilled(snapshot) == snapshot

\* An order has one invoice: the upsert keeps it, a second create fails.
Billed(snapshot) == IF invoice = NoInvoice THEN snapshot ELSE invoice

Bill(p) ==
  /\ h[p].at = "bill"
  /\ invoice' = Billed(h[p].lines)
  /\ End(p)
  /\ UNCHANGED <<orderVars, slaVars, late, tracking, challanVars, paymentVars>>

(***************************************************************************)
(* tickSlaBreach.                                                          *)
(***************************************************************************)
\* Mutant: an order at the door counts as delivered.
BreachableOnTheRoad ==
  /\ late
  /\ slaStatus \in {"on_track", "at_risk"}
  /\ status \in {"bid_accepted", "preparing", "out_for_delivery"}

\* Mutant: the deadline is left out of the query.
BreachableAnytime ==
  /\ slaStatus \in {"on_track", "at_risk"}
  /\ status \in {"bid_accepted", "preparing", "out_for_delivery", "arrived",
                "inspection_pending"}

\* Mutant: the query excludes statuses instead of listing them.
BreachableUnlessClosed ==
  /\ late
  /\ slaStatus # "breached"
  /\ status \notin {"rejected_on_spot", "closed"}

Breachable ==
  /\ late
  /\ slaStatus \in {"on_track", "at_risk"}
  /\ status \in {"bid_accepted", "preparing", "out_for_delivery", "arrived",
                "inspection_pending"}

SlaFind ==
  /\ sla = "idle"
  /\ MayStart
  /\ Breachable
  /\ sla' = "write"
  /\ UNCHANGED <<orderVars, slaStatus, late, tracking, challanVars, paymentVars, invoice, h>>

\* The update is by id: whatever the order has become since it was found.
SlaWrite ==
  /\ sla = "write"
  /\ slaStatus' = "breached" /\ sla' = "idle"
  /\ UNCHANGED <<orderVars, late, tracking, challanVars, paymentVars, invoice, h>>

SlaAbort ==
  /\ sla = "write"
  /\ sla' = "idle"
  /\ UNCHANGED <<orderVars, slaStatus, late, tracking, challanVars, paymentVars, invoice, h>>

(***************************************************************************)
(* The specification.                                                      *)
(***************************************************************************)
Deliver(p) ==
  \/ \E next \in {"preparing", "out_for_delivery", "arrived"} : AdvanceRead(p, next)
  \/ AdvanceWrite(p)
  \/ InspectRead(p) \/ InspectWrite(p)
  \/ \E snapshot \in Snapshots : AdjustRead(p, snapshot)
  \/ AdjustWrite(p)
  \/ RejectRead(p) \/ RejectCheck(p) \/ RejectWrite(p) \/ RejectDraft(p)
  \/ SignRead(p) \/ SignWrite(p)

Pay(p) ==
  \/ PayRead(p) \/ PayCheck(p) \/ PayStart(p)
  \/ MarkRead(p) \/ MarkCheck(p) \/ Mark(p)
  \/ DisputeRead(p) \/ DisputeCheck(p) \/ Dispute(p)
  \/ ConfirmRead(p) \/ Confirm(p) \/ ConfirmClose(p) \/ ConfirmInvoice(p)
  \/ InvoiceRead(p) \/ InvoiceCheck(p) \/ Bill(p)

Next ==
  \/ \E p \in Procs : Deliver(p) \/ Pay(p) \/ Abort(p)
  \/ DeadlinePasses
  \/ SlaFind \/ SlaWrite \/ SlaAbort

Spec == Init /\ [][Next]_vars

\* The timer fires for ever, and its statements are not cut short for ever.
FairSpec == Spec /\ WF_vars(SlaFind) /\ SF_vars(SlaWrite)

(***************************************************************************)
(* What holds whatever overlaps.                                           *)
(***************************************************************************)
\* Payment starts after the goods were signed for, an order closes and an invoice
\* is made after the supplier confirmed the payment: also by a handler that read
\* the order before another one changed it.
MilestonesInOrder ==
  /\ payment # "not_started" => deliveredAt
  /\ confirmedAt => deliveredAt
  /\ status = "closed" => confirmedAt
  /\ invoice # NoInvoice => confirmedAt

\* The delivery judged late at the signature, or by the tick, was late: neither
\* blames the supplier before the deadline of the request.
BreachIsLate == slaStatus = "breached" => late

\* The invoice keeps the lines it was made with, although the confirmation and
\* every reader may make it.
InvoiceStands == [][invoice # NoInvoice => invoice' = invoice]_vars

\* An order that misses its deadline is flagged or refused, whatever stalls: the
\* signature or the tick judges it.
LateOrderIsFlagged ==
  late ~> (slaStatus # "on_track" \/ status = "rejected_on_spot")

(***************************************************************************)
(* What holds when handlers do not overlap (~Overlap), and what the code    *)
(* says of them.                                                           *)
(***************************************************************************)
Stage ==
  IF status = "rejected_on_spot" THEN "refused"
  ELSE IF payment = "confirmed_by_supplier" THEN "settled"
  ELSE IF signed THEN "delivered"
  ELSE "underway"

Promise == INSTANCE OrderPromise
  WITH Terms <- Snapshots, NoTerms <- NoInvoice, stage <- Stage, bill <- invoice,
       signedTerms <- IF signed THEN lines ELSE NoInvoice

\* An order is refused at the door or delivered on the signed lines, settled once
\* and billed on those lines, also when a confirmation crashes halfway.
KeepsPromise == Promise!Spec

\* STATUS_RANK
Rank(s) ==
  CASE s = "bid_accepted" -> 0
    [] s = "preparing" -> 1
    [] s = "out_for_delivery" -> 2
    [] s \in {"arrived", "inspection_pending"} -> 3
    [] s \in {"delivered", "challan_signed"} -> 4
    [] s = "closed" -> 5

\* The status only moves forward in rank, and a refused order stays refused.
StatusMovesForward ==
  [][IF status = "rejected_on_spot" THEN status' = status
     ELSE status' = "rejected_on_spot" \/ Rank(status) <= Rank(status')]_vars

\* A closed order is signed, paid, and no longer tracked.
ClosedOrderIsSettled ==
  status = "closed" =>
    signed /\ payment = "confirmed_by_supplier" /\ tracking # "active"

\* The verdict of the signature on the delivery stands.
SlaVerdictIsFinal == [][deliveredAt => slaStatus' = slaStatus]_vars

\* A confirmed payment is neither disputed nor started again.
ConfirmedPaymentStands ==
  [][payment = "confirmed_by_supplier" => payment' = payment]_vars
=============================================================================
