----------------------------- MODULE OrderProofs -----------------------------
(***************************************************************************)
(* Theorems about OrderLifecycle, for any number of handler slots and any   *)
(* snapshots of the challan.                                               *)
(***************************************************************************)
EXTENDS OrderLifecycle, TLAPS

(***************************************************************************)
(* Type correctness.                                                       *)
(***************************************************************************)
\* What the step a handler is about to take says of the record's fields.
LEMMA OrderHandlerFields ==
  ASSUME NEW s \in Handlers
  PROVE  /\ s.at \in {"adjust", "invoiceCheck", "bill"} => s.lines \in Snapshots
         /\ s.at = "sign" => s.onTime \in BOOLEAN
         /\ s.at = "advance" => s.next \in {"preparing", "out_for_delivery", "arrived"}
  BY DEF Handlers, Idle

\* The records the handlers go on with.
LEMMA OrderHandlerForms ==
  /\ Idle \in Handlers
  /\ \A next \in {"preparing", "out_for_delivery", "arrived"} :
       [at |-> "advance", next |-> next] \in Handlers
  /\ \A step \in {"inspect", "rejectCheck", "reject", "rejectDraft", "payCheck",
                  "payStart", "markCheck", "mark", "confirm", "confirmClose",
                  "confirmInvoice", "disputeCheck", "dispute"} :
       [at |-> step] \in Handlers
  /\ \A step \in {"adjust", "invoiceCheck", "bill"}, s \in Snapshots :
       [at |-> step, lines |-> s] \in Handlers
  /\ \A b \in BOOLEAN : [at |-> "sign", onTime |-> b] \in Handlers
  BY DEF Handlers

\* A handler that starts or checks changes its slot only.
LEMMA OrderTypeStart ==
  ASSUME TypeOK, NEW p \in Procs, NEW s \in Handlers, Start(p, s)
  PROVE  TypeOK'
  BY DEF TypeOK, Start, Goto, orderVars, slaVars, challanVars, paymentVars

LEMMA OrderTypeCheck ==
  ASSUME TypeOK, NEW p \in Procs, NEW s \in Handlers, NEW from, NEW holds,
         Check(p, from, holds, s)
  PROVE  TypeOK'
  BY OrderHandlerForms
  DEF TypeOK, Check, Goto, End, orderVars, slaVars, challanVars, paymentVars

LEMMA OrderTypeInit == Init => TypeOK
  BY OrderAssumption, OrderHandlerForms DEF Init, TypeOK, OrderStatus, OfflinePaymentStatus

LEMMA OrderTypeDeliver ==
  ASSUME TypeOK, NEW p \in Procs, Deliver(p)
  PROVE  TypeOK'
<1> USE OrderHandlerForms
<1>h. h[p] \in Handlers
  BY DEF TypeOK
<1>1. ASSUME NEW next \in {"preparing", "out_for_delivery", "arrived"}, AdvanceRead(p, next)
      PROVE  TypeOK'
  BY <1>1, OrderTypeStart DEF AdvanceRead
<1>2. CASE AdvanceWrite(p)
  BY <1>2 DEF AdvanceWrite, EndedTracking, TypeOK, OrderStatus, Goto, End, slaVars,
              challanVars, paymentVars
<1>3. CASE InspectRead(p)
  BY <1>3, OrderTypeStart DEF InspectRead
<1>4. CASE InspectWrite(p)
  BY <1>4 DEF InspectWrite, TypeOK, OrderStatus, Goto, End, slaVars, challanVars, paymentVars
<1>5. ASSUME NEW snapshot \in Snapshots, AdjustRead(p, snapshot)
      PROVE  TypeOK'
  BY <1>5, OrderTypeStart DEF AdjustRead
<1>6. CASE AdjustWrite(p)
  BY <1>6, <1>h, OrderHandlerFields
  DEF AdjustWrite, TypeOK, Goto, End, orderVars, slaVars, paymentVars
<1>7. CASE RejectRead(p)
  BY <1>7, OrderTypeStart DEF RejectRead
<1>8. CASE RejectCheck(p)
  BY <1>8, OrderTypeCheck DEF RejectCheck
<1>9. CASE RejectWrite(p)
  BY <1>9 DEF RejectWrite, TypeOK, OrderStatus, Goto, slaVars, challanVars, paymentVars
<1>10. CASE RejectDraft(p)
  BY <1>10 DEF RejectDraft, TypeOK, Goto, End, orderVars, slaVars, paymentVars
<1>11. CASE SignRead(p)
  BY <1>11, OrderTypeStart DEF SignRead, TypeOK
<1>12. CASE SignWrite(p)
  BY <1>12, <1>h, OrderHandlerFields
  DEF SignWrite, Verdict, EndedTracking, TypeOK, OrderStatus, Goto, End, paymentVars
<1> QED
  BY <1>1, <1>2, <1>3, <1>4, <1>5, <1>6, <1>7, <1>8, <1>9, <1>10, <1>11, <1>12 DEF Deliver

LEMMA OrderTypePay ==
  ASSUME TypeOK, NEW p \in Procs, Pay(p)
  PROVE  TypeOK'
<1> USE OrderHandlerForms
<1>h. h[p] \in Handlers /\ lines \in Snapshots
  BY DEF TypeOK
<1>1. CASE PayRead(p) \/ MarkRead(p) \/ DisputeRead(p) \/ ConfirmRead(p)
  BY <1>1, OrderTypeStart DEF PayRead, MarkRead, DisputeRead, ConfirmRead
<1>2. CASE PayCheck(p)
  BY <1>2, OrderTypeCheck DEF PayCheck
<1>3. CASE MarkCheck(p)
  BY <1>3, OrderTypeCheck DEF MarkCheck
<1>4. CASE DisputeCheck(p)
  BY <1>4, OrderTypeCheck DEF DisputeCheck
<1>5. CASE PayStart(p) \/ Mark(p) \/ Dispute(p)
  BY <1>5 DEF PayStart, Mark, Dispute, SetPayment, TypeOK, OfflinePaymentStatus, Goto, End,
              orderVars, slaVars, challanVars
<1>6. CASE Confirm(p)
  BY <1>6 DEF Confirm, TypeOK, OfflinePaymentStatus, Goto, orderVars, slaVars, challanVars
<1>7. CASE ConfirmClose(p)
  BY <1>7 DEF ConfirmClose, TypeOK, OrderStatus, Goto, slaVars, challanVars, paymentVars
<1>8. CASE ConfirmInvoice(p)
  BY <1>8, <1>h, OrderTypeCheck DEF ConfirmInvoice
<1>9. CASE InvoiceRead(p)
  BY <1>9, <1>h, OrderTypeStart DEF InvoiceRead
<1>10. CASE InvoiceCheck(p)
  BY <1>10, <1>h, OrderHandlerFields, OrderTypeCheck DEF InvoiceCheck
<1>11. CASE Bill(p)
  BY <1>11, <1>h, OrderHandlerFields
  DEF Bill, Billed, TypeOK, Goto, End, orderVars, slaVars, challanVars, paymentVars
<1> QED
  BY <1>1, <1>2, <1>3, <1>4, <1>5, <1>6, <1>7, <1>8, <1>9, <1>10, <1>11 DEF Pay

LEMMA OrderTypeNext == TypeOK /\ [Next]_vars => TypeOK'
<1> SUFFICES ASSUME TypeOK, [Next]_vars
             PROVE  TypeOK'
  OBVIOUS
<1>1. ASSUME NEW p \in Procs, Deliver(p) \/ Pay(p)
      PROVE  TypeOK'
  BY <1>1, OrderTypeDeliver, OrderTypePay
<1>2. ASSUME NEW p \in Procs, Abort(p)
      PROVE  TypeOK'
  BY <1>2, OrderHandlerForms
  DEF Abort, TypeOK, Goto, End, orderVars, slaVars, challanVars, paymentVars
<1>3. CASE DeadlinePasses \/ SlaFind \/ SlaWrite \/ SlaAbort
  BY <1>3 DEF DeadlinePasses, SlaFind, SlaWrite, SlaAbort, TypeOK, orderVars, slaVars,
              challanVars, paymentVars
<1>4. CASE UNCHANGED vars
  BY <1>4 DEF vars, TypeOK, orderVars, slaVars, challanVars, paymentVars
<1> QED
  BY <1>1, <1>2, <1>3, <1>4 DEF Next

\* Type correctness: every column keeps a value its enum allows, and every handler
\* the record its next step expects.
THEOREM OrderTypeCorrect == Spec => []TypeOK
  BY OrderTypeInit, OrderTypeNext, PTL DEF Spec

(***************************************************************************)
(* What holds whatever overlaps.  A handler keeps what it has seen: that    *)
(* the order was delivered, that its payment was confirmed, that its        *)
(* deadline has passed.  None of the three is ever undone, so a handler may *)
(* act on it however late.                                                 *)
(***************************************************************************)
Seen(s) ==
  /\ s.at \in {"payCheck", "payStart", "markCheck", "mark", "disputeCheck", "dispute",
              "confirm"} => deliveredAt
  /\ s.at \in {"confirmClose", "confirmInvoice", "bill"} => confirmedAt
  /\ s.at = "sign" /\ ~s.onTime => late

RaceInv ==
  /\ MilestonesInOrder
  /\ BreachIsLate
  /\ status \in {"delivered", "challan_signed", "closed"} => deliveredAt
  /\ payment = "confirmed_by_supplier" => confirmedAt
  /\ sla = "write" => late
  /\ \A p \in Procs : Seen(h[p])

\* What handlers have seen stays so while one of them moves.
LEMMA SeenStays ==
  ASSUME TypeOK, RaceInv, NEW p \in Procs, NEW s, Goto(p, s), Seen(s)',
         deliveredAt => deliveredAt', confirmedAt => confirmedAt', late => late'
  PROVE  (\A q \in Procs : Seen(h[q]))'
<1> SUFFICES ASSUME NEW q \in Procs
             PROVE  Seen(h[q])'
  OBVIOUS
<1>1. Seen(h[q])
  BY DEF RaceInv
<1>2. CASE q = p
  BY <1>2 DEF Goto, TypeOK, Seen
<1>3. CASE q # p
  <2>1. h'[q] = h[q]
    BY <1>3 DEF Goto, TypeOK
  <2> QED
    BY <1>1, <2>1 DEF Seen
<1> QED
  BY <1>2, <1>3

LEMMA RaceInit == Init => RaceInv
  BY DEF Init, RaceInv, MilestonesInOrder, BreachIsLate, Seen, Idle

LEMMA RaceStart ==
  ASSUME TypeOK, RaceInv, NEW p \in Procs, NEW s, Start(p, s), Seen(s)
  PROVE  RaceInv'
<1>1. (\A q \in Procs : Seen(h[q]))'
  BY SeenStays DEF Start, Seen, orderVars, paymentVars
<1> QED
  BY <1>1 DEF Start, RaceInv, MilestonesInOrder, BreachIsLate, orderVars, slaVars, paymentVars

LEMMA RaceCheck ==
  ASSUME TypeOK, RaceInv, NEW p \in Procs, NEW s, NEW from, NEW holds \in BOOLEAN,
         Check(p, from, holds, s), holds => Seen(s)
  PROVE  RaceInv'
<1>1. (\A q \in Procs : Seen(h[q]))'
  <2>1. CASE holds
    BY <2>1, SeenStays DEF Check, Seen, orderVars, paymentVars
  <2>2. CASE ~holds
    BY <2>2, SeenStays DEF Check, End, Seen, Idle, orderVars, paymentVars
  <2> QED
    BY <2>1, <2>2
<1> QED
  BY <1>1 DEF Check, RaceInv, MilestonesInOrder, BreachIsLate, orderVars, slaVars, paymentVars

LEMMA RaceDeliver ==
  ASSUME TypeOK, RaceInv, NEW p \in Procs, Deliver(p)
  PROVE  RaceInv'
<1>s. Seen(h[p])
  BY DEF RaceInv
<1>i. Seen(Idle)'
  BY DEF Seen, Idle
<1> USE DEF orderVars, slaVars, challanVars, paymentVars
<1>1. ASSUME NEW next, AdvanceRead(p, next)
      PROVE  RaceInv'
  BY <1>1, RaceStart DEF AdvanceRead, Seen
<1>2. CASE AdvanceWrite(p)
  BY <1>2, <1>i, SeenStays
  DEF AdvanceWrite, EndedTracking, End, RaceInv, MilestonesInOrder, BreachIsLate
<1>3. CASE InspectRead(p)
  BY <1>3, RaceStart DEF InspectRead, Seen
<1>4. CASE InspectWrite(p)
  BY <1>4, <1>i, SeenStays DEF InspectWrite, End, RaceInv, MilestonesInOrder, BreachIsLate
<1>5. ASSUME NEW snapshot, AdjustRead(p, snapshot)
      PROVE  RaceInv'
  BY <1>5, RaceStart DEF AdjustRead, Seen
<1>6. CASE AdjustWrite(p)
  BY <1>6, <1>i, SeenStays DEF AdjustWrite, End, RaceInv, MilestonesInOrder, BreachIsLate
<1>7. CASE RejectRead(p)
  BY <1>7, RaceStart DEF RejectRead, Seen
<1>8. CASE RejectCheck(p)
  <2>1. Seen([at |-> "reject"]) /\ (~signed) \in BOOLEAN
    BY DEF Seen
  <2> QED
    BY <1>8, <2>1, RaceCheck DEF RejectCheck
<1>9. CASE RejectWrite(p)
  <2>1. Seen([at |-> "rejectDraft"])'
    BY DEF Seen
  <2> QED
    BY <1>9, <2>1, SeenStays DEF RejectWrite, RaceInv, MilestonesInOrder, BreachIsLate
<1>10. CASE RejectDraft(p)
  BY <1>10, <1>i, SeenStays DEF RejectDraft, End, RaceInv, MilestonesInOrder, BreachIsLate
<1>11. CASE SignRead(p)
  <2>1. Seen([at |-> "sign", onTime |-> ~late])
    BY DEF Seen, TypeOK
  <2> QED
    BY <1>11, <2>1, RaceStart DEF SignRead
<1>12. CASE SignWrite(p)
  <2>1. slaStatus' = "breached" => late'
    BY <1>12, <1>s DEF SignWrite, Verdict, Seen
  <2> QED
    BY <1>12, <2>1, <1>i, SeenStays DEF SignWrite, End, RaceInv, MilestonesInOrder, BreachIsLate
<1> QED
  BY <1>1, <1>2, <1>3, <1>4, <1>5, <1>6, <1>7, <1>8, <1>9, <1>10, <1>11, <1>12 DEF Deliver

LEMMA RacePay ==
  ASSUME TypeOK, RaceInv, NEW p \in Procs, Pay(p)
  PROVE  RaceInv'
<1>s. Seen(h[p])
  BY DEF RaceInv
<1>i. Seen(Idle)'
  BY DEF Seen, Idle
<1> USE DEF orderVars, slaVars, challanVars, paymentVars
<1>1. CASE PayRead(p) \/ MarkRead(p) \/ DisputeRead(p) \/ ConfirmRead(p)
  <2>1. Deliverable => deliveredAt
    BY DEF Deliverable, RaceInv
  <2>2. ASSUME NEW step \in {"payCheck", "markCheck", "disputeCheck", "confirm"},
               Deliverable, Start(p, [at |-> step])
        PROVE  RaceInv'
    BY <2>1, <2>2, RaceStart DEF Seen
  <2> QED
    BY <1>1, <2>2 DEF PayRead, MarkRead, DisputeRead, ConfirmRead
<1>2. CASE PayCheck(p) \/ MarkCheck(p) \/ DisputeCheck(p)
  <2>1. h[p].at \in {"payCheck", "markCheck", "disputeCheck"}
    BY <1>2 DEF PayCheck, MarkCheck, DisputeCheck, Check
  <2>2. deliveredAt
    BY <2>1, <1>s DEF Seen
  <2>3. \A step \in {"payStart", "mark", "dispute"} : Seen([at |-> step])
    BY <2>2 DEF Seen
  <2>4. CASE PayCheck(p)
    BY <2>3, <2>4, RaceCheck DEF PayCheck
  <2>5. CASE MarkCheck(p)
    BY <2>3, <2>5, RaceCheck DEF MarkCheck
  <2>6. CASE DisputeCheck(p)
    BY <2>3, <2>6, RaceCheck DEF DisputeCheck
  <2> QED
    BY <1>2, <2>4, <2>5, <2>6
<1>3. CASE PayStart(p) \/ Mark(p) \/ Dispute(p)
  <2>1. deliveredAt /\ payment' # "confirmed_by_supplier" /\ Goto(p, Idle)
    BY <1>3, <1>s DEF PayStart, Mark, Dispute, SetPayment, End, Seen
  <2>2. UNCHANGED <<orderVars, slaVars, late, confirmedAt, invoice>>
    BY <1>3 DEF PayStart, Mark, Dispute, SetPayment
  <2>3. (\A q \in Procs : Seen(h[q]))'
    BY <2>1, <2>2, <1>i, SeenStays
  <2> QED
    BY <2>1, <2>2, <2>3 DEF RaceInv, MilestonesInOrder, BreachIsLate
<1>4. CASE Confirm(p)
  <2>1. deliveredAt /\ Seen([at |-> "confirmClose"])'
    BY <1>4, <1>s DEF Confirm, Seen
  <2> QED
    BY <1>4, <2>1, SeenStays DEF Confirm, RaceInv, MilestonesInOrder, BreachIsLate
<1>5. CASE ConfirmClose(p)
  <2>1. confirmedAt /\ Seen([at |-> "confirmInvoice"])'
    BY <1>5, <1>s DEF ConfirmClose, Seen
  <2> QED
    BY <1>5, <2>1, SeenStays DEF ConfirmClose, RaceInv, MilestonesInOrder, BreachIsLate
<1>6. CASE ConfirmInvoice(p)
  <2>1. Seen([at |-> "bill", lines |-> lines])
    BY <1>6, <1>s DEF ConfirmInvoice, Check, Seen
  <2> QED
    BY <1>6, <2>1, RaceCheck DEF ConfirmInvoice
<1>7. CASE InvoiceRead(p)
  BY <1>7, RaceStart DEF InvoiceRead, Seen
<1>8. CASE InvoiceCheck(p)
  <2>1. payment = "confirmed_by_supplier" => Seen([at |-> "bill", lines |-> h[p].lines])
    BY DEF Seen, RaceInv
  <2> QED
    BY <1>8, <2>1, RaceCheck DEF InvoiceCheck
<1>9. CASE Bill(p)
  BY <1>9, <1>s, <1>i, SeenStays
  DEF Bill, End, Seen, RaceInv, MilestonesInOrder, BreachIsLate
<1> QED
  BY <1>1, <1>2, <1>3, <1>4, <1>5, <1>6, <1>7, <1>8, <1>9 DEF Pay

LEMMA RaceNext == TypeOK /\ RaceInv /\ [Next]_vars => RaceInv'
<1> SUFFICES ASSUME TypeOK, RaceInv, [Next]_vars
             PROVE  RaceInv'
  OBVIOUS
<1> USE DEF orderVars, slaVars, challanVars, paymentVars
<1>1. ASSUME NEW p \in Procs, Deliver(p) \/ Pay(p)
      PROVE  RaceInv'
  BY <1>1, RaceDeliver, RacePay
<1>2. ASSUME NEW p \in Procs, Abort(p)
      PROVE  RaceInv'
  <2>1. Seen(Idle)'
    BY DEF Seen, Idle
  <2> QED
    BY <1>2, <2>1, SeenStays DEF Abort, End, RaceInv, MilestonesInOrder, BreachIsLate
<1>3. CASE DeadlinePasses \/ SlaFind \/ SlaWrite \/ SlaAbort
  BY <1>3 DEF DeadlinePasses, SlaFind, SlaWrite, SlaAbort, Breachable, RaceInv,
              MilestonesInOrder, BreachIsLate, Seen
<1>4. CASE UNCHANGED vars
  BY <1>4 DEF vars, RaceInv, MilestonesInOrder, BreachIsLate, Seen
<1> QED
  BY <1>1, <1>2, <1>3, <1>4 DEF Next

LEMMA RaceHolds == Spec => []RaceInv
  BY OrderTypeInit, OrderTypeNext, RaceInit, RaceNext, PTL DEF Spec

\* Delivery, confirmation, closing and invoice come in this order, whatever overlaps.
THEOREM MilestonesAreInOrder == Spec => []MilestonesInOrder
  BY RaceHolds, PTL DEF RaceInv

\* Neither the signature nor the tick blames a supplier before the deadline.
THEOREM BreachesAreLate == Spec => []BreachIsLate
  BY RaceHolds, PTL DEF RaceInv

\* Whoever bills first decides: no later confirmation or reader changes the lines.
THEOREM InvoicesStand == Spec => InvoiceStands
<1>1. [Next]_vars => (invoice # NoInvoice => invoice' = invoice)
  BY DEF Next, Deliver, AdvanceRead, AdvanceWrite, InspectRead, InspectWrite, AdjustRead,
         AdjustWrite, RejectRead, RejectCheck, RejectWrite, RejectDraft, SignRead, SignWrite,
         Pay, PayRead, PayCheck, PayStart, MarkRead, MarkCheck, Mark, DisputeRead,
         DisputeCheck, Dispute, SetPayment, ConfirmRead, Confirm, ConfirmClose,
         ConfirmInvoice, InvoiceRead, InvoiceCheck, Bill, Billed, Start, Check, Abort,
         DeadlinePasses, SlaFind, SlaWrite, SlaAbort, vars
<1> QED
  BY <1>1, PTL DEF Spec, InvoiceStands

(***************************************************************************)
(* Handlers that do not overlap.  At most one is in flight, so what it has  *)
(* read still holds when it writes, also when it crashes halfway and the    *)
(* next handler finds the order as it was left.                            *)
(***************************************************************************)
Alone ==
  /\ \A p, q \in Procs : h[p] # Idle /\ h[q] # Idle => p = q
  /\ sla = "write" => \A p \in Procs : h[p] = Idle

\* What the handler in flight has read still holds.
Fresh(s) ==
  /\ s.at = "advance" => s.next \in Allowed(status)
  /\ s.at = "inspect" => status \in {"arrived", "out_for_delivery"}
  /\ s.at = "adjust" => ~signed
  /\ s.at \in {"rejectCheck", "reject", "sign"} => AtDoor
  /\ s.at = "reject" => ~signed
  /\ s.at = "rejectDraft" => status = "rejected_on_spot"
  /\ s.at \in {"payCheck", "payStart", "markCheck", "mark", "disputeCheck", "dispute",
              "confirm"} => Deliverable
  /\ s.at \in {"payStart", "mark", "dispute"} => payment # "confirmed_by_supplier"
  /\ s.at = "confirmClose" => Deliverable /\ payment = "confirmed_by_supplier"
  /\ s.at \in {"confirmInvoice", "bill"} => payment = "confirmed_by_supplier"
  /\ s.at \in {"invoiceCheck", "bill"} => s.lines = lines

SerialInv ==
  /\ Alone
  /\ \A p \in Procs : Fresh(h[p])
  /\ signed <=> (Deliverable \/ status = "closed")
  /\ signed <=> deliveredAt
  /\ payment = "confirmed_by_supplier" => signed
  /\ status = "closed" => payment = "confirmed_by_supplier"
  /\ invoice # NoInvoice => payment = "confirmed_by_supplier" /\ invoice = lines
  /\ signed => tracking # "active"
  /\ sla = "write" => ~signed

\* When the handler in flight moves on, or one starts, it is the only one.
LEMMA AloneMoves ==
  ASSUME TypeOK, Alone, NEW p \in Procs, NEW s, h[p] # Idle, Goto(p, s), sla' = sla,
         Fresh(s)'
  PROVE  Alone' /\ (\A q \in Procs : Fresh(h[q]))'
<1>1. sla' # "write"
  BY DEF Alone, TypeOK
<1>2. \A q \in Procs : h'[q] = IF q = p THEN s ELSE Idle
  BY DEF Alone, Goto, TypeOK
<1>3. Fresh(Idle)'
  BY DEF Fresh, Idle
<1>4. Alone'
  BY <1>1, <1>2 DEF Alone
<1>5. ASSUME NEW q \in Procs
      PROVE  Fresh(h[q])'
  <2>1. CASE q = p
    BY <1>2, <2>1
  <2>2. CASE q # p
    <3>1. h'[q] = Idle
      BY <1>2, <2>2
    <3> QED
      BY <3>1, <1>3
  <2> QED
    BY <2>1, <2>2
<1> QED
  BY <1>4, <1>5

LEMMA SerialStart ==
  ASSUME Overlap = FALSE, TypeOK, SerialInv, NEW p \in Procs, NEW s, Start(p, s), Fresh(s)
  PROVE  SerialInv'
<1>1. sla = "idle" /\ \A q \in Procs : h[q] = Idle
  BY DEF Start, MayStart
<1>2. Fresh(s)'
  BY DEF Start, Fresh, Deliverable, AtDoor, Allowed, orderVars, challanVars, paymentVars
<1>3. \A q \in Procs : h'[q] = IF q = p THEN s ELSE Idle
  BY <1>1 DEF Start, Goto, TypeOK
<1>4. Alone'
  BY <1>1, <1>3 DEF Alone, Start, slaVars
<1>5. Fresh(Idle)'
  BY DEF Fresh, Idle
<1>6. (\A q \in Procs : Fresh(h[q]))'
  BY <1>2, <1>3, <1>5
<1> QED
  BY <1>4, <1>6 DEF Start, SerialInv, Deliverable, orderVars, slaVars, challanVars, paymentVars

LEMMA SerialCheck ==
  ASSUME TypeOK, SerialInv, NEW p \in Procs, NEW s, NEW from, NEW holds \in BOOLEAN,
         Check(p, from, holds, s), from # "idle", holds => Fresh(s)
  PROVE  SerialInv'
<1>1. h[p] # Idle /\ sla' = sla
  BY DEF Check, Idle, slaVars
<1>2. Fresh(Idle)'
  BY DEF Fresh, Idle
<1>3. holds => Fresh(s)'
  BY DEF Check, Fresh, Deliverable, AtDoor, Allowed, orderVars, challanVars, paymentVars
<1>4. Alone' /\ (\A q \in Procs : Fresh(h[q]))'
  BY <1>1, <1>2, <1>3, AloneMoves DEF Check, End, SerialInv
<1> QED
  BY <1>4 DEF Check, SerialInv, Deliverable, orderVars, slaVars, challanVars, paymentVars

LEMMA SerialInit == Init => SerialInv
  BY DEF Init, SerialInv, Alone, Fresh, Deliverable, Idle

LEMMA SerialDeliver ==
  ASSUME Overlap = FALSE, TypeOK, SerialInv, NEW p \in Procs, Deliver(p)
  PROVE  SerialInv'
<1>f. Fresh(h[p]) /\ Alone
  BY DEF SerialInv
<1>i. Fresh(Idle)'
  BY DEF Fresh, Idle
<1> USE DEF orderVars, slaVars, challanVars, paymentVars
<1>1. ASSUME NEW next, AdvanceRead(p, next)
      PROVE  SerialInv'
  BY <1>1, SerialStart DEF AdvanceRead, Fresh
<1>2. CASE AdvanceWrite(p)
  <2>1. ~signed /\ status # "closed" /\ h[p] # Idle /\ Goto(p, Idle)
    BY <1>2, <1>f DEF AdvanceWrite, Fresh, Allowed, SerialInv, Deliverable, Idle, End
  <2>2. Alone' /\ (\A q \in Procs : Fresh(h[q]))'
    BY <1>2, <1>f, <1>i, <2>1, AloneMoves DEF AdvanceWrite
  <2> QED
    BY <1>2, <2>1, <2>2 DEF AdvanceWrite, SerialInv, Deliverable
<1>3. CASE InspectRead(p)
  BY <1>3, SerialStart DEF InspectRead, Fresh
<1>4. CASE InspectWrite(p)
  <2>1. ~signed /\ h[p] # Idle /\ Goto(p, Idle)
    BY <1>4, <1>f DEF InspectWrite, Fresh, SerialInv, Deliverable, Idle, End
  <2>2. Alone' /\ (\A q \in Procs : Fresh(h[q]))'
    BY <1>4, <1>f, <1>i, <2>1, AloneMoves DEF InspectWrite
  <2> QED
    BY <1>4, <2>1, <2>2 DEF InspectWrite, SerialInv, Deliverable
<1>5. ASSUME NEW snapshot, AdjustRead(p, snapshot)
      PROVE  SerialInv'
  BY <1>5, SerialStart DEF AdjustRead, Fresh
<1>6. CASE AdjustWrite(p)
  <2>1. ~signed /\ h[p] # Idle /\ Goto(p, Idle)
    BY <1>6, <1>f DEF AdjustWrite, Fresh, Idle, End
  <2>2. Alone' /\ (\A q \in Procs : Fresh(h[q]))'
    BY <1>6, <1>f, <1>i, <2>1, AloneMoves DEF AdjustWrite
  <2> QED
    BY <1>6, <2>1, <2>2 DEF AdjustWrite, SerialInv, Deliverable
<1>7. CASE RejectRead(p)
  BY <1>7, SerialStart DEF RejectRead, Fresh
<1>8. CASE RejectCheck(p)
  <2>1. AtDoor
    BY <1>8, <1>f DEF RejectCheck, Check, Fresh
  <2>2. (~signed) \in BOOLEAN /\ (~signed => Fresh([at |-> "reject"]))
    BY <2>1 DEF Fresh
  <2> QED
    BY <1>8, <2>2, SerialCheck DEF RejectCheck
<1>9. CASE RejectWrite(p)
  <2>1. ~signed /\ h[p] # Idle /\ Goto(p, [at |-> "rejectDraft"])
    BY <1>9, <1>f DEF RejectWrite, Fresh, Idle
  <2>2. Fresh([at |-> "rejectDraft"])'
    BY <1>9 DEF RejectWrite, Fresh
  <2>3. Alone' /\ (\A q \in Procs : Fresh(h[q]))'
    BY <1>9, <1>f, <2>1, <2>2, AloneMoves DEF RejectWrite
  <2> QED
    BY <1>9, <2>1, <2>3 DEF RejectWrite, SerialInv, Deliverable
<1>10. CASE RejectDraft(p)
  <2>1. status = "rejected_on_spot" /\ ~signed /\ h[p] # Idle /\ Goto(p, Idle)
    BY <1>10, <1>f DEF RejectDraft, Fresh, SerialInv, Deliverable, Idle, End
  <2>2. Alone' /\ (\A q \in Procs : Fresh(h[q]))'
    BY <1>10, <1>f, <1>i, <2>1, AloneMoves DEF RejectDraft
  <2> QED
    BY <1>10, <2>1, <2>2 DEF RejectDraft, SerialInv, Deliverable
<1>11. CASE SignRead(p)
  BY <1>11, SerialStart DEF SignRead, Fresh
<1>12. CASE SignWrite(p)
  <2>1. ~signed /\ h[p] # Idle /\ Goto(p, Idle)
    BY <1>12, <1>f DEF SignWrite, Fresh, AtDoor, SerialInv, Deliverable, Idle, End
  <2>2. sla' # "write"
    BY <1>12, <2>1 DEF SignWrite, Alone, SerialInv
  <2>3. Alone' /\ (\A q \in Procs : Fresh(h[q]))'
    BY <1>12, <1>f, <1>i, <2>1, AloneMoves DEF SignWrite
  <2> QED
    BY <1>12, <2>1, <2>2, <2>3 DEF SignWrite, EndedTracking, SerialInv, Deliverable
<1> QED
  BY <1>1, <1>2, <1>3, <1>4, <1>5, <1>6, <1>7, <1>8, <1>9, <1>10, <1>11, <1>12 DEF Deliver

LEMMA SerialPay ==
  ASSUME Overlap = FALSE, TypeOK, SerialInv, NEW p \in Procs, Pay(p)
  PROVE  SerialInv'
<1>f. Fresh(h[p]) /\ Alone
  BY DEF SerialInv
<1>i. Fresh(Idle)'
  BY DEF Fresh, Idle
<1> USE DEF orderVars, slaVars, challanVars, paymentVars
<1>1. CASE PayRead(p) \/ MarkRead(p) \/ DisputeRead(p) \/ ConfirmRead(p)
  <2>1. ASSUME NEW step \in {"payCheck", "markCheck", "disputeCheck", "confirm"},
               Deliverable, Start(p, [at |-> step])
        PROVE  SerialInv'
    BY <2>1, SerialStart DEF Fresh
  <2> QED
    BY <1>1, <2>1 DEF PayRead, MarkRead, DisputeRead, ConfirmRead
<1>2. CASE PayCheck(p) \/ MarkCheck(p) \/ DisputeCheck(p)
  <2>1. Deliverable
    BY <1>2, <1>f DEF PayCheck, MarkCheck, DisputeCheck, Check, Fresh
  <2>2. \A step \in {"payStart", "mark", "dispute"} :
          payment # "confirmed_by_supplier" => Fresh([at |-> step])
    BY <2>1 DEF Fresh
  <2>3. CASE PayCheck(p)
    BY <2>2, <2>3, SerialCheck DEF PayCheck
  <2>4. CASE MarkCheck(p)
    BY <2>2, <2>4, SerialCheck DEF MarkCheck
  <2>5. CASE DisputeCheck(p)
    BY <2>2, <2>5, SerialCheck DEF DisputeCheck
  <2> QED
    BY <1>2, <2>3, <2>4, <2>5
<1>3. CASE PayStart(p) \/ Mark(p) \/ Dispute(p)
  <2>1. /\ Deliverable /\ payment # "confirmed_by_supplier"
        /\ payment' # "confirmed_by_supplier"
        /\ h[p] # Idle /\ Goto(p, Idle)
    BY <1>3, <1>f DEF PayStart, Mark, Dispute, SetPayment, End, Fresh, Idle
  <2>2. UNCHANGED <<orderVars, slaVars, tracking, challanVars, invoice>>
    BY <1>3 DEF PayStart, Mark, Dispute, SetPayment
  <2>3. Alone' /\ (\A q \in Procs : Fresh(h[q]))'
    BY <1>f, <1>i, <2>1, <2>2, AloneMoves
  <2> QED
    BY <2>1, <2>2, <2>3 DEF SerialInv, Deliverable
<1>4. CASE Confirm(p)
  <2>1. /\ Deliverable /\ h[p] # Idle /\ Goto(p, [at |-> "confirmClose"])
        /\ Fresh([at |-> "confirmClose"])'
    BY <1>4, <1>f DEF Confirm, Fresh, Idle, Deliverable
  <2>2. Alone' /\ (\A q \in Procs : Fresh(h[q]))'
    BY <1>4, <1>f, <2>1, AloneMoves DEF Confirm
  <2> QED
    BY <1>4, <2>1, <2>2 DEF Confirm, SerialInv, Deliverable
<1>5. CASE ConfirmClose(p)
  <2>1. /\ Deliverable /\ payment = "confirmed_by_supplier"
        /\ h[p] # Idle /\ Goto(p, [at |-> "confirmInvoice"])
        /\ Fresh([at |-> "confirmInvoice"])'
    BY <1>5, <1>f DEF ConfirmClose, Fresh, Idle
  <2>2. Alone' /\ (\A q \in Procs : Fresh(h[q]))'
    BY <1>5, <1>f, <2>1, AloneMoves DEF ConfirmClose
  <2> QED
    BY <1>5, <2>1, <2>2 DEF ConfirmClose, SerialInv, Deliverable
<1>6. CASE ConfirmInvoice(p)
  <2>1. Fresh([at |-> "bill", lines |-> lines])
    BY <1>6, <1>f DEF ConfirmInvoice, Check, Fresh
  <2> QED
    BY <1>6, <2>1, SerialCheck DEF ConfirmInvoice
<1>7. CASE InvoiceRead(p)
  BY <1>7, SerialStart DEF InvoiceRead, Fresh
<1>8. CASE InvoiceCheck(p)
  <2>1. payment = "confirmed_by_supplier" => Fresh([at |-> "bill", lines |-> h[p].lines])
    BY <1>8, <1>f DEF InvoiceCheck, Fresh
  <2> QED
    BY <1>8, <2>1, SerialCheck DEF InvoiceCheck
<1>9. CASE Bill(p)
  <2>1. /\ payment = "confirmed_by_supplier" /\ invoice' = lines
        /\ h[p] # Idle /\ Goto(p, Idle)
    BY <1>9, <1>f DEF Bill, Billed, SerialInv, Fresh, Idle, End
  <2>2. Alone' /\ (\A q \in Procs : Fresh(h[q]))'
    BY <1>9, <1>f, <1>i, <2>1, AloneMoves DEF Bill
  <2> QED
    BY <1>9, <2>1, <2>2 DEF Bill, SerialInv, Deliverable
<1> QED
  BY <1>1, <1>2, <1>3, <1>4, <1>5, <1>6, <1>7, <1>8, <1>9 DEF Pay

LEMMA SerialNext ==
  ASSUME Overlap = FALSE, TypeOK, SerialInv, [Next]_vars
  PROVE  SerialInv'
<1> USE DEF orderVars, slaVars, challanVars, paymentVars
<1>1. ASSUME NEW p \in Procs, Deliver(p) \/ Pay(p)
      PROVE  SerialInv'
  BY <1>1, SerialDeliver, SerialPay
<1>2. ASSUME NEW p \in Procs, Abort(p)
      PROVE  SerialInv'
  <2>1. Fresh(Idle)' /\ Alone
    BY DEF Fresh, Idle, SerialInv
  <2>2. Alone' /\ (\A q \in Procs : Fresh(h[q]))'
    BY <1>2, <2>1, AloneMoves DEF Abort, End
  <2> QED
    BY <1>2, <2>2 DEF Abort, SerialInv, Deliverable
<1>3. CASE DeadlinePasses
  BY <1>3 DEF DeadlinePasses, SerialInv, Alone, Fresh, Deliverable, AtDoor, Allowed
<1>4. CASE SlaFind
  <2>1. ~signed /\ \A p \in Procs : h[p] = Idle
    BY <1>4 DEF SlaFind, MayStart, Breachable, SerialInv, Deliverable
  <2> QED
    BY <1>4, <2>1 DEF SlaFind, SerialInv, Alone, Fresh, Deliverable, AtDoor, Allowed
<1>5. CASE SlaWrite \/ SlaAbort
  BY <1>5 DEF SlaWrite, SlaAbort, SerialInv, Alone, Fresh, Deliverable, AtDoor, Allowed
<1>6. CASE UNCHANGED vars
  BY <1>6 DEF vars, SerialInv, Alone, Fresh, Deliverable, AtDoor, Allowed
<1> QED
  BY <1>1, <1>2, <1>3, <1>4, <1>5, <1>6 DEF Next

LEMMA SerialHolds ==
  ASSUME Overlap = FALSE
  PROVE  Spec => [](TypeOK /\ SerialInv)
<1>1. Init => TypeOK /\ SerialInv
  BY OrderTypeInit, SerialInit
<1>2. TypeOK /\ SerialInv /\ [Next]_vars => (TypeOK /\ SerialInv)'
  BY OrderTypeNext, SerialNext
<1> QED
  BY <1>1, <1>2, PTL DEF Spec

\* Without overlap a closed order is signed, paid, and no longer tracked.
THEOREM ClosedOrdersAreSettled ==
  ASSUME Overlap = FALSE
  PROVE  Spec => []ClosedOrderIsSettled
<1>1. SerialInv => ClosedOrderIsSettled
  BY DEF SerialInv, ClosedOrderIsSettled, Deliverable
<1> QED
  BY <1>1, SerialHolds, PTL

\* Without overlap the verdict of the signature stands: the tick has written before.
THEOREM SlaVerdictsAreFinal ==
  ASSUME Overlap = FALSE
  PROVE  Spec => SlaVerdictIsFinal
<1>1. SerialInv /\ [Next]_vars => (deliveredAt => slaStatus' = slaStatus)
  <2> SUFFICES ASSUME SerialInv, [Next]_vars, deliveredAt
               PROVE  slaStatus' = slaStatus
    OBVIOUS
  <2>1. sla # "write" /\ ~AtDoor
    BY DEF SerialInv, Deliverable, AtDoor
  <2>2. ASSUME NEW p \in Procs
        PROVE  ~SignWrite(p)
    BY <2>1 DEF SerialInv, Fresh, SignWrite
  <2> QED
    BY <2>1, <2>2
    DEF Next, Deliver, AdvanceRead, AdvanceWrite, InspectRead, InspectWrite, AdjustRead,
        AdjustWrite, RejectRead, RejectCheck, RejectWrite, RejectDraft, SignRead,
        Pay, PayRead, PayCheck, PayStart, MarkRead, MarkCheck, Mark, DisputeRead,
        DisputeCheck, Dispute, SetPayment, ConfirmRead, Confirm, ConfirmClose,
        ConfirmInvoice, InvoiceRead, InvoiceCheck, Bill, Start, Check, Abort,
        DeadlinePasses, SlaFind, SlaWrite, SlaAbort, vars, slaVars
<1> QED
  BY <1>1, SerialHolds, PTL DEF Spec, SlaVerdictIsFinal

\* STATUS_RANK gives a rank to every status an order takes but rejected_on_spot.
LEMMA Ranks ==
  /\ Rank("bid_accepted") = 0
  /\ Rank("preparing") = 1
  /\ Rank("out_for_delivery") = 2
  /\ \A s \in {"arrived", "inspection_pending"} : Rank(s) = 3
  /\ \A s \in {"delivered", "challan_signed"} : Rank(s) = 4
  /\ Rank("closed") = 5
  BY DEF Rank

StatusWritten(p) ==
  AdvanceWrite(p) \/ InspectWrite(p) \/ RejectWrite(p) \/ SignWrite(p) \/ ConfirmClose(p)

LEMMA StatusWriters ==
  ASSUME [Next]_vars
  PROVE  status' = status \/ \E p \in Procs : StatusWritten(p)
  BY DEF Next, Deliver, AdvanceRead, InspectRead, AdjustRead, AdjustWrite, RejectRead, RejectCheck,
         RejectDraft, SignRead, Pay, PayRead, PayCheck, PayStart, MarkRead, MarkCheck, Mark,
         DisputeRead, DisputeCheck, Dispute, SetPayment, ConfirmRead, Confirm, ConfirmInvoice,
         InvoiceRead, InvoiceCheck, Bill, Start, Check, Abort, DeadlinePasses, SlaFind, SlaWrite,
         SlaAbort, vars, orderVars, StatusWritten

\* A handler that writes the status moves the order on from where it read it.
LEMMA StatusStep ==
  ASSUME TypeOK, SerialInv, status # "placed", [Next]_vars
  PROVE  /\ status' # "placed"
         /\ IF status = "rejected_on_spot" THEN status' = status
            ELSE status' = "rejected_on_spot" \/ Rank(status) <= Rank(status')
<1>1. CASE status' = status
  <2>1. status # "rejected_on_spot" => Rank(status) \in Nat
    BY Ranks DEF TypeOK, OrderStatus
  <2> QED
    BY <1>1, <2>1
<1>2. ASSUME NEW p \in Procs, StatusWritten(p)
      PROVE  /\ status' # "placed"
             /\ IF status = "rejected_on_spot" THEN status' = status
                ELSE status' = "rejected_on_spot" \/ Rank(status) <= Rank(status')
  <2>f. Fresh(h[p])
    BY DEF SerialInv
  <2>1. CASE AdvanceWrite(p)
    BY <2>1, <2>f, Ranks DEF AdvanceWrite, Fresh, Allowed
  <2>2. CASE InspectWrite(p)
    BY <2>2, <2>f, Ranks DEF InspectWrite, Fresh
  <2>3. CASE RejectWrite(p)
    BY <2>3 DEF RejectWrite
  <2>4. CASE SignWrite(p)
    BY <2>4, <2>f, Ranks DEF SignWrite, Fresh, AtDoor
  <2>5. CASE ConfirmClose(p)
    BY <2>5, <2>f, Ranks DEF ConfirmClose, Fresh, Deliverable
  <2> QED
    BY <1>2, <2>1, <2>2, <2>3, <2>4, <2>5 DEF StatusWritten
<1> QED
  BY <1>1, <1>2, StatusWriters

\* Without overlap no handler of orders/routes.ts takes an order back in STATUS_RANK.
THEOREM StatusesMoveForward ==
  ASSUME Overlap = FALSE
  PROVE  Spec => StatusMovesForward
<1> DEFINE Placed == status = "placed"
           Forward == IF status = "rejected_on_spot" THEN status' = status
                      ELSE status' = "rejected_on_spot" \/ Rank(status) <= Rank(status')
<1>1. Init => ~Placed
  BY DEF Init
<1>2. TypeOK /\ SerialInv /\ ~Placed /\ [Next]_vars => ~Placed'
  BY StatusStep
<1>3. TypeOK /\ SerialInv /\ ~Placed /\ [Next]_vars => [Forward]_vars
  BY StatusStep
<1> HIDE DEF Placed
<1> QED
  BY <1>1, <1>2, <1>3, SerialHolds, PTL DEF Spec, StatusMovesForward

(***************************************************************************)
(* Without overlap OrderLifecycle implements OrderPromise.                  *)
(***************************************************************************)
Terms == IF signed THEN lines ELSE NoInvoice

\* A step that changes nothing an order promises.
LEMMA Stutters ==
  ASSUME Stage' = Stage, Terms' = Terms, invoice' = invoice
  PROVE  UNCHANGED Promise!vars
  BY DEF Promise!vars, Terms

LEMMA StepStutters ==
  ASSUME UNCHANGED <<status, challanVars, payment, invoice>>
  PROVE  UNCHANGED Promise!vars
  BY Stutters DEF Stage, Terms, challanVars

LEMMA PromiseInit == Init => Promise!Init
  BY DEF Init, Promise!Init, Stage

LEMMA DeliverKeepsPromise ==
  ASSUME TypeOK, SerialInv, NEW p \in Procs, Deliver(p)
  PROVE  [Promise!Next]_Promise!vars
<1>f. Fresh(h[p])
  BY DEF SerialInv
<1> USE DEF orderVars, challanVars, paymentVars
<1>1. ASSUME NEW next, AdvanceRead(p, next)
      PROVE  UNCHANGED Promise!vars
  BY <1>1, StepStutters DEF AdvanceRead, Start
<1>2. CASE InspectRead(p) \/ RejectRead(p) \/ SignRead(p)
  BY <1>2, StepStutters DEF InspectRead, RejectRead, SignRead, Start
<1>3. ASSUME NEW snapshot, AdjustRead(p, snapshot)
      PROVE  UNCHANGED Promise!vars
  BY <1>3, StepStutters DEF AdjustRead, Start
<1>4. CASE RejectCheck(p)
  BY <1>4, StepStutters DEF RejectCheck, Check
<1>5. CASE AdvanceWrite(p)
  <2>1. status # "rejected_on_spot" /\ status' # "rejected_on_spot"
    BY <1>5, <1>f DEF AdvanceWrite, Fresh, Allowed
  <2> QED
    BY <1>5, <2>1, Stutters DEF AdvanceWrite, Stage, Terms
<1>6. CASE InspectWrite(p)
  <2>1. status # "rejected_on_spot" /\ status' # "rejected_on_spot"
    BY <1>6, <1>f DEF InspectWrite, Fresh
  <2> QED
    BY <1>6, <2>1, Stutters DEF InspectWrite, Stage, Terms
<1>7. CASE AdjustWrite(p)
  <2>1. ~signed
    BY <1>7, <1>f DEF AdjustWrite, Fresh
  <2> QED
    BY <1>7, <2>1, Stutters DEF AdjustWrite, Stage, Terms
<1>8. CASE RejectWrite(p)
  <2>1. AtDoor /\ ~signed /\ payment # "confirmed_by_supplier"
    BY <1>8, <1>f DEF RejectWrite, Fresh, SerialInv
  <2>2. Promise!Refuse
    BY <1>8, <2>1 DEF RejectWrite, AtDoor, Stage, Promise!Refuse
  <2> QED
    BY <2>2 DEF Promise!Next
<1>9. CASE RejectDraft(p)
  <2>1. status = "rejected_on_spot" /\ ~signed
    BY <1>9, <1>f DEF RejectDraft, Fresh, SerialInv, Deliverable
  <2> QED
    BY <1>9, <2>1, Stutters DEF RejectDraft, Stage, Terms
<1>10. CASE SignWrite(p)
  <2>1. AtDoor /\ ~signed /\ payment # "confirmed_by_supplier" /\ lines \in Snapshots
    BY <1>10, <1>f DEF SignWrite, Fresh, AtDoor, SerialInv, Deliverable, TypeOK
  <2>2. Promise!Deliver
    BY <1>10, <2>1 DEF SignWrite, AtDoor, Stage, Promise!Deliver
  <2> QED
    BY <2>2 DEF Promise!Next
<1> QED
  BY <1>1, <1>2, <1>3, <1>4, <1>5, <1>6, <1>7, <1>8, <1>9, <1>10 DEF Deliver

LEMMA PayKeepsPromise ==
  ASSUME TypeOK, SerialInv, NEW p \in Procs, Pay(p)
  PROVE  [Promise!Next]_Promise!vars
<1>f. Fresh(h[p])
  BY DEF SerialInv
<1> USE DEF orderVars, challanVars, paymentVars
<1>1. CASE PayRead(p) \/ MarkRead(p) \/ DisputeRead(p) \/ ConfirmRead(p) \/ InvoiceRead(p)
  BY <1>1, StepStutters
  DEF PayRead, MarkRead, DisputeRead, ConfirmRead, InvoiceRead, Start
<1>2. CASE PayCheck(p) \/ MarkCheck(p) \/ DisputeCheck(p) \/ ConfirmInvoice(p) \/ InvoiceCheck(p)
  BY <1>2, StepStutters
  DEF PayCheck, MarkCheck, DisputeCheck, ConfirmInvoice, InvoiceCheck, Check
<1>3. CASE PayStart(p) \/ Mark(p) \/ Dispute(p)
  <2>1. payment # "confirmed_by_supplier" /\ payment' # "confirmed_by_supplier"
    BY <1>3, <1>f DEF PayStart, Mark, Dispute, SetPayment, Fresh
  <2>2. UNCHANGED <<status, signed, lines, invoice>>
    BY <1>3 DEF PayStart, Mark, Dispute, SetPayment
  <2> QED
    BY <2>1, <2>2, Stutters DEF Stage, Terms
<1>4. CASE Confirm(p)
  <2>1. Deliverable /\ signed
    BY <1>4, <1>f DEF Confirm, Fresh, SerialInv
  <2>2. CASE payment = "confirmed_by_supplier"
    BY <1>4, <2>2, StepStutters DEF Confirm
  <2>3. CASE payment # "confirmed_by_supplier"
    <3>1. Promise!Settle
      BY <1>4, <2>1, <2>3 DEF Confirm, Deliverable, Stage, Promise!Settle
    <3> QED
      BY <3>1 DEF Promise!Next
  <2> QED
    BY <2>2, <2>3
<1>5. CASE ConfirmClose(p)
  <2>1. status # "rejected_on_spot"
    BY <1>5, <1>f DEF ConfirmClose, Fresh, Deliverable
  <2> QED
    BY <1>5, <2>1, Stutters DEF ConfirmClose, Stage, Terms
<1>6. CASE Bill(p)
  <2>1. /\ payment = "confirmed_by_supplier" /\ h[p].lines = lines
        /\ signed /\ status # "rejected_on_spot"
    BY <1>6, <1>f DEF Bill, Fresh, SerialInv, Deliverable
  <2>2. CASE invoice = NoInvoice
    <3>1. Promise!Bill
      BY <1>6, <2>1, <2>2 DEF Bill, Billed, Stage, Promise!Bill
    <3> QED
      BY <3>1 DEF Promise!Next
  <2>3. CASE invoice # NoInvoice
    BY <1>6, <2>3, StepStutters DEF Bill, Billed
  <2> QED
    BY <2>2, <2>3
<1> QED
  BY <1>1, <1>2, <1>3, <1>4, <1>5, <1>6 DEF Pay

\* Without overlap, an order is refused at the door or delivered on the signed
\* lines, settled once and billed on those lines, whatever crashes halfway.
THEOREM OrdersKeepTheirPromise ==
  ASSUME Overlap = FALSE
  PROVE  Spec => KeepsPromise
<1>1. TypeOK /\ SerialInv /\ [Next]_vars => [Promise!Next]_Promise!vars
  <2> SUFFICES ASSUME TypeOK, SerialInv, [Next]_vars
               PROVE  [Promise!Next]_Promise!vars
    OBVIOUS
  <2>1. ASSUME NEW p \in Procs, Deliver(p) \/ Pay(p)
        PROVE  [Promise!Next]_Promise!vars
    BY <2>1, DeliverKeepsPromise, PayKeepsPromise
  <2>2. ASSUME NEW p \in Procs, Abort(p)
        PROVE  UNCHANGED Promise!vars
    BY <2>2, StepStutters DEF Abort, orderVars, challanVars, paymentVars
  <2>3. CASE DeadlinePasses \/ SlaFind \/ SlaWrite \/ SlaAbort
    BY <2>3, StepStutters
    DEF DeadlinePasses, SlaFind, SlaWrite, SlaAbort, orderVars, challanVars, paymentVars
  <2>4. CASE UNCHANGED vars
    BY <2>4, StepStutters DEF vars, orderVars, challanVars, paymentVars
  <2> QED
    BY <2>1, <2>2, <2>3, <2>4 DEF Next
<1> QED
  BY <1>1, PromiseInit, SerialHolds, PTL DEF Spec, KeepsPromise, Promise!Spec
=============================================================================
