---------------------------- MODULE AuctionProofs ----------------------------
(***************************************************************************)
(* Theorems about Auction, for any number of requests, items, bids,         *)
(* suppliers and handler slots and any times that satisfy TimesAssumption.  *)
(***************************************************************************)
EXTENDS Auction, TLAPS

(***************************************************************************)
(* Type correctness.                                                       *)
(***************************************************************************)
\* What the step a handler is about to take says of the record's fields.
LEMMA HandlerFields ==
  ASSUME NEW s \in Handlers
  PROVE  /\ s.at = "placeExtend" =>
              /\ s.bid \in Bids /\ s.covers \in SUBSET Items
              /\ s.live \in Nat /\ s.ext \in Nat /\ s.since \in Nat
         /\ s.at = "placeInsert" =>
              /\ s.bid \in Bids /\ s.covers \in SUBSET Items
              /\ s.expires \in Nat /\ s.since \in Nat
         /\ s.at \in {"withdraw", "reject", "acceptCheck", "createOrder"} => s.bid \in Bids
         /\ s.at = "acceptLock" => s.bid \in Bids /\ s.items \in SUBSET Items
         /\ s.at = "acceptCommit" =>
              s.bid \in Bids /\ s.items \in SUBSET Items /\ s.awards \in {"all", "some"}
         /\ s.at \in {"planCheck", "planCommit"} =>
              /\ s.req \in Requests /\ s.drop \in SUBSET Items
              /\ s.sel \in [Items -> Bids \cup {NoBid}]
         /\ s.at \in {"cancel", "patch"} => s.req \in Requests
         /\ s.at = "patchWrite" => s.req \in Requests /\ s.rows \in SUBSET Items
  BY DEF Handlers, Idle

\* The records the handlers go on with.
LEMMA HandlerForms ==
  /\ Idle \in Handlers
  /\ \A b \in Bids, S \in SUBSET Items, e, n, t \in Nat :
       [at |-> "placeExtend", bid |-> b, covers |-> S,
        live |-> e, ext |-> n, since |-> t] \in Handlers
  /\ \A b \in Bids, S \in SUBSET Items, e, t \in Nat :
       [at |-> "placeInsert", bid |-> b, covers |-> S,
        expires |-> e, since |-> t] \in Handlers
  /\ \A step \in {"withdraw", "reject", "acceptCheck", "createOrder"}, b \in Bids :
       [at |-> step, bid |-> b] \in Handlers
  /\ \A b \in Bids, S \in SUBSET Items :
       [at |-> "acceptLock", bid |-> b, items |-> S] \in Handlers
  /\ \A b \in Bids, S \in SUBSET Items, awards \in {"all", "some"} :
       [at |-> "acceptCommit", bid |-> b, items |-> S, awards |-> awards] \in Handlers
  /\ \A step \in {"planCheck", "planCommit"}, r \in Requests,
        sel \in [Items -> Bids \cup {NoBid}], S \in SUBSET Items :
       [at |-> step, req |-> r, sel |-> sel, drop |-> S] \in Handlers
  /\ \A step \in {"cancel", "patch"}, r \in Requests :
       [at |-> step, req |-> r] \in Handlers
  /\ \A r \in Requests, S \in SUBSET Items :
       [at |-> "patchWrite", req |-> r, rows |-> S] \in Handlers
  BY DEF Handlers

\* A step of the handler in slot p leaves all handlers well formed.
LEMMA HandlerSlot ==
  ASSUME h \in [Procs -> Handlers], NEW p \in Procs, NEW s \in Handlers,
         h' = [h EXCEPT ![p] = s]
  PROVE  h' \in [Procs -> Handlers]
  OBVIOUS

LEMMA TypeInit == Init => TypeOK
  BY RowsAssumption DEF Init, TypeOK, ReqStatus, ItemStatus, BidStatus, Handlers, Ticks, Idle

LEMMA CoversType ==
  ASSUME TypeOK, NEW b \in Bids
  PROVE  Covers(b) \in SUBSET Items
  BY DEF TypeOK, Covers, ItemsOf, RowsOf

LEMMA TypeNext == TypeOK /\ [Next]_vars => TypeOK'
<1> SUFFICES ASSUME TypeOK, [Next]_vars
             PROVE  TypeOK'
  OBVIOUS
<1> USE RowsAssumption, TimesAssumption
<1> USE DEF reqVars, itemVars, bidVars, Start, Goto, End, ReqStatus, ItemStatus, BidStatus
<1>1. CASE Tick
  BY <1>1 DEF Tick, TypeOK
<1>2. ASSUME NEW r \in Requests, NEW S \in SUBSET Items, CreateRequest(r, S)
      PROVE  TypeOK'
  BY <1>2 DEF CreateRequest, TypeOK
<1>3. ASSUME NEW p \in Procs, Handle(p)
      PROVE  TypeOK'
  <2>h. h[p] \in Handlers
    BY DEF TypeOK
  <2>1. ASSUME NEW r \in Requests, PatchRead(p, r) \/ CancelRead(p, r)
        PROVE  TypeOK'
    BY <2>1, HandlerForms, HandlerSlot DEF PatchRead, CancelRead, TypeOK
  <2>2. ASSUME NEW r \in Requests, NEW sel \in [Items -> Bids \cup {NoBid}], PlanRead(p, r, sel)
        PROVE  TypeOK'
    BY <2>2, HandlerForms, HandlerSlot DEF PlanRead, OpenItems, RowsOf, TypeOK
  <2>3. ASSUME NEW b \in Bids, NEW covers \in SUBSET Items, PlaceRead(p, b, covers)
        PROVE  TypeOK'
    BY <2>3, HandlerForms, HandlerSlot DEF PlaceRead, TypeOK
  <2>4. ASSUME NEW b \in Bids,
               WithdrawRead(p, b) \/ RejectRead(p, b) \/ AcceptRead(p, b) \/ Acknowledge(p, b)
        PROVE  TypeOK'
    BY <2>4, HandlerForms, HandlerSlot
    DEF WithdrawRead, RejectRead, AcceptRead, Acknowledge, TypeOK
  <2>5. CASE PatchDelete(p)
    BY <2>5, <2>h, HandlerFields, HandlerForms, HandlerSlot
    DEF PatchDelete, ItemsOf, RowsOf, TypeOK
  <2>6. ASSUME NEW S \in SUBSET Items, PatchWrite(p, S)
        PROVE  TypeOK'
    BY <2>6, HandlerForms, HandlerSlot DEF PatchWrite, TypeOK
  <2>7. CASE CancelWrite(p)
    BY <2>7, HandlerForms, HandlerSlot DEF CancelWrite, SetActive, TypeOK
  <2>8. CASE PlaceExtend(p)
    <3> DEFINE s == h[p]
    <3>1. s.bid \in Bids /\ s.covers \in SUBSET Items
          /\ s.live \in Nat /\ s.ext \in Nat /\ s.since \in Nat
      BY <2>8, <2>h, HandlerFields DEF PlaceExtend
    <3>2. ExtendedEnd(s) \in Nat /\ BidExpiry(ExtendedEnd(s)) \in Nat
      BY <3>1 DEF ExtendedEnd, NearEnd, BidExpiry, TypeOK
    <3>3. h' \in [Procs -> Handlers]
      BY <2>8, <3>1, <3>2, HandlerForms, HandlerSlot DEF PlaceExtend, TypeOK
    <3>4. liveEndsAt' \in [Requests -> Nat] /\ extendCount' \in [Requests -> Nat]
      BY <2>8, <3>1, <3>2 DEF PlaceExtend, TypeOK
    <3> QED
      BY <2>8, <3>3, <3>4 DEF PlaceExtend, TypeOK
  <2>9. CASE PlaceInsert(p)
    BY <2>9, <2>h, HandlerFields, HandlerForms, HandlerSlot DEF PlaceInsert, TypeOK
  <2>10. CASE WithdrawWrite(p) \/ RejectWrite(p)
    <3>1. PICK status \in BidStatus : bidStatus' = [bidStatus EXCEPT ![h[p].bid] = status]
      BY <2>10 DEF WithdrawWrite, RejectWrite, CloseBid
    <3>2. bidStatus' \in [Bids -> BidStatus]
      BY <3>1 DEF TypeOK
    <3>3. h' \in [Procs -> Handlers]
      BY <2>10, HandlerForms, HandlerSlot DEF WithdrawWrite, RejectWrite, CloseBid, TypeOK
    <3> QED
      BY <2>10, <3>2, <3>3 DEF WithdrawWrite, RejectWrite, CloseBid, TypeOK
  <2>11. CASE AcceptCheck(p)
    BY <2>11, <2>h, HandlerFields, HandlerForms, HandlerSlot, CoversType
    DEF AcceptCheck, Acceptable, TypeOK
  <2>12. CASE AcceptLock(p)
    BY <2>12, <2>h, HandlerFields, HandlerForms, HandlerSlot DEF AcceptLock, TypeOK
  <2>13. CASE AcceptCommit(p)
    <3>1. h[p].bid \in Bids /\ h[p].awards \in {"all", "some"}
      BY <2>13, <2>h, HandlerFields DEF AcceptCommit
    <3>2. h' \in [Procs -> Handlers]
      BY <2>13, <3>1, HandlerForms, HandlerSlot DEF AcceptCommit, TypeOK
    <3>3. itemStatus' \in [Items -> ItemStatus] /\ bidStatus' \in [Bids -> BidStatus]
      BY <2>13 DEF AcceptCommit, TypeOK
    <3>4. reqStatus' \in [Requests -> ReqStatus] /\ winningBid' \in [Requests -> Bids \cup {NoBid}]
      BY <2>13, <3>1 DEF AcceptCommit, TypeOK
    <3> QED
      BY <2>13, <3>1, <3>2, <3>3, <3>4 DEF AcceptCommit, TypeOK
  <2>14. CASE CreateOrder(p)
    <3>1. h[p].bid \in Bids
      BY <2>14, <2>h, HandlerFields DEF CreateOrder
    <3>2. h' \in [Procs -> Handlers]
      BY <2>14, HandlerForms, HandlerSlot DEF CreateOrder, TypeOK
    <3>3. OrderFor(h[p].bid, Covers(h[p].bid)) \in SUBSET Items
      BY <3>1, CoversType DEF OrderFor, TypeOK
    <3>4. orders' \in [Bids -> SUBSET Items]
      BY <2>14, <3>1, <3>3 DEF CreateOrder, TypeOK
    <3> QED
      BY <2>14, <3>2, <3>4 DEF CreateOrder, TypeOK
  <2>15. CASE PlanCheck(p)
    BY <2>15, <2>h, HandlerFields, HandlerForms, HandlerSlot DEF PlanCheck, TypeOK
  <2>16. CASE PlanCommit(p)
    BY <2>16, <2>h, HandlerFields, HandlerForms, HandlerSlot
    DEF PlanCommit, PlanItems, PlanOrders, OrderFor, Winners, Selected, TypeOK
  <2>17. CASE Abort(p)
    BY <2>17, HandlerForms, HandlerSlot DEF Abort, TypeOK
  <2> QED
    BY <1>3, <2>1, <2>2, <2>3, <2>4, <2>5, <2>6, <2>7, <2>8, <2>9, <2>10, <2>11,
       <2>12, <2>13, <2>14, <2>15, <2>16, <2>17 DEF Handle
<1>4. CASE Work \/ WorkerAbort
  <2>1. CASE WorkerFind
    BY <2>1 DEF WorkerFind, SweepBids, StaleBids, Overdue, Ticks, Idle, TypeOK
  <2>2. CASE WorkerExpireRequests
    BY <2>2 DEF WorkerExpireRequests, Ticks, Idle, TypeOK
  <2>3. CASE WorkerExpireTheirBids
    BY <2>3 DEF WorkerExpireTheirBids, SetActive, SweepBids, StaleBids, Ticks, Idle, TypeOK
  <2>4. CASE WorkerExpireBids
    BY <2>4 DEF WorkerExpireBids, Ticks, Idle, TypeOK
  <2>5. CASE WorkerAbort
    BY <2>5 DEF WorkerAbort, Ticks, TypeOK
  <2> QED
    BY <1>4, <2>1, <2>2, <2>3, <2>4, <2>5 DEF Work
<1>5. CASE UNCHANGED vars
  BY <1>5 DEF vars, TypeOK
<1> QED
  BY <1>1, <1>2, <1>3, <1>4, <1>5 DEF Next

\* Type correctness: every column keeps a value its enum or type allows, and every
\* handler the record its next step expects.
THEOREM TypeCorrect == Spec => []TypeOK
  BY TypeInit, TypeNext, PTL DEF Spec

(***************************************************************************)
(* Auto-extension.  A bid is placed in three steps, each of which uses the  *)
(* end the first one read.  What makes that harmless: an end that has been  *)
(* moved since lies at most ExtendBy from now, and so before the end that a *)
(* pending extension is going to write.                                    *)
(***************************************************************************)
PendingExtend(s) ==
  LET end == liveEndsAt[BidOn[s.bid]] IN
  /\ s.live <= end
  /\ s.live = end \/ end <= now + ExtendBy

EndsInv ==
  /\ \A b \in Bids : expiresAt[b] <= liveEndsAt[BidOn[b]]
  /\ \A r \in Requests : reqStatus[r] = "absent" => liveEndsAt[r] = 0
  /\ \A p \in Procs :
       /\ h[p].at \in {"placeExtend", "placeInsert"} => reqStatus[BidOn[h[p].bid]] # "absent"
       /\ h[p].at = "placeExtend" => PendingExtend(h[p])
       /\ h[p].at = "placeInsert" => h[p].expires <= liveEndsAt[BidOn[h[p].bid]]

\* What a step that places no bid, creates no request and extends no auction may do.
EndsFrame ==
  /\ now' \in Nat /\ now' >= now
  /\ UNCHANGED <<liveEndsAt, expiresAt>>
  /\ \A r \in Requests : reqStatus'[r] = "absent" => reqStatus[r] = "absent"
  /\ \A p \in Procs : h'[p].at \in {"placeExtend", "placeInsert"} => h'[p] = h[p]

LEMMA FrameKeepsEnds ==
  ASSUME TypeOK, EndsInv, EndsFrame
  PROVE  EndsInv'
<1> USE RowsAssumption, TimesAssumption
<1>1. \A b \in Bids : expiresAt'[b] <= liveEndsAt'[BidOn[b]]
  BY DEF EndsInv, EndsFrame
<1>2. \A r \in Requests : reqStatus'[r] = "absent" => liveEndsAt'[r] = 0
  BY DEF EndsInv, EndsFrame
<1>3. ASSUME NEW p \in Procs, h'[p].at \in {"placeExtend", "placeInsert"}
      PROVE  /\ h'[p] = h[p] /\ h[p].bid \in Bids /\ BidOn[h[p].bid] \in Requests
             /\ h[p].at = "placeExtend" => h[p].live \in Nat
  BY <1>3, HandlerFields DEF EndsFrame, TypeOK
<1>4. ASSUME NEW p \in Procs, h'[p].at \in {"placeExtend", "placeInsert"}
      PROVE  reqStatus'[BidOn[h'[p].bid]] # "absent"
  BY <1>3, <1>4 DEF EndsInv, EndsFrame
<1>5. ASSUME NEW p \in Procs, h'[p].at = "placeExtend"
      PROVE  PendingExtend(h[p])'
  BY <1>3, <1>5 DEF EndsInv, EndsFrame, PendingExtend, TypeOK
<1>6. ASSUME NEW p \in Procs, h'[p].at = "placeInsert"
      PROVE  h'[p].expires <= liveEndsAt'[BidOn[h'[p].bid]]
  BY <1>3, <1>6 DEF EndsInv, EndsFrame
<1> QED
  BY <1>1, <1>2, <1>4, <1>5, <1>6 DEF EndsInv

LEMMA EndsInit == Init => EndsInv
  BY RowsAssumption DEF Init, EndsInv, Idle

LEMMA ExtendedEndLater ==
  ASSUME TypeOK, NEW s, s.live \in Nat, NEW e \in Nat, s.live <= e,
         s.live = e \/ e <= now + ExtendBy
  PROVE  /\ ExtendedEnd(s) \in Nat
         /\ NearEnd(s) => ExtendedEnd(s) >= e /\ ExtendedEnd(s) = now + ExtendBy
         /\ ~NearEnd(s) => ExtendedEnd(s) <= e
         /\ BidExpiry(ExtendedEnd(s)) \in Nat
         /\ BidExpiry(ExtendedEnd(s)) <= ExtendedEnd(s)
<1>1. CASE NearEnd(s)
  BY <1>1, TimesAssumption DEF ExtendedEnd, NearEnd, BidExpiry, TypeOK
<1>2. CASE ~NearEnd(s)
  BY <1>2, TimesAssumption DEF ExtendedEnd, BidExpiry, TypeOK
<1> QED
  BY <1>1, <1>2

LEMMA CreateKeepsEnds ==
  ASSUME TypeOK, EndsInv, NEW r \in Requests, NEW S \in SUBSET Items, CreateRequest(r, S)
  PROVE  EndsInv' /\ \A x \in Requests : liveEndsAt'[x] >= liveEndsAt[x]
<1> USE RowsAssumption, TimesAssumption
<1>1. \A x \in Requests : liveEndsAt'[x] \in Nat /\ liveEndsAt'[x] >= liveEndsAt[x]
                           /\ (x # r => liveEndsAt'[x] = liveEndsAt[x])
  BY DEF CreateRequest, EndsInv, TypeOK
<1>2. \A b \in Bids : expiresAt'[b] <= liveEndsAt'[BidOn[b]]
  <2> SUFFICES ASSUME NEW b \in Bids
               PROVE  expiresAt[b] <= liveEndsAt'[BidOn[b]]
    BY DEF CreateRequest, bidVars
  <2>1. expiresAt[b] \in Nat /\ BidOn[b] \in Requests /\ liveEndsAt[BidOn[b]] \in Nat
    BY DEF TypeOK
  <2> QED
    BY <1>1, <2>1 DEF EndsInv
<1>3. \A x \in Requests : reqStatus'[x] = "absent" => liveEndsAt'[x] = 0
  BY <1>1 DEF CreateRequest, EndsInv, TypeOK
<1>4. ASSUME NEW p \in Procs, h[p].at \in {"placeExtend", "placeInsert"}
      PROVE  BidOn[h[p].bid] \in Requests \ {r} /\ reqStatus'[BidOn[h[p].bid]] # "absent"
  BY <1>4, HandlerFields DEF CreateRequest, EndsInv, TypeOK
<1>5. h' = h /\ now' = now
  BY DEF CreateRequest
<1>6. ASSUME NEW p \in Procs
      PROVE  /\ h[p].at \in {"placeExtend", "placeInsert"} => reqStatus'[BidOn[h[p].bid]] # "absent"
             /\ h[p].at = "placeExtend" => PendingExtend(h[p])'
             /\ h[p].at = "placeInsert" => h[p].expires <= liveEndsAt'[BidOn[h[p].bid]]
  BY <1>1, <1>4, <1>5 DEF EndsInv, PendingExtend
<1> QED
  BY <1>1, <1>2, <1>3, <1>5, <1>6 DEF EndsInv

LEMMA PlaceReadKeepsEnds ==
  ASSUME TypeOK, EndsInv, NEW p \in Procs, NEW b \in Bids, NEW covers \in SUBSET Items,
         PlaceRead(p, b, covers)
  PROVE  EndsInv'
<1>1. h' = [h EXCEPT ![p] = [at |-> "placeExtend", bid |-> b, covers |-> covers,
                              live |-> liveEndsAt[BidOn[b]], ext |-> extendCount[BidOn[b]],
                              since |-> now]]
      /\ reqStatus[BidOn[b]] = "open"
  BY DEF PlaceRead, Start
<1>2. liveEndsAt[BidOn[b]] \in Nat
  BY RowsAssumption DEF TypeOK
<1>3. UNCHANGED <<now, reqVars, bidVars>>
  BY DEF PlaceRead
<1>4. /\ \A c \in Bids : expiresAt'[c] <= liveEndsAt'[BidOn[c]]
      /\ \A r \in Requests : reqStatus'[r] = "absent" => liveEndsAt'[r] = 0
  BY <1>3 DEF EndsInv, reqVars, bidVars
<1>5. ASSUME NEW q \in Procs
      PROVE  /\ h'[q].at \in {"placeExtend", "placeInsert"} => reqStatus'[BidOn[h'[q].bid]] # "absent"
             /\ h'[q].at = "placeExtend" => PendingExtend(h[q])'
             /\ h'[q].at = "placeInsert" => h'[q].expires <= liveEndsAt'[BidOn[h'[q].bid]]
  <2>1. CASE q = p
    BY <1>1, <1>2, <1>3, <2>1 DEF PendingExtend, reqVars, TypeOK
  <2>2. CASE q # p
    BY <1>1, <1>3, <2>2 DEF EndsInv, PendingExtend, reqVars, TypeOK
  <2> QED
    BY <2>1, <2>2
<1> QED
  BY <1>4, <1>5 DEF EndsInv

\* The step that matters: it writes an end, and settles the bid's expiry by it.
LEMMA PlaceExtendKeepsEnds ==
  ASSUME TypeOK, EndsInv, NEW p \in Procs, PlaceExtend(p)
  PROVE  EndsInv' /\ \A x \in Requests : liveEndsAt'[x] >= liveEndsAt[x]
<1> DEFINE s == h[p]
           r == BidOn[s.bid]
           e == liveEndsAt[r]
           new == ExtendedEnd(s)
<1> USE RowsAssumption, TimesAssumption
<1>1. s.bid \in Bids /\ r \in Requests /\ s.live \in Nat /\ e \in Nat
  BY HandlerFields DEF PlaceExtend, TypeOK
<1>2. s.live <= e /\ (s.live = e \/ e <= now + ExtendBy) /\ reqStatus[r] # "absent"
  BY DEF PlaceExtend, EndsInv, PendingExtend
<1>3. /\ new \in Nat /\ BidExpiry(new) \in Nat /\ BidExpiry(new) <= new
      /\ NearEnd(s) => new >= e /\ new = now + ExtendBy
      /\ ~NearEnd(s) => new <= e
  BY <1>1, <1>2, ExtendedEndLater
<1>4. now' = now /\ reqStatus' = reqStatus /\ bidStatus' = bidStatus /\ expiresAt' = expiresAt
  BY DEF PlaceExtend, bidVars
<1>9. /\ \/ NearEnd(s) /\ liveEndsAt' = [liveEndsAt EXCEPT ![r] = new]
         \/ ~NearEnd(s) /\ liveEndsAt' = liveEndsAt
      /\ \/ h' = [h EXCEPT ![p] = Idle]
         \/ h' = [h EXCEPT ![p] = [at |-> "placeInsert", bid |-> s.bid, covers |-> s.covers,
                                   expires |-> BidExpiry(new), since |-> s.since]]
  BY DEF PlaceExtend, End, Goto
<1>5. /\ \A x \in Requests : liveEndsAt'[x] \in Nat /\ liveEndsAt'[x] >= liveEndsAt[x]
      /\ \A x \in Requests \ {r} : liveEndsAt'[x] = liveEndsAt[x]
      /\ liveEndsAt'[r] = e \/ liveEndsAt'[r] <= now + ExtendBy
      /\ BidExpiry(new) <= liveEndsAt'[r]
  BY <1>1, <1>3, <1>9 DEF TypeOK
<1>6. \A b \in Bids : expiresAt'[b] <= liveEndsAt'[BidOn[b]]
  <2> SUFFICES ASSUME NEW b \in Bids
               PROVE  expiresAt[b] <= liveEndsAt'[BidOn[b]]
    BY <1>4
  <2>1. expiresAt[b] \in Nat /\ BidOn[b] \in Requests /\ liveEndsAt[BidOn[b]] \in Nat
    BY DEF TypeOK
  <2> QED
    BY <1>5, <2>1 DEF EndsInv
<1>7. \A x \in Requests : reqStatus'[x] = "absent" => liveEndsAt'[x] = 0
  BY <1>2, <1>4, <1>5 DEF EndsInv
<1>8. ASSUME NEW q \in Procs
      PROVE  /\ h'[q].at \in {"placeExtend", "placeInsert"} => reqStatus'[BidOn[h'[q].bid]] # "absent"
             /\ h'[q].at = "placeExtend" => PendingExtend(h[q])'
             /\ h'[q].at = "placeInsert" => h'[q].expires <= liveEndsAt'[BidOn[h'[q].bid]]
  <2>1. CASE q = p
    BY <1>2, <1>4, <1>5, <1>9, <2>1 DEF Idle, TypeOK
  <2>2. CASE q # p
    <3>1. h'[q] = h[q]
      BY <1>9, <2>2 DEF TypeOK
    <3>2. ASSUME h[q].at = "placeExtend"
          PROVE  PendingExtend(h[q])'
      <4>1. h[q].live \in Nat /\ BidOn[h[q].bid] \in Requests /\ PendingExtend(h[q])
            /\ liveEndsAt[BidOn[h[q].bid]] \in Nat /\ now \in Nat
        BY <3>2, HandlerFields DEF EndsInv, TypeOK
      <4>2. CASE BidOn[h[q].bid] = r
        BY <1>4, <1>5, <3>1, <4>1, <4>2 DEF PendingExtend
      <4>3. CASE BidOn[h[q].bid] # r
        BY <1>4, <1>5, <3>1, <4>1, <4>3 DEF PendingExtend
      <4> QED
        BY <4>2, <4>3
    <3>3. ASSUME h[q].at = "placeInsert"
          PROVE  h[q].expires <= liveEndsAt'[BidOn[h[q].bid]]
      <4>1. h[q].expires \in Nat /\ BidOn[h[q].bid] \in Requests
            /\ h[q].expires <= liveEndsAt[BidOn[h[q].bid]]
            /\ liveEndsAt[BidOn[h[q].bid]] \in Nat
        BY <3>3, HandlerFields DEF EndsInv, TypeOK
      <4> QED
        BY <1>5, <4>1
    <3> QED
      BY <1>4, <3>1, <3>2, <3>3 DEF EndsInv
  <2> QED
    BY <2>1, <2>2
<1> QED
  BY <1>5, <1>6, <1>7, <1>8 DEF EndsInv

LEMMA PlaceInsertKeepsEnds ==
  ASSUME TypeOK, EndsInv, NEW p \in Procs, PlaceInsert(p)
  PROVE  EndsInv'
<1> USE RowsAssumption
<1>1. h[p].bid \in Bids /\ h[p].expires <= liveEndsAt[BidOn[h[p].bid]]
  BY HandlerFields DEF PlaceInsert, EndsInv, TypeOK
<1>2. /\ UNCHANGED <<now, reqStatus, liveEndsAt>>
      /\ h' = [h EXCEPT ![p] = Idle]
      /\ expiresAt' = [expiresAt EXCEPT ![h[p].bid] = h[p].expires]
  BY DEF PlaceInsert, End, Goto, reqVars
<1>3. \A b \in Bids : expiresAt'[b] <= liveEndsAt'[BidOn[b]]
  BY <1>1, <1>2 DEF EndsInv, TypeOK
<1> QED
  BY <1>2, <1>3 DEF EndsInv, PendingExtend, Idle, TypeOK

LEMMA EndsNext ==
  ASSUME TypeOK, EndsInv, [Next]_vars
  PROVE  EndsInv' /\ \A x \in Requests : liveEndsAt'[x] >= liveEndsAt[x]
<1> USE TimesAssumption, RowsAssumption
<1> USE DEF reqVars, itemVars, bidVars, Start, Goto, End, Idle
<1>f. ASSUME EndsFrame
      PROVE  EndsInv' /\ \A x \in Requests : liveEndsAt'[x] >= liveEndsAt[x]
  BY <1>f, FrameKeepsEnds DEF EndsFrame, TypeOK
<1>1. CASE Tick
  BY <1>f, <1>1 DEF Tick, EndsFrame, TypeOK
<1>2. ASSUME NEW r \in Requests, NEW S \in SUBSET Items, CreateRequest(r, S)
      PROVE  EndsInv' /\ \A x \in Requests : liveEndsAt'[x] >= liveEndsAt[x]
  BY <1>2, CreateKeepsEnds
<1>3. ASSUME NEW p \in Procs, Handle(p)
      PROVE  EndsInv' /\ \A x \in Requests : liveEndsAt'[x] >= liveEndsAt[x]
  <2>1. ASSUME NEW r \in Requests, PatchRead(p, r) \/ CancelRead(p, r)
        PROVE  EndsFrame
    BY <2>1 DEF PatchRead, CancelRead, EndsFrame, TypeOK
  <2>2. ASSUME NEW r \in Requests, NEW sel \in [Items -> Bids \cup {NoBid}], PlanRead(p, r, sel)
        PROVE  EndsFrame
    BY <2>2 DEF PlanRead, EndsFrame, TypeOK
  <2>3. ASSUME NEW b \in Bids, NEW covers \in SUBSET Items, PlaceRead(p, b, covers)
        PROVE  EndsInv' /\ \A x \in Requests : liveEndsAt'[x] >= liveEndsAt[x]
    <3>1. EndsInv'
      BY <2>3, PlaceReadKeepsEnds
    <3>2. \A x \in Requests : liveEndsAt'[x] >= liveEndsAt[x]
      BY <2>3 DEF PlaceRead, TypeOK
    <3> QED
      BY <3>1, <3>2
  <2>4. ASSUME NEW b \in Bids,
               WithdrawRead(p, b) \/ RejectRead(p, b) \/ AcceptRead(p, b) \/ Acknowledge(p, b)
        PROVE  EndsFrame
    BY <2>4 DEF WithdrawRead, RejectRead, AcceptRead, Acknowledge, EndsFrame, TypeOK
  <2>5. CASE PatchDelete(p) \/ \E S \in SUBSET Items : PatchWrite(p, S)
    <3>1. EndsFrame
      BY <2>5 DEF PatchDelete, PatchWrite, EndsFrame, TypeOK
    <3> QED
      BY <1>f, <3>1
  <2>6. CASE CancelWrite(p)
    <3>1. EndsFrame
      BY <2>6 DEF CancelWrite, SetActive, Active, EndsFrame, TypeOK
    <3> QED
      BY <1>f, <3>1
  <2>7. CASE PlaceExtend(p)
    BY <2>7, PlaceExtendKeepsEnds
  <2>8. CASE PlaceInsert(p)
    <3>1. EndsInv'
      BY <2>8, PlaceInsertKeepsEnds
    <3>2. \A x \in Requests : liveEndsAt'[x] >= liveEndsAt[x]
      BY <2>8 DEF PlaceInsert, TypeOK
    <3> QED
      BY <3>1, <3>2
  <2>9. CASE WithdrawWrite(p) \/ RejectWrite(p)
    <3>1. EndsFrame
      BY <2>9 DEF WithdrawWrite, RejectWrite, CloseBid, EndsFrame, TypeOK
    <3> QED
      BY <1>f, <3>1
  <2>10. CASE AcceptCheck(p) \/ AcceptLock(p) \/ CreateOrder(p) \/ PlanCheck(p) \/ Abort(p)
    <3>1. EndsFrame
      BY <2>10 DEF AcceptCheck, Acceptable, AcceptLock, CreateOrder, PlanCheck, PlanValid, Abort,
                   EndsFrame, TypeOK
    <3> QED
      BY <1>f, <3>1
  <2>11. CASE AcceptCommit(p)
    <3>1. EndsFrame
      BY <2>11 DEF AcceptCommit, EndsFrame, TypeOK
    <3> QED
      BY <1>f, <3>1
  <2>12. CASE PlanCommit(p)
    <3>1. EndsFrame
      BY <2>12 DEF PlanCommit, EndsFrame, TypeOK
    <3> QED
      BY <1>f, <3>1
  <2> QED
    BY <1>3, <1>f, <2>1, <2>2, <2>3, <2>4, <2>5, <2>6, <2>7, <2>8, <2>9, <2>10, <2>11, <2>12
    DEF Handle
<1>4. CASE Work \/ WorkerAbort
  <2>1. EndsFrame
    BY <1>4 DEF Work, WorkerFind, WorkerExpireRequests, WorkerExpireTheirBids, SetActive,
                WorkerExpireBids, WorkerAbort, EndsFrame, TypeOK
  <2> QED
    BY <1>f, <2>1
<1>5. CASE UNCHANGED vars
  <2>1. EndsFrame
    BY <1>5 DEF vars, EndsFrame, TypeOK
  <2> QED
    BY <1>f, <2>1
<1> QED
  BY <1>1, <1>2, <1>3, <1>4, <1>5 DEF Next

\* A bid never outlives its auction, whichever stale end its expiry was computed
\* from: computeBidExpiresAt against concurrent auto-extensions.
THEOREM BidsEndWithAuction == Spec => []BidWithinAuction
<1>1. Init => TypeOK /\ EndsInv
  BY TypeInit, EndsInit
<1>2. TypeOK /\ EndsInv /\ [Next]_vars => (TypeOK /\ EndsInv)'
  BY TypeNext, EndsNext
<1>3. EndsInv => BidWithinAuction
  BY DEF EndsInv, BidWithinAuction
<1> QED
  BY <1>1, <1>2, <1>3, PTL DEF Spec

\* The end a supplier or consumer was shown is never brought forward by a late
\* write of an auto-extension.
THEOREM EndsOnlyMoveLater == Spec => EndNeverMovesEarlier
<1>1. Spec => [](TypeOK /\ EndsInv)
  <2>1. Init => TypeOK /\ EndsInv
    BY TypeInit, EndsInit
  <2>2. TypeOK /\ EndsInv /\ [Next]_vars => (TypeOK /\ EndsInv)'
    BY TypeNext, EndsNext
  <2> QED
    BY <2>1, <2>2, PTL DEF Spec
<1>2. TypeOK /\ EndsInv /\ [Next]_vars =>
        [\A r \in Requests : liveEndsAt'[r] >= liveEndsAt[r]]_vars
  BY EndsNext
<1> QED
  BY <1>1, <1>2, PTL DEF Spec, EndNeverMovesEarlier

(***************************************************************************)
(* Awards.  Rows belong together: what a handler read of a request's items  *)
(* and bids are rows of that request, and the request exists.              *)
(***************************************************************************)
HandlerRows(s) ==
  /\ s.at \in {"placeExtend", "placeInsert"} => s.covers \subseteq RowsOf(BidOn[s.bid])
  /\ s.at \in {"acceptCheck", "acceptLock", "acceptCommit"} => reqStatus[BidOn[s.bid]] # "absent"
  /\ s.at \in {"acceptLock", "acceptCommit"} => s.items \subseteq RowsOf(BidOn[s.bid])
  /\ s.at \in {"planCheck", "planCommit"} =>
       /\ reqStatus[s.req] # "absent"
       /\ \A i \in Selected(s.sel) : ItemOf[i] = s.req /\ BidOn[s.sel[i]] = s.req
  /\ s.at \in {"patch", "patchWrite"} => reqStatus[s.req] # "absent"
  /\ s.at = "patchWrite" => s.rows \subseteq RowsOf(s.req)

ItemsHaveRequest == \A i \in Items : itemStatus[i] # "absent" => reqStatus[ItemOf[i]] # "absent"
CoversOwnRequest == \A b \in Bids : bidCovers[b] \subseteq RowsOf(BidOn[b])

RowsInv ==
  /\ ItemsHaveRequest
  /\ CoversOwnRequest
  /\ \A p \in Procs : HandlerRows(h[p])

LEMMA RowsInit == Init => RowsInv
  BY RowsAssumption DEF Init, RowsInv, ItemsHaveRequest, CoversOwnRequest, HandlerRows, Idle

\* No statement takes a request back to where it did not exist.
LEMMA RequestsPersist ==
  ASSUME TypeOK, [Next]_vars, NEW r \in Requests, reqStatus[r] # "absent"
  PROVE  reqStatus'[r] # "absent"
<1> USE DEF reqVars
<1>1. CASE Tick
  BY <1>1 DEF Tick
<1>2. ASSUME NEW x \in Requests, NEW S \in SUBSET Items, CreateRequest(x, S)
      PROVE  reqStatus'[r] # "absent"
  BY <1>2 DEF CreateRequest, TypeOK
<1>3. ASSUME NEW p \in Procs, Handle(p)
      PROVE  reqStatus'[r] # "absent"
  <2>1. CASE reqStatus' = reqStatus
    BY <2>1
  <2>2. CASE CancelWrite(p) \/ AcceptCommit(p) \/ PlanCommit(p)
    BY <2>2 DEF CancelWrite, AcceptCommit, PlanCommit, TypeOK
  <2> QED
    BY <1>3, <2>1, <2>2
    DEF Handle, PatchRead, CancelRead, PlanRead, PlaceRead, WithdrawRead, RejectRead, AcceptRead,
        Acknowledge, PatchDelete, PatchWrite, PlaceExtend, PlaceInsert, WithdrawWrite, RejectWrite,
        CloseBid, AcceptCheck, AcceptLock, CreateOrder, PlanCheck, Abort
<1>4. CASE Work \/ WorkerAbort
  BY <1>4 DEF Work, WorkerFind, WorkerExpireRequests, WorkerExpireTheirBids, WorkerExpireBids,
              WorkerAbort, TypeOK
<1>5. CASE UNCHANGED vars
  BY <1>5 DEF vars
<1> QED
  BY <1>1, <1>2, <1>3, <1>4, <1>5 DEF Next

LEMMA HandlerKeepsRows ==
  ASSUME TypeOK, RowsInv, [Next]_vars, NEW q \in Procs, h'[q] = h[q]
  PROVE  HandlerRows(h[q])'
<1>1. h[q] \in Handlers /\ HandlerRows(h[q])
  BY DEF TypeOK, RowsInv
<1>2. \A b \in Bids : BidOn[b] \in Requests
  BY RowsAssumption
<1>3. h[q].at \in {"acceptCheck", "acceptLock", "acceptCommit"} =>
        reqStatus'[BidOn[h[q].bid]] # "absent"
  BY <1>1, <1>2, HandlerFields, RequestsPersist DEF HandlerRows
<1>4. h[q].at \in {"planCheck", "planCommit", "patch", "patchWrite"} =>
        reqStatus'[h[q].req] # "absent"
  BY <1>1, HandlerFields, RequestsPersist DEF HandlerRows
<1> QED
  BY <1>1, <1>3, <1>4 DEF HandlerRows, Selected, RowsOf

\* A step that goes on with s in slot p keeps the rows of every handler.
LEMMA SlotKeepsRows ==
  ASSUME TypeOK, RowsInv, [Next]_vars,
         NEW p \in Procs, NEW s, h' = [h EXCEPT ![p] = s], HandlerRows(s)'
  PROVE  \A q \in Procs : HandlerRows(h[q])'
<1> SUFFICES ASSUME NEW q \in Procs
             PROVE  HandlerRows(h[q])'
  OBVIOUS
<1>1. CASE q = p
  BY <1>1 DEF TypeOK
<1>2. CASE q # p
  BY <1>2, HandlerKeepsRows DEF TypeOK
<1> QED
  BY <1>1, <1>2

\* Items are created with their request or by an edit of it, and awarded or
\* cancelled by handlers of it.
LEMMA ItemsNext ==
  ASSUME TypeOK, RowsInv, [Next]_vars
  PROVE  ItemsHaveRequest' /\ CoversOwnRequest'
<1> USE RowsAssumption
<1> USE DEF reqVars, itemVars, bidVars
<1>f. ASSUME \A i \in Items : itemStatus'[i] # "absent" =>
                itemStatus[i] # "absent" \/ reqStatus'[ItemOf[i]] # "absent"
      PROVE  ItemsHaveRequest'
  BY <1>f, RequestsPersist DEF RowsInv, ItemsHaveRequest
<1>g. ASSUME bidCovers' = bidCovers
      PROVE  CoversOwnRequest'
  BY <1>g DEF RowsInv, CoversOwnRequest, RowsOf
<1>1. CASE Tick
  BY <1>1, <1>f, <1>g DEF Tick
<1>2. ASSUME NEW r \in Requests, NEW S \in SUBSET Items, CreateRequest(r, S)
      PROVE  ItemsHaveRequest' /\ CoversOwnRequest'
  BY <1>2, <1>f, <1>g DEF CreateRequest, RowsOf, TypeOK
<1>3. ASSUME NEW p \in Procs, Handle(p)
      PROVE  ItemsHaveRequest' /\ CoversOwnRequest'
  <2>h. h[p] \in Handlers /\ HandlerRows(h[p])
    BY DEF RowsInv, TypeOK
  <2>1. CASE UNCHANGED <<itemStatus, bidCovers>>
    BY <2>1, <1>f, <1>g
  <2>2. ASSUME NEW S \in SUBSET Items, PatchWrite(p, S)
        PROVE  ItemsHaveRequest' /\ CoversOwnRequest'
    <3>1. h[p].req \in Requests /\ reqStatus[h[p].req] # "absent"
      BY <2>2, <2>h, HandlerFields DEF PatchWrite, HandlerRows
    <3>2. ItemsHaveRequest'
      <4>1. reqStatus'[h[p].req] # "absent"
        BY <3>1, RequestsPersist
      <4>2. S \cup h[p].rows \subseteq RowsOf(h[p].req)
        BY <2>2, <2>h DEF PatchWrite, HandlerRows
      <4>3. \A i \in Items : itemStatus'[i] # "absent" =>
              itemStatus[i] # "absent" \/ i \in S \cup h[p].rows
        BY <2>2 DEF PatchWrite
      <4>4. \A i \in S \cup h[p].rows : ItemOf[i] = h[p].req
        BY <4>2 DEF RowsOf
      <4> QED
        BY <4>1, <4>3, <4>4, <1>f
    <3> QED
      BY <2>2, <3>2, <1>g DEF PatchWrite
  <2>3. CASE PlaceInsert(p)
    <3>1. h[p].bid \in Bids /\ h[p].covers \subseteq RowsOf(BidOn[h[p].bid])
      BY <2>3, <2>h, HandlerFields DEF PlaceInsert, HandlerRows
    <3>2. CoversOwnRequest'
      BY <2>3, <3>1 DEF PlaceInsert, CoversOwnRequest, RowsInv, RowsOf, TypeOK
    <3> QED
      BY <2>3, <3>2, <1>f DEF PlaceInsert
  <2>4. CASE AcceptCommit(p)
    <3>1. /\ h[p].bid \in Bids /\ h[p].items \subseteq RowsOf(BidOn[h[p].bid])
          /\ reqStatus[BidOn[h[p].bid]] # "absent"
      BY <2>4, <2>h, HandlerFields DEF AcceptCommit, HandlerRows
    <3>2. reqStatus'[BidOn[h[p].bid]] # "absent"
      BY <3>1, RequestsPersist
    <3>3. ItemsHaveRequest'
      BY <2>4, <3>1, <3>2, <1>f DEF AcceptCommit, RowsOf, TypeOK
    <3> QED
      BY <2>4, <3>3, <1>g DEF AcceptCommit
  <2>5. CASE PlanCommit(p)
    <3>1. /\ h[p].req \in Requests /\ reqStatus[h[p].req] # "absent"
          /\ \A i \in Selected(h[p].sel) : ItemOf[i] = h[p].req
      BY <2>5, <2>h, HandlerFields DEF PlanCommit, HandlerRows
    <3>2. reqStatus'[h[p].req] # "absent"
      BY <3>1, RequestsPersist
    <3>3. itemStatus' = PlanItems(h[p])
      BY <2>5 DEF PlanCommit
    <3>4. \A i \in Items \ Selected(h[p].sel) : itemStatus'[i] # "absent" => itemStatus[i] # "absent"
      BY <3>3 DEF PlanItems
    <3>5. ItemsHaveRequest'
      BY <3>1, <3>2, <3>4, <1>f
    <3> QED
      BY <2>5, <3>5, <1>g DEF PlanCommit
  <2> QED
    BY <1>3, <2>1, <2>2, <2>3, <2>4, <2>5
    DEF Handle, PatchRead, CancelRead, PlanRead, PlaceRead, WithdrawRead, RejectRead, AcceptRead,
        Acknowledge, PatchDelete, PlaceExtend, WithdrawWrite, RejectWrite, CloseBid, CancelWrite,
        AcceptCheck, AcceptLock, CreateOrder, PlanCheck, Abort
<1>4. CASE Work \/ WorkerAbort
  BY <1>4, <1>f, <1>g DEF Work, WorkerFind, WorkerExpireRequests, WorkerExpireTheirBids,
                          WorkerExpireBids, WorkerAbort
<1>5. CASE UNCHANGED vars
  BY <1>5, <1>f, <1>g DEF vars
<1> QED
  BY <1>1, <1>2, <1>3, <1>4, <1>5 DEF Next

LEMMA RowsNext ==
  ASSUME TypeOK, RowsInv, [Next]_vars
  PROVE  RowsInv'
<1> USE RowsAssumption
<1> USE DEF Start, Goto, End
<1> SUFFICES \A q \in Procs : HandlerRows(h[q])'
  BY ItemsNext DEF RowsInv
<1>f. ASSUME h' = h
      PROVE  \A q \in Procs : HandlerRows(h[q])'
  BY <1>f, HandlerKeepsRows
<1>1. ASSUME NEW p \in Procs, Handle(p)
      PROVE  \A q \in Procs : HandlerRows(h[q])'
  <2>h. h[p] \in Handlers /\ HandlerRows(h[p])
    BY DEF RowsInv, TypeOK
  <2>i. ASSUME NEW s, h' = [h EXCEPT ![p] = s], HandlerRows(s)'
        PROVE  \A q \in Procs : HandlerRows(h[q])'
    BY <2>i, SlotKeepsRows
  <2>e. ASSUME h' = [h EXCEPT ![p] = Idle]
        PROVE  \A q \in Procs : HandlerRows(h[q])'
    <3>1. HandlerRows(Idle)'
      BY DEF HandlerRows, Idle
    <3> QED
      BY <2>e, <2>i, <3>1
  <2>1. ASSUME NEW r \in Requests, PatchRead(p, r)
        PROVE  \A q \in Procs : HandlerRows(h[q])'
    <3>1. HandlerRows([at |-> "patch", req |-> r])'
      BY <2>1 DEF PatchRead, HandlerRows, reqVars
    <3> QED
      BY <2>1, <2>i, <3>1 DEF PatchRead
  <2>2. ASSUME NEW r \in Requests, CancelRead(p, r)
        PROVE  \A q \in Procs : HandlerRows(h[q])'
    <3>1. HandlerRows([at |-> "cancel", req |-> r])'
      BY DEF HandlerRows
    <3> QED
      BY <2>2, <2>i, <3>1 DEF CancelRead
  <2>3. ASSUME NEW r \in Requests, NEW sel \in [Items -> Bids \cup {NoBid}], PlanRead(p, r, sel)
        PROVE  \A q \in Procs : HandlerRows(h[q])'
    <3>s. PICK s : s = [at |-> "planCheck", req |-> r, sel |-> sel,
                      drop |-> OpenItems(r) \ Selected(sel)]
      OBVIOUS
    <3>1. \A i \in Selected(sel) : ItemOf[i] = r /\ BidOn[sel[i]] = r
      BY <2>3 DEF PlanRead, Plannable, OpenItems, RowsOf
    <3>2. reqStatus'[r] # "absent"
      BY <2>3 DEF PlanRead, reqVars
    <3>3. HandlerRows(s)'
      BY <3>s, <3>1, <3>2 DEF HandlerRows, Selected
    <3> QED
      BY <3>s, <2>3, <2>i, <3>3 DEF PlanRead
  <2>4. ASSUME NEW b \in Bids, NEW covers \in SUBSET Items, PlaceRead(p, b, covers)
        PROVE  \A q \in Procs : HandlerRows(h[q])'
    <3>s. PICK s : s = [at |-> "placeExtend", bid |-> b, covers |-> covers,
                      live |-> liveEndsAt[BidOn[b]], ext |-> extendCount[BidOn[b]], since |-> now]
      OBVIOUS
    <3>1. HandlerRows(s)'
      BY <3>s, <2>4 DEF PlaceRead, HandlerRows, ItemsOf, RowsOf
    <3> QED
      BY <3>s, <2>4, <2>i, <3>1 DEF PlaceRead
  <2>5. ASSUME NEW b \in Bids, NEW step \in {"withdraw", "reject", "createOrder"},
               h' = [h EXCEPT ![p] = [at |-> step, bid |-> b]]
        PROVE  \A q \in Procs : HandlerRows(h[q])'
    <3>1. HandlerRows([at |-> step, bid |-> b])'
      BY DEF HandlerRows
    <3> QED
      BY <2>5, <2>i, <3>1
  <2>6. ASSUME NEW b \in Bids, AcceptRead(p, b)
        PROVE  \A q \in Procs : HandlerRows(h[q])'
    <3>1. HandlerRows([at |-> "acceptCheck", bid |-> b])'
      BY <2>6 DEF AcceptRead, HandlerRows, reqVars
    <3> QED
      BY <2>6, <2>i, <3>1 DEF AcceptRead
  <2>7. CASE PatchDelete(p)
    <3>s. PICK s : s = [at |-> "patchWrite", req |-> h[p].req, rows |-> ItemsOf(h[p].req)]
      OBVIOUS
    <3>1. HandlerRows(s)'
      BY <3>s, <2>7, <2>h DEF PatchDelete, HandlerRows, ItemsOf, RowsOf, reqVars
    <3> QED
      BY <3>s, <2>7, <2>i, <3>1 DEF PatchDelete
  <2>8. CASE PlaceExtend(p) /\ h' # [h EXCEPT ![p] = Idle]
    <3>s. PICK s : s = [at |-> "placeInsert", bid |-> h[p].bid, covers |-> h[p].covers,
                      expires |-> BidExpiry(ExtendedEnd(h[p])), since |-> h[p].since]
      OBVIOUS
    <3>1. HandlerRows(s)'
      BY <3>s, <2>8, <2>h DEF PlaceExtend, HandlerRows, RowsOf
    <3> QED
      BY <3>s, <2>8, <2>i, <3>1 DEF PlaceExtend
  <2>9. CASE AcceptCheck(p) /\ h' # [h EXCEPT ![p] = Idle]
    <3>s. PICK s : s = [at |-> "acceptLock", bid |-> h[p].bid, items |-> Covers(h[p].bid)]
      OBVIOUS
    <3>1. h[p].bid \in Bids /\ reqStatus'[BidOn[h[p].bid]] # "absent"
      BY <2>9, <2>h, HandlerFields DEF AcceptCheck, HandlerRows, reqVars
    <3>2. Covers(h[p].bid) \subseteq RowsOf(BidOn[h[p].bid])
      BY <3>1 DEF RowsInv, CoversOwnRequest, Covers, ItemsOf
    <3>3. HandlerRows(s)'
      BY <3>s, <3>1, <3>2 DEF HandlerRows, RowsOf
    <3> QED
      BY <3>s, <2>9, <2>i, <3>3 DEF AcceptCheck
  <2>10. CASE AcceptLock(p)
    <3>s. PICK s : s = [at |-> "acceptCommit", bid |-> h[p].bid, items |-> h[p].items,
                      awards |-> IF AllAwardedBeside(BidOn[h[p].bid], h[p].items)
                                 THEN "all" ELSE "some"]
      OBVIOUS
    <3>1. HandlerRows(s)'
      BY <3>s, <2>10, <2>h DEF AcceptLock, HandlerRows, RowsOf, reqVars
    <3> QED
      BY <3>s, <2>10, <2>i, <3>1 DEF AcceptLock
  <2>11. CASE PlanCheck(p) /\ h' # [h EXCEPT ![p] = Idle]
    <3>s. PICK s : s = [at |-> "planCommit", req |-> h[p].req, sel |-> h[p].sel, drop |-> h[p].drop]
      OBVIOUS
    <3>1. HandlerRows(s)'
      BY <3>s, <2>11, <2>h DEF PlanCheck, HandlerRows, Selected, reqVars
    <3> QED
      BY <3>s, <2>11, <2>i, <3>1 DEF PlanCheck
  <2>12. CASE AcceptCommit(p)
    <3>1. h[p].bid \in Bids
      BY <2>12, <2>h, HandlerFields DEF AcceptCommit
    <3> QED
      BY <2>12, <2>5, <3>1 DEF AcceptCommit
  <2>13. ASSUME NEW b \in Bids, WithdrawRead(p, b) \/ RejectRead(p, b) \/ Acknowledge(p, b)
         PROVE  \A q \in Procs : HandlerRows(h[q])'
    BY <2>13, <2>5 DEF WithdrawRead, RejectRead, Acknowledge
  <2>14. ASSUME NEW S \in SUBSET Items, PatchWrite(p, S)
         PROVE  \A q \in Procs : HandlerRows(h[q])'
    BY <2>14, <2>e DEF PatchWrite
  <2>15. CASE CancelWrite(p) \/ PlaceInsert(p) \/ WithdrawWrite(p) \/ RejectWrite(p)
              \/ CreateOrder(p) \/ PlanCommit(p) \/ Abort(p)
    BY <2>15, <2>e DEF CancelWrite, PlaceInsert, WithdrawWrite, RejectWrite, CloseBid,
                       CreateOrder, PlanCommit, Abort
  <2> QED
    BY <1>1, <2>e, <2>1, <2>2, <2>3, <2>4, <2>6, <2>7, <2>8, <2>9, <2>10, <2>11, <2>12,
       <2>13, <2>14, <2>15 DEF Handle
<1>2. CASE \A p \in Procs : ~Handle(p)
  BY <1>2, <1>f DEF Next, Tick, CreateRequest, Work, WorkerFind, WorkerExpireRequests,
                    WorkerExpireTheirBids, WorkerExpireBids, WorkerAbort, vars
<1> QED
  BY <1>1, <1>2

\* The statements that write items.
LEMMA ItemWriters ==
  ASSUME [Next]_vars
  PROVE  \/ itemStatus' = itemStatus
         \/ \E r \in Requests, S \in SUBSET Items : CreateRequest(r, S)
         \/ \E p \in Procs : \/ \E S \in SUBSET Items : PatchWrite(p, S)
                             \/ AcceptCommit(p) \/ PlanCommit(p)
<1> USE DEF itemVars
<1>1. ASSUME NEW p \in Procs, Handle(p), ~AcceptCommit(p), ~PlanCommit(p),
             \A S \in SUBSET Items : ~PatchWrite(p, S)
      PROVE  itemStatus' = itemStatus
  <2>1. CASE PatchDelete(p) \/ CancelWrite(p) \/ PlaceExtend(p) \/ PlaceInsert(p)
             \/ WithdrawWrite(p) \/ RejectWrite(p) \/ AcceptCheck(p) \/ AcceptLock(p)
             \/ CreateOrder(p) \/ PlanCheck(p) \/ Abort(p)
    BY <2>1 DEF PatchDelete, CancelWrite, PlaceExtend, PlaceInsert, WithdrawWrite, RejectWrite,
        CloseBid, AcceptCheck, AcceptLock, CreateOrder, PlanCheck, Abort
  <2> QED
    BY <1>1, <2>1 DEF Handle, PatchRead, CancelRead, PlanRead, PlaceRead, WithdrawRead, RejectRead,
        AcceptRead, Acknowledge
<1>2. CASE Work
  BY <1>2 DEF Work, WorkerFind, WorkerExpireRequests, WorkerExpireTheirBids, WorkerExpireBids
<1> QED
  BY <1>1, <1>2 DEF Next, Tick, WorkerAbort, vars

\* A request is created with rows that nothing has touched, a plan cancels only what
\* is still open, and no other handler but an edit writes an awarded row.
LEMMA AwardsStay ==
  ASSUME TypeOK, RowsInv, [Next]_vars, NEW i \in Items, itemStatus[i] = "awarded"
  PROVE  itemStatus'[i] \in {"awarded", "deleted"}
<1> USE DEF itemVars
<1>1. CASE itemStatus' = itemStatus
  BY <1>1
<1>2. ASSUME NEW r \in Requests, NEW S \in SUBSET Items, CreateRequest(r, S)
      PROVE  itemStatus'[i] \in {"awarded", "deleted"}
  BY <1>2 DEF CreateRequest, RowsInv, ItemsHaveRequest, RowsOf
<1>3. ASSUME NEW p \in Procs, NEW S \in SUBSET Items, PatchWrite(p, S)
      PROVE  itemStatus'[i] \in {"awarded", "deleted"}
  BY <1>3 DEF PatchWrite
<1>4. ASSUME NEW p \in Procs, AcceptCommit(p)
      PROVE  itemStatus'[i] \in {"awarded", "deleted"}
  BY <1>4 DEF AcceptCommit
<1>5. ASSUME NEW p \in Procs, PlanCommit(p)
      PROVE  itemStatus'[i] \in {"awarded", "deleted"}
  BY <1>5 DEF PlanCommit, PlanItems
<1> QED
  BY <1>1, <1>2, <1>3, <1>4, <1>5, ItemWriters

\* The award of an item is final although accepts, plans and edits of its request
\* overlap: accept and award-plan in bidzone/routes.ts, PATCH in demand/routes.ts.
THEOREM AwardsAreFinal == Spec => AwardIsFinal
<1>1. Spec => [](TypeOK /\ RowsInv)
  <2>1. Init => TypeOK /\ RowsInv
    BY TypeInit, RowsInit
  <2>2. TypeOK /\ RowsInv /\ [Next]_vars => (TypeOK /\ RowsInv)'
    BY TypeNext, RowsNext
  <2> QED
    BY <2>1, <2>2, PTL DEF Spec
<1>2. TypeOK /\ RowsInv /\ [Next]_vars =>
        [\A i \in Items : itemStatus[i] = "awarded" => itemStatus'[i] \in {"awarded", "deleted"}]_vars
  BY AwardsStay
<1> QED
  BY <1>1, <1>2, PTL DEF Spec, AwardIsFinal

LEMMA OrderWriters ==
  ASSUME [Next]_vars
  PROVE  orders' = orders \/ \E p \in Procs : CreateOrder(p) \/ PlanCommit(p)
<1>1. ASSUME NEW p \in Procs, Handle(p), ~CreateOrder(p), ~PlanCommit(p)
      PROVE  orders' = orders
  <2>1. CASE PatchDelete(p) \/ CancelWrite(p) \/ PlaceExtend(p) \/ PlaceInsert(p)
             \/ WithdrawWrite(p) \/ RejectWrite(p) \/ AcceptCheck(p) \/ AcceptLock(p)
             \/ AcceptCommit(p) \/ PlanCheck(p) \/ Abort(p)
    BY <2>1 DEF PatchDelete, CancelWrite, PlaceExtend, PlaceInsert, WithdrawWrite, RejectWrite,
        CloseBid, AcceptCheck, AcceptLock, AcceptCommit, PlanCheck, Abort
  <2> QED
    BY <1>1, <2>1 DEF Handle, PatchRead, CancelRead, PlanRead, PlaceRead, WithdrawRead, RejectRead,
        AcceptRead, Acknowledge, PatchWrite
<1>2. CASE Work
  BY <1>2 DEF Work, WorkerFind, WorkerExpireRequests, WorkerExpireTheirBids, WorkerExpireBids
<1> QED
  BY <1>1, <1>2 DEF Next, Tick, CreateRequest, WorkerAbort, vars

LEMMA OrderStays ==
  ASSUME TypeOK, [Next]_vars, NEW b \in Bids, orders[b] # {}
  PROVE  orders'[b] = orders[b]
<1>1. ASSUME NEW p \in Procs, CreateOrder(p)
      PROVE  orders'[b] = orders[b]
  BY <1>1 DEF CreateOrder, OrderFor, TypeOK
<1>2. ASSUME NEW p \in Procs, PlanCommit(p)
      PROVE  orders'[b] = orders[b]
  BY <1>2 DEF PlanCommit, PlanOrders, OrderFor
<1> QED
  BY <1>1, <1>2, OrderWriters

\* An order keeps its items whichever handler finds it: insertOrderFromBid.
THEOREM OrdersStand == Spec => OrderStands
<1>1. TypeOK /\ [Next]_vars =>
        [\A b \in Bids : orders[b] # {} => orders'[b] = orders[b]]_vars
  BY OrderStays
<1> QED
  BY <1>1, TypeCorrect, PTL DEF Spec, OrderStands

(***************************************************************************)
(* Bids.  A bid row is inserted once, by the only handler that places it,   *)
(* and never changes the items it covers.                                  *)
(***************************************************************************)
HandlerBids(s) ==
  /\ s.at \in {"placeExtend", "placeInsert"} => bidStatus[s.bid] = "absent"
  /\ s.at \in {"withdraw", "reject", "acceptCheck", "acceptLock", "acceptCommit", "createOrder"} =>
       bidStatus[s.bid] # "absent"
  /\ s.at \in {"planCheck", "planCommit"} =>
       \A i \in Selected(s.sel) : bidStatus[s.sel[i]] # "absent"

PlacedOnce ==
  \A p, q \in Procs :
    /\ h[p].at \in {"placeExtend", "placeInsert"}
    /\ h[q].at \in {"placeExtend", "placeInsert"}
    /\ h[p].bid = h[q].bid
    => p = q

BidsInv ==
  /\ PlacedOnce
  /\ \A p \in Procs : HandlerBids(h[p])
  /\ worker.at = "expireBids" => \A b \in worker.bids : bidStatus[b] # "absent"
  /\ \A b \in consumerAck : bidStatus[b] # "absent"
  /\ \A b \in Bids : bidStatus[b] # "absent" => reqStatus[BidOn[b]] # "absent"

LEMMA BidsInit == Init => BidsInv
  BY DEF Init, BidsInv, PlacedOnce, HandlerBids, Idle

\* What one step does to a bid row.
BidRowStep(b) ==
  /\ bidStatus[b] # "absent" => bidStatus'[b] # "absent" /\ bidCovers'[b] = bidCovers[b]
  /\ bidStatus[b] = "absent" /\ bidStatus'[b] # "absent" =>
       \E p \in Procs : h[p].at = "placeInsert" /\ h[p].bid = b /\ h'[p] = Idle

LEMMA BidRows ==
  ASSUME TypeOK, BidsInv, [Next]_vars, NEW b \in Bids
  PROVE  BidRowStep(b)
<1> USE DEF bidVars, End, Goto
<1>1. CASE bidStatus' = bidStatus /\ bidCovers' = bidCovers
  BY <1>1 DEF BidRowStep
<1>2. ASSUME NEW B, NEW status, status # "absent", SetActive(B, status), bidCovers' = bidCovers
      PROVE  BidRowStep(b)
  BY <1>2 DEF SetActive, Active, BidRowStep
<1>3. ASSUME NEW p \in Procs, CancelWrite(p)
      PROVE  BidRowStep(b)
  <2>1. CASE SetActive(BidsOn(h[p].req), "expired")
    BY <1>2, <1>3, <2>1 DEF CancelWrite
  <2> QED
    BY <1>1, <1>3, <2>1 DEF CancelWrite
<1>4. ASSUME NEW p \in Procs, PlaceInsert(p)
      PROVE  BidRowStep(b)
  <2>1. h[p] \in Handlers /\ HandlerBids(h[p]) /\ h[p].at = "placeInsert"
    BY <1>4 DEF BidsInv, PlaceInsert, TypeOK
  <2>2. h[p].bid \in Bids /\ bidStatus[h[p].bid] = "absent" /\ h'[p] = Idle
    BY <1>4, <2>1, HandlerFields DEF HandlerBids, PlaceInsert, TypeOK
  <2>3. CASE b = h[p].bid
    BY <2>1, <2>2, <2>3 DEF BidRowStep
  <2>4. CASE b # h[p].bid
    BY <1>4, <2>2, <2>4 DEF PlaceInsert, BidRowStep, Active, TypeOK
  <2> QED
    BY <2>3, <2>4
<1>5. ASSUME NEW p \in Procs, WithdrawWrite(p) \/ RejectWrite(p)
      PROVE  BidRowStep(b)
  <2>1. h[p] \in Handlers /\ HandlerBids(h[p]) /\ h[p].at \in {"withdraw", "reject"}
    BY <1>5 DEF BidsInv, WithdrawWrite, RejectWrite, CloseBid, TypeOK
  <2> QED
    BY <1>5, <2>1, HandlerFields DEF WithdrawWrite, RejectWrite, CloseBid, HandlerBids, BidRowStep, TypeOK
<1>6. ASSUME NEW p \in Procs, AcceptCommit(p)
      PROVE  BidRowStep(b)
  <2>1. h[p] \in Handlers /\ HandlerBids(h[p]) /\ h[p].at = "acceptCommit"
    BY <1>6 DEF BidsInv, AcceptCommit, TypeOK
  <2> QED
    BY <1>6, <2>1, HandlerFields DEF AcceptCommit, HandlerBids, BidRowStep, Losers, Active
<1>7. ASSUME NEW p \in Procs, PlanCommit(p)
      PROVE  BidRowStep(b)
  <2>1. h[p] \in Handlers /\ HandlerBids(h[p]) /\ h[p].at = "planCommit"
    BY <1>7 DEF BidsInv, PlanCommit, TypeOK
  <2>2. b \in Winners(h[p].sel) => bidStatus[b] # "absent"
    BY <2>1 DEF HandlerBids, Winners
  <2> QED
    BY <1>7, <2>2 DEF PlanCommit, BidRowStep, Losers, Active
<1>8. CASE Work
  <2>1. CASE WorkerFind \/ WorkerExpireRequests
    BY <1>1, <2>1 DEF WorkerFind, WorkerExpireRequests
  <2>2. CASE WorkerExpireTheirBids
    BY <1>2, <2>2 DEF WorkerExpireTheirBids
  <2>3. CASE WorkerExpireBids
    BY <2>3 DEF WorkerExpireBids, BidRowStep, BidsInv
  <2> QED
    BY <1>8, <2>1, <2>2, <2>3 DEF Work
<1>9. ASSUME NEW p \in Procs, Handle(p)
      PROVE  BidRowStep(b)
  <2>1. CASE \/ CancelWrite(p) \/ PlaceInsert(p) \/ WithdrawWrite(p) \/ RejectWrite(p)
            \/ AcceptCommit(p) \/ PlanCommit(p)
    BY <1>3, <1>4, <1>5, <1>6, <1>7, <2>1
  <2>2. CASE \/ PatchDelete(p) \/ PlaceExtend(p) \/ AcceptCheck(p) \/ AcceptLock(p)
            \/ CreateOrder(p) \/ PlanCheck(p) \/ Abort(p)
    BY <1>1, <2>2 DEF PatchDelete, PlaceExtend, AcceptCheck, AcceptLock, CreateOrder,
                      PlanCheck, Abort
  <2>3. ASSUME NEW S \in SUBSET Items, PatchWrite(p, S)
        PROVE  BidRowStep(b)
    BY <1>1, <2>3 DEF PatchWrite
  <2> QED
    BY <1>1, <1>9, <2>1, <2>2, <2>3
    DEF Handle, PatchRead, CancelRead, PlanRead, PlaceRead, WithdrawRead, RejectRead,
        AcceptRead, Acknowledge
<1>10. CASE Tick \/ WorkerAbort \/ UNCHANGED vars
  BY <1>1, <1>10 DEF Tick, WorkerAbort, vars
<1>11. ASSUME NEW r \in Requests, NEW S \in SUBSET Items, CreateRequest(r, S)
       PROVE  BidRowStep(b)
  BY <1>1, <1>11 DEF CreateRequest
<1> QED
  BY <1>8, <1>9, <1>10, <1>11 DEF Next

\* A handler that does not move: no other handler inserts the bid it is placing.
LEMMA HandlerKeepsBids ==
  ASSUME TypeOK, BidsInv, [Next]_vars, NEW q \in Procs, h'[q] = h[q]
  PROVE  HandlerBids(h[q])'
<1>1. h[q] \in Handlers /\ HandlerBids(h[q])
  BY DEF TypeOK, BidsInv
<1>2. h[q].at \in {"placeExtend", "placeInsert"} => bidStatus'[h[q].bid] = "absent"
  <2> SUFFICES ASSUME h[q].at \in {"placeExtend", "placeInsert"}, bidStatus'[h[q].bid] # "absent"
               PROVE  FALSE
    OBVIOUS
  <2>1. h[q].bid \in Bids /\ bidStatus[h[q].bid] = "absent"
    BY <1>1, HandlerFields DEF HandlerBids
  <2>2. PICK p \in Procs : h[p].at = "placeInsert" /\ h[p].bid = h[q].bid /\ h'[p] = Idle
    BY <2>1, BidRows DEF BidRowStep
  <2>3. p = q
    BY <2>2 DEF BidsInv, PlacedOnce
  <2> QED
    BY <2>2, <2>3 DEF Idle
<1>3. h[q].at \in {"withdraw", "reject", "acceptCheck", "acceptLock", "acceptCommit", "createOrder"} =>
        bidStatus'[h[q].bid] # "absent"
  BY <1>1, HandlerFields, BidRows DEF HandlerBids, BidRowStep
<1>4. h[q].at \in {"planCheck", "planCommit"} =>
        \A i \in Selected(h[q].sel) : bidStatus'[h[q].sel[i]] # "absent"
  <2> SUFFICES ASSUME h[q].at \in {"planCheck", "planCommit"}, NEW i \in Selected(h[q].sel)
               PROVE  bidStatus'[h[q].sel[i]] # "absent"
    OBVIOUS
  <2>1. h[q].sel[i] \in Bids /\ bidStatus[h[q].sel[i]] # "absent"
    BY <1>1, HandlerFields DEF HandlerBids, Selected
  <2> QED
    BY <2>1, BidRows DEF BidRowStep
<1> QED
  BY <1>1, <1>2, <1>3, <1>4 DEF HandlerBids, Selected

\* A handler that goes on with s, or starts with it: if s places a bid, then the
\* handler was placing it already, or no handler was.
LEMMA SlotKeepsBids ==
  ASSUME TypeOK, BidsInv, [Next]_vars,
         NEW p \in Procs, NEW s, h' = [h EXCEPT ![p] = s], HandlerBids(s)',
         s.at \in {"placeExtend", "placeInsert"} =>
           \A q \in Procs \ {p} :
             h[q].at \in {"placeExtend", "placeInsert"} => h[q].bid # s.bid
  PROVE  PlacedOnce' /\ \A q \in Procs : HandlerBids(h[q])'
<1>1. \A q \in Procs \ {p} : h'[q] = h[q]
  BY DEF TypeOK
<1>2. h'[p] = s
  BY DEF TypeOK
<1>3. PlacedOnce'
  BY <1>1, <1>2 DEF PlacedOnce, BidsInv
<1>4. \A q \in Procs : HandlerBids(h[q])'
  BY <1>1, <1>2, HandlerKeepsBids
<1> QED
  BY <1>3, <1>4

\* The statements that write requests, acknowledgements and the worker's tick.
LEMMA RequestWriters ==
  ASSUME [Next]_vars
  PROVE  \/ reqStatus' = reqStatus
         \/ \E r \in Requests, S \in SUBSET Items : CreateRequest(r, S)
         \/ \E p \in Procs : CancelWrite(p) \/ AcceptCommit(p) \/ PlanCommit(p)
         \/ WorkerExpireRequests
<1> USE DEF reqVars
<1>1. ASSUME NEW p \in Procs, Handle(p), ~CancelWrite(p), ~AcceptCommit(p), ~PlanCommit(p)
      PROVE  reqStatus' = reqStatus
  <2>1. CASE PatchDelete(p) \/ PlaceExtend(p) \/ PlaceInsert(p)
             \/ WithdrawWrite(p) \/ RejectWrite(p) \/ AcceptCheck(p) \/ AcceptLock(p)
             \/ CreateOrder(p) \/ PlanCheck(p) \/ Abort(p)
    BY <2>1 DEF PatchDelete, PlaceExtend, PlaceInsert, WithdrawWrite, RejectWrite,
        CloseBid, AcceptCheck, AcceptLock, CreateOrder, PlanCheck, Abort
  <2> QED
    BY <1>1, <2>1 DEF Handle, PatchRead, CancelRead, PlanRead, PlaceRead, WithdrawRead, RejectRead,
        AcceptRead, Acknowledge, PatchWrite
<1>2. CASE Work /\ ~WorkerExpireRequests
  BY <1>2 DEF Work, WorkerFind, WorkerExpireTheirBids, WorkerExpireBids
<1> QED
  BY <1>1, <1>2 DEF Next, Tick, WorkerAbort, vars

LEMMA AckSteps ==
  ASSUME [Next]_vars
  PROVE  \/ consumerAck' = consumerAck
         \/ \E p \in Procs : AcceptCommit(p) \/ PlanCommit(p)
<1> USE DEF bidVars
<1>1. ASSUME NEW p \in Procs, Handle(p), ~AcceptCommit(p), ~PlanCommit(p)
      PROVE  consumerAck' = consumerAck
  <2>1. CASE PatchDelete(p) \/ CancelWrite(p) \/ PlaceExtend(p) \/ PlaceInsert(p)
             \/ WithdrawWrite(p) \/ RejectWrite(p) \/ AcceptCheck(p) \/ AcceptLock(p)
             \/ CreateOrder(p) \/ PlanCheck(p) \/ Abort(p)
    BY <2>1 DEF PatchDelete, CancelWrite, PlaceExtend, PlaceInsert, WithdrawWrite, RejectWrite,
        CloseBid, AcceptCheck, AcceptLock, CreateOrder, PlanCheck, Abort
  <2> QED
    BY <1>1, <2>1 DEF Handle, PatchRead, CancelRead, PlanRead, PlaceRead, WithdrawRead, RejectRead,
        AcceptRead, Acknowledge, PatchWrite
<1>2. CASE Work
  BY <1>2 DEF Work, WorkerFind, WorkerExpireRequests, WorkerExpireTheirBids, WorkerExpireBids
<1> QED
  BY <1>1, <1>2 DEF Next, Tick, CreateRequest, WorkerAbort, vars

LEMMA WorkerSteps ==
  ASSUME [Next]_vars
  PROVE  worker' = worker \/ Work \/ WorkerAbort
<1>1. ASSUME NEW p \in Procs, Handle(p)
      PROVE  worker' = worker
  <2>1. CASE PatchDelete(p) \/ CancelWrite(p) \/ PlaceExtend(p) \/ PlaceInsert(p)
             \/ WithdrawWrite(p) \/ RejectWrite(p) \/ AcceptCheck(p) \/ AcceptLock(p)
             \/ AcceptCommit(p) \/ CreateOrder(p) \/ PlanCheck(p) \/ PlanCommit(p) \/ Abort(p)
    BY <2>1 DEF PatchDelete, CancelWrite, PlaceExtend, PlaceInsert, WithdrawWrite, RejectWrite,
        CloseBid, AcceptCheck, AcceptLock, AcceptCommit, CreateOrder, PlanCheck, PlanCommit, Abort
  <2> QED
    BY <1>1, <2>1 DEF Handle, PatchRead, CancelRead, PlanRead, PlaceRead, WithdrawRead, RejectRead,
        AcceptRead, Acknowledge, PatchWrite
<1> QED
  BY <1>1 DEF Next, Tick, CreateRequest, vars

LEMMA BidsNext ==
  ASSUME TypeOK, EndsInv, BidsInv, [Next]_vars
  PROVE  BidsInv'
<1> USE RowsAssumption
<1> USE DEF Start, Goto, End
<1>1. \A b \in Bids : bidStatus'[b] # "absent" => reqStatus'[BidOn[b]] # "absent"
  <2> SUFFICES ASSUME NEW b \in Bids, bidStatus'[b] # "absent"
               PROVE  reqStatus'[BidOn[b]] # "absent"
    OBVIOUS
  <2>1. reqStatus[BidOn[b]] # "absent"
    BY BidRows DEF BidRowStep, BidsInv, EndsInv
  <2> QED
    BY <2>1, RequestsPersist
<1>2. \A b \in consumerAck' : bidStatus'[b] # "absent"
  <2> SUFFICES ASSUME NEW b \in consumerAck'
               PROVE  bidStatus'[b] # "absent"
    OBVIOUS
  <2>1. CASE b \in consumerAck
    BY <2>1, BidRows DEF BidRowStep, BidsInv, TypeOK
  <2>2. ASSUME NEW p \in Procs, AcceptCommit(p), b \notin consumerAck
        PROVE  bidStatus'[b] # "absent"
    <3>1. h[p].bid \in Bids /\ b = h[p].bid
      BY <2>2, HandlerFields DEF AcceptCommit, TypeOK
    <3> QED
      BY <2>2, <3>1 DEF AcceptCommit
  <2>3. ASSUME NEW p \in Procs, PlanCommit(p), b \notin consumerAck
        PROVE  bidStatus'[b] # "absent"
    <3>1. b \in Winners(h[p].sel) /\ h[p].sel \in [Items -> Bids \cup {NoBid}]
      BY <2>3, HandlerFields DEF PlanCommit, TypeOK
    <3>2. b \in Bids
      BY <3>1 DEF Winners, Selected
    <3> QED
      BY <2>3, <3>1, <3>2 DEF PlanCommit
  <2>4. CASE consumerAck' = consumerAck
    BY <2>1, <2>4
  <2>5. \/ consumerAck' = consumerAck
        \/ \E p \in Procs : AcceptCommit(p) \/ PlanCommit(p)
    BY AckSteps
  <2> QED
    BY <2>1, <2>2, <2>3, <2>4, <2>5
<1>3. worker'.at = "expireBids" => \A b \in worker'.bids : bidStatus'[b] # "absent"
  <2>1. CASE worker' = worker
    BY <2>1, BidRows DEF BidRowStep, BidsInv, Ticks, TypeOK, Idle
  <2>2. ASSUME NEW B \in SUBSET Bids, \A b \in B : bidStatus[b] # "absent", worker' = SweepBids(B)
        PROVE  worker'.at = "expireBids" => \A b \in worker'.bids : bidStatus'[b] # "absent"
    BY <2>2, BidRows DEF BidRowStep, SweepBids, Idle
  <2>3. CASE WorkerFind
    <3>1. CASE Overdue(now) = {}
      BY <2>2, <2>3, <3>1 DEF WorkerFind, StaleBids
    <3>2. CASE Overdue(now) # {}
      BY <2>3, <3>2 DEF WorkerFind
    <3> QED
      BY <3>1, <3>2
  <2>4. CASE WorkerExpireRequests
    BY <2>4 DEF WorkerExpireRequests
  <2>5. CASE WorkerExpireTheirBids
    <3>1. PICK B \in SUBSET Bids :
            B = StaleBids(worker.since) \ {b \in Bids : BidOn[b] \in worker.reqs}
      BY DEF StaleBids
    <3>2. worker' = SweepBids(B)
      BY <2>5, <3>1 DEF WorkerExpireTheirBids
    <3>3. \A b \in B : bidStatus[b] # "absent"
      BY <3>1 DEF StaleBids
    <3> QED
      BY <2>2, <3>2, <3>3
  <2>6. CASE WorkerExpireBids \/ WorkerAbort
    BY <2>6 DEF WorkerExpireBids, WorkerAbort, Idle
  <2>7. worker' = worker \/ Work \/ WorkerAbort
    BY WorkerSteps
  <2> QED
    BY <2>1, <2>3, <2>4, <2>5, <2>6, <2>7 DEF Work
<1>f. CASE h' = h
  <2>1. PlacedOnce'
    BY <1>f DEF PlacedOnce, BidsInv
  <2>2. \A q \in Procs : HandlerBids(h[q])'
    BY <1>f, HandlerKeepsBids
  <2> QED
    BY <1>1, <1>2, <1>3, <2>1, <2>2 DEF BidsInv
<1>4. ASSUME NEW p \in Procs, Handle(p)
      PROVE  PlacedOnce' /\ \A q \in Procs : HandlerBids(h[q])'
  <2>h. h[p] \in Handlers /\ HandlerBids(h[p])
    BY DEF BidsInv, TypeOK
  <2>i. ASSUME NEW s, h' = [h EXCEPT ![p] = s], HandlerBids(s)',
               s.at \notin {"placeExtend", "placeInsert"}
        PROVE  PlacedOnce' /\ \A q \in Procs : HandlerBids(h[q])'
    BY <2>i, SlotKeepsBids
  <2>e. ASSUME NEW r, NEW rows, NEW s \in {Idle, [at |-> "patch", req |-> r], [at |-> "cancel", req |-> r],
                                   [at |-> "patchWrite", req |-> r, rows |-> rows]},
               h' = [h EXCEPT ![p] = s]
        PROVE  PlacedOnce' /\ \A q \in Procs : HandlerBids(h[q])'
    <3>1. HandlerBids(s)' /\ s.at \notin {"placeExtend", "placeInsert"}
      BY DEF HandlerBids, Idle
    <3> QED
      BY <2>e, <2>i, <3>1
  <2>b. ASSUME NEW s, h' = [h EXCEPT ![p] = s], s.bid \in Bids, bidStatus[s.bid] # "absent",
               s.at \in {"withdraw", "reject", "acceptCheck", "acceptLock", "acceptCommit", "createOrder"}
        PROVE  PlacedOnce' /\ \A q \in Procs : HandlerBids(h[q])'
    <3>1. HandlerBids(s)'
      BY <2>b, BidRows DEF BidRowStep, HandlerBids
    <3> QED
      BY <2>b, <2>i, <3>1
  <2>1. ASSUME NEW r \in Requests, PatchRead(p, r) \/ CancelRead(p, r)
        PROVE  PlacedOnce' /\ \A q \in Procs : HandlerBids(h[q])'
    BY <2>1, <2>e DEF PatchRead, CancelRead
  <2>2. ASSUME NEW r \in Requests, NEW sel \in [Items -> Bids \cup {NoBid}], PlanRead(p, r, sel)
        PROVE  PlacedOnce' /\ \A q \in Procs : HandlerBids(h[q])'
    <3>s. PICK s : s = [at |-> "planCheck", req |-> r, sel |-> sel,
                        drop |-> OpenItems(r) \ Selected(sel)]
      OBVIOUS
    <3>1. \A i \in Selected(sel) : sel[i] \in Bids /\ bidStatus[sel[i]] # "absent"
      BY <2>2 DEF PlanRead, Plannable, Selected, StillLive, LiveAt
    <3>2. HandlerBids(s)'
      BY <3>s, <3>1, BidRows DEF BidRowStep, HandlerBids, Selected
    <3> QED
      BY <2>2, <2>i, <3>s, <3>2 DEF PlanRead
  <2>3. ASSUME NEW b \in Bids, NEW covers \in SUBSET Items, PlaceRead(p, b, covers)
        PROVE  PlacedOnce' /\ \A q \in Procs : HandlerBids(h[q])'
    <3>s. PICK s : s = [at |-> "placeExtend", bid |-> b, covers |-> covers,
                        live |-> liveEndsAt[BidOn[b]], ext |-> extendCount[BidOn[b]], since |-> now]
      OBVIOUS
    <3>1. HandlerBids(s)'
      BY <2>3, <3>s DEF PlaceRead, HandlerBids, bidVars
    <3>2. \A q \in Procs : h[q].at \in {"placeExtend", "placeInsert"} => h[q].bid # s.bid
      BY <2>3, <3>s DEF PlaceRead, Placing
    <3>3. h' = [h EXCEPT ![p] = s]
      BY <2>3, <3>s DEF PlaceRead
    <3> QED
      BY <3>1, <3>2, <3>3, SlotKeepsBids
  <2>4. ASSUME NEW b \in Bids,
               WithdrawRead(p, b) \/ RejectRead(p, b) \/ AcceptRead(p, b) \/ Acknowledge(p, b)
        PROVE  PlacedOnce' /\ \A q \in Procs : HandlerBids(h[q])'
    <3>1. bidStatus[b] # "absent"
      BY <2>4 DEF WithdrawRead, RejectRead, AcceptRead, Acknowledge, StillLive, LiveAt
    <3>2. PICK step \in {"withdraw", "reject", "acceptCheck", "createOrder"} :
            h' = [h EXCEPT ![p] = [at |-> step, bid |-> b]]
      BY <2>4 DEF WithdrawRead, RejectRead, AcceptRead, Acknowledge
    <3>s. PICK s : s = [at |-> step, bid |-> b]
      OBVIOUS
    <3>3. h' = [h EXCEPT ![p] = s] /\ s.bid = b /\ s.at = step
      BY <3>2, <3>s
    <3> QED
      BY <2>b, <3>1, <3>2, <3>3
  <2>5. CASE PatchDelete(p)
    BY <2>5, <2>e DEF PatchDelete
  <2>6. CASE PlaceExtend(p) /\ h' # [h EXCEPT ![p] = Idle]
    <3>s. PICK s : s = [at |-> "placeInsert", bid |-> h[p].bid, covers |-> h[p].covers,
                        expires |-> BidExpiry(ExtendedEnd(h[p])), since |-> h[p].since]
      OBVIOUS
    <3>1. h[p].at = "placeExtend" /\ s.bid = h[p].bid
      BY <2>6, <3>s DEF PlaceExtend
    <3>2. HandlerBids(s)'
      BY <2>6, <2>h, <3>s, <3>1 DEF PlaceExtend, HandlerBids, bidVars
    <3>3. \A q \in Procs \ {p} : h[q].at \in {"placeExtend", "placeInsert"} => h[q].bid # s.bid
      BY <3>1 DEF BidsInv, PlacedOnce
    <3>4. h' = [h EXCEPT ![p] = s]
      BY <2>6, <3>s DEF PlaceExtend
    <3> QED
      BY <3>2, <3>3, <3>4, SlotKeepsBids
  <2>7. CASE AcceptCheck(p) /\ h' # [h EXCEPT ![p] = Idle]
    <3>s. PICK s : s = [at |-> "acceptLock", bid |-> h[p].bid, items |-> Covers(h[p].bid)]
      OBVIOUS
    <3>1. h[p].bid \in Bids /\ bidStatus[h[p].bid] # "absent"
      BY <2>7, <2>h, HandlerFields DEF AcceptCheck, HandlerBids
    <3> QED
      BY <2>7, <2>b, <3>s, <3>1 DEF AcceptCheck
  <2>8. CASE AcceptLock(p)
    <3>s. PICK s : s = [at |-> "acceptCommit", bid |-> h[p].bid, items |-> h[p].items,
                        awards |-> IF AllAwardedBeside(BidOn[h[p].bid], h[p].items)
                                   THEN "all" ELSE "some"]
      OBVIOUS
    <3>1. h[p].bid \in Bids /\ bidStatus[h[p].bid] # "absent"
      BY <2>8, <2>h, HandlerFields DEF AcceptLock, HandlerBids
    <3>2. h' = [h EXCEPT ![p] = s] /\ s.at = "acceptCommit" /\ s.bid = h[p].bid
      BY <2>8, <3>s DEF AcceptLock
    <3> QED
      BY <2>b, <3>1, <3>2
  <2>9. CASE AcceptCommit(p)
    <3>1. h[p].bid \in Bids /\ bidStatus[h[p].bid] # "absent"
      BY <2>9, <2>h, HandlerFields DEF AcceptCommit, HandlerBids
    <3>s. PICK s : s = [at |-> "createOrder", bid |-> h[p].bid]
      OBVIOUS
    <3>2. h' = [h EXCEPT ![p] = s] /\ s.at = "createOrder" /\ s.bid = h[p].bid
      BY <2>9, <3>s DEF AcceptCommit
    <3> QED
      BY <2>b, <3>1, <3>2
  <2>10. CASE PlanCheck(p) /\ h' # [h EXCEPT ![p] = Idle]
    <3>s. PICK s : s = [at |-> "planCommit", req |-> h[p].req, sel |-> h[p].sel, drop |-> h[p].drop]
      OBVIOUS
    <3>1. HandlerBids(s)'
      BY <2>10, <2>h, <3>s DEF PlanCheck, HandlerBids, Selected, bidVars
    <3> QED
      BY <2>10, <2>i, <3>s, <3>1 DEF PlanCheck
  <2>11. ASSUME NEW S \in SUBSET Items, PatchWrite(p, S)
         PROVE  PlacedOnce' /\ \A q \in Procs : HandlerBids(h[q])'
    BY <2>11, <2>e DEF PatchWrite
  <2>12. CASE h' = [h EXCEPT ![p] = Idle]
    BY <2>12, <2>e
  <2> QED
    BY <1>4, <2>1, <2>2, <2>3, <2>4, <2>5, <2>6, <2>7, <2>8, <2>9, <2>10, <2>11, <2>12
    DEF Handle, CancelWrite, PlaceInsert, WithdrawWrite, RejectWrite, CloseBid,
        CreateOrder, PlanCommit, Abort
<1>5. CASE \E p \in Procs : Handle(p)
  BY <1>1, <1>2, <1>3, <1>4, <1>5 DEF BidsInv
<1>6. CASE \A p \in Procs : ~Handle(p)
  BY <1>6, <1>f DEF Next, Tick, CreateRequest, Work, WorkerFind, WorkerExpireRequests,
                    WorkerExpireTheirBids, WorkerExpireBids, WorkerAbort, vars
<1> QED
  BY <1>5, <1>6

(***************************************************************************)
(* Orders and settled requests, when the configuration leaves no time to    *)
(* edit a request: EditWindow = 0.  (An edit deletes awarded items and adds *)
(* open ones under a bid on the whole basket.)                             *)
(***************************************************************************)
NoEdits ==
  /\ \A r \in Requests : createdAt[r] <= now
  /\ \A p \in Procs : h[p].at \notin {"patch", "patchWrite"}
  /\ \A i \in Items : itemStatus[i] # "deleted"

LEMMA NoEditsInit == Init => NoEdits
  BY DEF Init, NoEdits, Idle

LEMMA NoEditsNext ==
  ASSUME EditWindow = 0, TypeOK, NoEdits, [Next]_vars
  PROVE  NoEdits'
<1> USE DEF reqVars, itemVars
<1>1. \A r \in Requests : createdAt'[r] <= now'
  <2>1. CASE createdAt' = createdAt /\ now' = now
    BY <2>1 DEF NoEdits
  <2>2. CASE Tick
    BY <2>2 DEF Tick, NoEdits, TypeOK
  <2>3. ASSUME NEW r \in Requests, NEW S \in SUBSET Items, CreateRequest(r, S)
        PROVE  \A x \in Requests : createdAt'[x] <= now'
    BY <2>3 DEF CreateRequest, NoEdits, TypeOK
  <2>4. ASSUME NEW p \in Procs, Handle(p)
        PROVE  createdAt' = createdAt /\ now' = now
    <3>1. CASE PatchDelete(p) \/ CancelWrite(p) \/ PlaceExtend(p) \/ PlaceInsert(p)
               \/ WithdrawWrite(p) \/ RejectWrite(p) \/ AcceptCheck(p) \/ AcceptLock(p)
               \/ AcceptCommit(p) \/ CreateOrder(p) \/ PlanCheck(p) \/ PlanCommit(p) \/ Abort(p)
      BY <3>1 DEF PatchDelete, CancelWrite, PlaceExtend, PlaceInsert, WithdrawWrite, RejectWrite,
          CloseBid, AcceptCheck, AcceptLock, AcceptCommit, CreateOrder, PlanCheck, PlanCommit, Abort
    <3> QED
      BY <2>4, <3>1 DEF Handle, PatchRead, CancelRead, PlanRead, PlaceRead, WithdrawRead, RejectRead,
          AcceptRead, Acknowledge, PatchWrite
  <2> QED
    BY <2>1, <2>2, <2>3, <2>4 DEF Next, Work, WorkerFind, WorkerExpireRequests,
        WorkerExpireTheirBids, WorkerExpireBids, WorkerAbort, vars
<1>2. ASSUME NEW p \in Procs
      PROVE  ~PatchDelete(p) /\ (\A r \in Requests : ~PatchRead(p, r))
             /\ (\A S \in SUBSET Items : ~PatchWrite(p, S))
  BY DEF PatchRead, PatchDelete, PatchWrite, NoEdits, TypeOK
<1>3. \A p \in Procs : h'[p].at \notin {"patch", "patchWrite"}
  <2>1. CASE h' = h
    BY <2>1 DEF NoEdits
  <2>2. ASSUME NEW p \in Procs, NEW s, h' = [h EXCEPT ![p] = s], s.at \notin {"patch", "patchWrite"}
        PROVE  \A q \in Procs : h'[q].at \notin {"patch", "patchWrite"}
    BY <2>2 DEF NoEdits, TypeOK
  <2>3. ASSUME NEW p \in Procs, Handle(p)
        PROVE  \E s : h' = [h EXCEPT ![p] = s] /\ s.at \notin {"patch", "patchWrite"}
    <3> USE DEF Start, Goto, End, Idle
    <3>1. CASE CancelWrite(p) \/ PlaceInsert(p) \/ WithdrawWrite(p) \/ RejectWrite(p)
               \/ CreateOrder(p) \/ PlanCommit(p) \/ Abort(p)
      BY <3>1 DEF CancelWrite, PlaceInsert, WithdrawWrite, RejectWrite, CloseBid, CreateOrder,
          PlanCommit, Abort
    <3>2. CASE AcceptCheck(p) \/ PlanCheck(p)
      BY <3>2 DEF AcceptCheck, PlanCheck
    <3>3. CASE PlaceExtend(p)
      <4>1. PICK s : s = [at |-> "placeInsert", bid |-> h[p].bid, covers |-> h[p].covers,
                          expires |-> BidExpiry(ExtendedEnd(h[p])), since |-> h[p].since]
        OBVIOUS
      <4>2. (h' = [h EXCEPT ![p] = s] \/ h' = [h EXCEPT ![p] = Idle]) /\ s.at = "placeInsert"
        BY <3>3, <4>1 DEF PlaceExtend
      <4> QED
        BY <4>2
    <3>4. CASE AcceptLock(p)
      <4>1. PICK s : s = [at |-> "acceptCommit", bid |-> h[p].bid, items |-> h[p].items,
                          awards |-> IF AllAwardedBeside(BidOn[h[p].bid], h[p].items)
                                     THEN "all" ELSE "some"]
        OBVIOUS
      <4>2. h' = [h EXCEPT ![p] = s] /\ s.at = "acceptCommit"
        BY <3>4, <4>1 DEF AcceptLock
      <4> QED
        BY <4>2
    <3>5. CASE AcceptCommit(p)
      <4>1. PICK s : s = [at |-> "createOrder", bid |-> h[p].bid]
        OBVIOUS
      <4>2. h' = [h EXCEPT ![p] = s] /\ s.at = "createOrder"
        BY <3>5, <4>1 DEF AcceptCommit
      <4> QED
        BY <4>2
    <3>6. ASSUME NEW r \in Requests, NEW sel \in [Items -> Bids \cup {NoBid}], PlanRead(p, r, sel)
          PROVE  \E s : h' = [h EXCEPT ![p] = s] /\ s.at \notin {"patch", "patchWrite"}
      <4>1. PICK s : s = [at |-> "planCheck", req |-> r, sel |-> sel,
                          drop |-> OpenItems(r) \ Selected(sel)]
        OBVIOUS
      <4>2. h' = [h EXCEPT ![p] = s] /\ s.at = "planCheck"
        BY <3>6, <4>1 DEF PlanRead
      <4> QED
        BY <4>2
    <3>7. ASSUME NEW b \in Bids, NEW covers \in SUBSET Items, PlaceRead(p, b, covers)
          PROVE  \E s : h' = [h EXCEPT ![p] = s] /\ s.at \notin {"patch", "patchWrite"}
      <4>1. PICK s : s = [at |-> "placeExtend", bid |-> b, covers |-> covers,
                          live |-> liveEndsAt[BidOn[b]], ext |-> extendCount[BidOn[b]], since |-> now]
        OBVIOUS
      <4>2. h' = [h EXCEPT ![p] = s] /\ s.at = "placeExtend"
        BY <3>7, <4>1 DEF PlaceRead
      <4> QED
        BY <4>2
    <3>8. ASSUME NEW r \in Requests, CancelRead(p, r)
          PROVE  \E s : h' = [h EXCEPT ![p] = s] /\ s.at \notin {"patch", "patchWrite"}
      <4>1. PICK s : s = [at |-> "cancel", req |-> r]
        OBVIOUS
      <4>2. h' = [h EXCEPT ![p] = s] /\ s.at = "cancel"
        BY <3>8, <4>1 DEF CancelRead
      <4> QED
        BY <4>2
    <3>9. ASSUME NEW b \in Bids,
                 WithdrawRead(p, b) \/ RejectRead(p, b) \/ AcceptRead(p, b) \/ Acknowledge(p, b)
          PROVE  \E s : h' = [h EXCEPT ![p] = s] /\ s.at \notin {"patch", "patchWrite"}
      <4>1. PICK step \in {"withdraw", "reject", "acceptCheck", "createOrder"} :
              h' = [h EXCEPT ![p] = [at |-> step, bid |-> b]]
        BY <3>9 DEF WithdrawRead, RejectRead, AcceptRead, Acknowledge
      <4>2. PICK s : s = [at |-> step, bid |-> b]
        OBVIOUS
      <4>3. h' = [h EXCEPT ![p] = s] /\ s.at = step
        BY <4>1, <4>2
      <4> QED
        BY <4>3
    <3> HIDE DEF Start, Goto, End, Idle
    <3> QED
      BY <1>2, <2>3, <3>1, <3>2, <3>3, <3>4, <3>5, <3>6, <3>7, <3>8, <3>9 DEF Handle
  <2>4. CASE \A p \in Procs : ~Handle(p)
    BY <2>1, <2>4 DEF Next, Tick, CreateRequest, Work, WorkerFind, WorkerExpireRequests,
        WorkerExpireTheirBids, WorkerExpireBids, WorkerAbort, vars
  <2> QED
    BY <2>2, <2>3, <2>4
<1>4. \A i \in Items : itemStatus'[i] # "deleted"
  <2>1. CASE itemStatus' = itemStatus
    BY <2>1 DEF NoEdits
  <2>2. ASSUME NEW r \in Requests, NEW S \in SUBSET Items, CreateRequest(r, S)
        PROVE  \A i \in Items : itemStatus'[i] # "deleted"
    BY <2>2 DEF CreateRequest, NoEdits
  <2>3. ASSUME NEW p \in Procs, AcceptCommit(p) \/ PlanCommit(p)
        PROVE  \A i \in Items : itemStatus'[i] # "deleted"
    BY <2>3 DEF AcceptCommit, PlanCommit, PlanItems, NoEdits
  <2> QED
    BY <1>2, <2>1, <2>2, <2>3, ItemWriters
<1> QED
  BY <1>1, <1>3, <1>4 DEF NoEdits

(***************************************************************************)
(* What keeps orders and awarded requests consistent is what handlers in    *)
(* flight remember: the items an accept has read are still those its bid    *)
(* covers, up to awarded ones, and no item opens behind a handler that is   *)
(* about to close its request.                                             *)
(***************************************************************************)
AwardedOrIn(b, S) == \A i \in Covers(b) \ S : itemStatus[i] = "awarded"

HandlerOrders(s) ==
  /\ s.at \in {"acceptLock", "acceptCommit"} => AwardedOrIn(s.bid, s.items)
  /\ s.at = "acceptCommit" /\ s.awards = "all" => OpenItems(BidOn[s.bid]) \subseteq s.items
  /\ s.at \in {"planCheck", "planCommit"} => OpenItems(s.req) \subseteq Selected(s.sel) \cup s.drop

OrdersInv ==
  /\ OrderIsBacked
  /\ AwardedRequestIsSettled
  /\ \A b \in consumerAck : orders[b] = {} => AwardedOrIn(b, {})
  /\ \A p \in Procs : HandlerOrders(h[p])

LEMMA OrdersInit == Init => OrdersInv
  BY DEF Init, OrdersInv, OrderIsBacked, AwardedRequestIsSettled, HandlerOrders, Idle

AuctionInv == TypeOK /\ EndsInv /\ RowsInv /\ BidsInv /\ NoEdits

\* An item opens only with its request, and nothing takes an award back.
LEMMA ItemStep ==
  ASSUME AuctionInv, NoEdits', [Next]_vars, NEW i \in Items
  PROVE  /\ itemStatus[i] = "awarded" => itemStatus'[i] = "awarded"
         /\ itemStatus'[i] = "open" => itemStatus[i] = "open" \/ reqStatus[ItemOf[i]] = "absent"
         /\ itemStatus'[i] # "absent" =>
              \/ itemStatus[i] # "absent"
              \/ itemStatus'[i] = "awarded"
              \/ reqStatus[ItemOf[i]] = "absent"
<1>1. itemStatus[i] = "awarded" => itemStatus'[i] = "awarded"
  BY AwardsStay DEF AuctionInv, NoEdits
<1>2. CASE itemStatus' = itemStatus
  BY <1>1, <1>2
<1>3. ASSUME NEW r \in Requests, NEW S \in SUBSET Items, CreateRequest(r, S)
      PROVE  itemStatus'[i] = itemStatus[i] \/ reqStatus[ItemOf[i]] = "absent"
  BY <1>3 DEF CreateRequest, RowsOf
<1>4. ASSUME NEW p \in Procs, AcceptCommit(p)
      PROVE  itemStatus'[i] = itemStatus[i] \/ itemStatus'[i] = "awarded"
  BY <1>4 DEF AcceptCommit
<1>5. ASSUME NEW p \in Procs, PlanCommit(p)
      PROVE  \/ itemStatus'[i] = itemStatus[i]
             \/ itemStatus'[i] = "awarded"
             \/ itemStatus[i] = "open" /\ itemStatus'[i] = "cancelled"
  BY <1>5 DEF PlanCommit, PlanItems
<1>6. ASSUME NEW p \in Procs, NEW S \in SUBSET Items
      PROVE  ~PatchWrite(p, S)
  BY DEF PatchWrite, AuctionInv, NoEdits
<1> QED
  BY <1>1, <1>2, <1>3, <1>4, <1>5, <1>6, ItemWriters

\* What a bid covers beside S stays awarded: rows join a bid on the whole basket
\* only by being awarded.
LEMMA CoverStep ==
  ASSUME AuctionInv, NoEdits', [Next]_vars,
         NEW b \in Bids, bidStatus[b] # "absent", NEW S, AwardedOrIn(b, S)
  PROVE  AwardedOrIn(b, S)'
<1>1. bidCovers'[b] = bidCovers[b] /\ reqStatus[BidOn[b]] # "absent"
  BY BidRows DEF AuctionInv, BidRowStep, BidsInv
<1>2. ASSUME NEW i \in Items, i \in Covers(b)'
      PROVE  i \in Covers(b) \/ itemStatus'[i] = "awarded"
  BY <1>1, <1>2, ItemStep DEF Covers, ItemsOf, RowsOf, AuctionInv, NoEdits
<1>3. Covers(b)' \subseteq Items
  BY <1>1 DEF Covers, ItemsOf, RowsOf, AuctionInv, TypeOK
<1>4. \A i \in Covers(b)' \ S : itemStatus'[i] = "awarded"
  BY <1>2, <1>3, ItemStep DEF AwardedOrIn
<1> QED
  BY <1>4 DEF AwardedOrIn

LEMMA OpenStep ==
  ASSUME AuctionInv, NoEdits', [Next]_vars, NEW r \in Requests, reqStatus[r] # "absent"
  PROVE  OpenItems(r)' \subseteq OpenItems(r)
  BY ItemStep DEF OpenItems, RowsOf

LEMMA HandlerKeepsOrders ==
  ASSUME AuctionInv, NoEdits', [Next]_vars, NEW s \in Handlers,
         HandlerRows(s), HandlerBids(s), HandlerOrders(s)
  PROVE  HandlerOrders(s)'
<1> USE RowsAssumption
<1>1. s.at \in {"acceptLock", "acceptCommit"} => AwardedOrIn(s.bid, s.items)'
  <2> SUFFICES ASSUME s.at \in {"acceptLock", "acceptCommit"}
               PROVE  AwardedOrIn(s.bid, s.items)'
    OBVIOUS
  <2>1. s.bid \in Bids /\ bidStatus[s.bid] # "absent" /\ AwardedOrIn(s.bid, s.items)
    BY HandlerFields DEF HandlerBids, HandlerOrders
  <2> QED
    BY <2>1, CoverStep
<1>2. s.at = "acceptCommit" /\ s.awards = "all" => OpenItems(BidOn[s.bid])' \subseteq s.items
  BY HandlerFields, OpenStep DEF HandlerRows, HandlerOrders
<1>3. s.at \in {"planCheck", "planCommit"} => OpenItems(s.req)' \subseteq Selected(s.sel) \cup s.drop
  BY HandlerFields, OpenStep DEF HandlerRows, HandlerOrders
<1> QED
  BY <1>1, <1>2, <1>3 DEF HandlerOrders

LEMMA SlotKeepsOrders ==
  ASSUME AuctionInv, OrdersInv, NoEdits', [Next]_vars,
         NEW p \in Procs, NEW s, h' = [h EXCEPT ![p] = s], HandlerOrders(s)'
  PROVE  \A q \in Procs : HandlerOrders(h[q])'
<1> SUFFICES ASSUME NEW q \in Procs
             PROVE  HandlerOrders(h[q])'
  OBVIOUS
<1>1. CASE q = p
  BY <1>1 DEF AuctionInv, TypeOK
<1>2. CASE q # p
  <2>1. PICK t : t = h[q]
    OBVIOUS
  <2>2. t \in Handlers /\ HandlerRows(t) /\ HandlerBids(t) /\ HandlerOrders(t) /\ h'[q] = t
    BY <1>2, <2>1 DEF AuctionInv, TypeOK, RowsInv, BidsInv, OrdersInv
  <2>3. HandlerOrders(t)'
    BY <2>2, HandlerKeepsOrders
  <2> QED
    BY <2>2, <2>3
<1> QED
  BY <1>1, <1>2

LEMMA HandlersKeepOrders ==
  ASSUME AuctionInv, OrdersInv, NoEdits', [Next]_vars
  PROVE  \A q \in Procs : HandlerOrders(h[q])'
<1> USE RowsAssumption
<1> USE DEF Start, Goto, End
<1>1. ASSUME NEW p \in Procs, Handle(p)
      PROVE  \A q \in Procs : HandlerOrders(h[q])'
  <2>h. /\ h[p] \in Handlers /\ HandlerRows(h[p]) /\ HandlerBids(h[p]) /\ HandlerOrders(h[p])
        /\ h[p].at \notin {"patch", "patchWrite"}
    BY DEF AuctionInv, TypeOK, RowsInv, BidsInv, OrdersInv, NoEdits
  <2>i. ASSUME NEW s, h' = [h EXCEPT ![p] = s],
               s.at \notin {"acceptLock", "acceptCommit", "planCheck", "planCommit"}
        PROVE  \A q \in Procs : HandlerOrders(h[q])'
    <3>1. HandlerOrders(s)'
      BY <2>i DEF HandlerOrders
    <3> QED
      BY <2>i, <3>1, SlotKeepsOrders
  <2>1. ASSUME NEW r \in Requests, CancelRead(p, r)
        PROVE  \A q \in Procs : HandlerOrders(h[q])'
    <3>1. PICK s : s = [at |-> "cancel", req |-> r]
      OBVIOUS
    <3>2. h' = [h EXCEPT ![p] = s] /\ s.at = "cancel"
      BY <2>1, <3>1 DEF CancelRead
    <3> QED
      BY <2>i, <3>2
  <2>2. ASSUME NEW r \in Requests, NEW sel \in [Items -> Bids \cup {NoBid}], PlanRead(p, r, sel)
        PROVE  \A q \in Procs : HandlerOrders(h[q])'
    <3>1. PICK s : s = [at |-> "planCheck", req |-> r, sel |-> sel,
                        drop |-> OpenItems(r) \ Selected(sel)]
      OBVIOUS
    <3>2. h' = [h EXCEPT ![p] = s] /\ reqStatus[r] # "absent"
      BY <2>2, <3>1 DEF PlanRead
    <3>3. OpenItems(r)' \subseteq Selected(s.sel) \cup s.drop
      BY <3>1, <3>2, OpenStep
    <3>4. HandlerOrders(s)'
      BY <3>1, <3>3 DEF HandlerOrders, Selected
    <3> QED
      BY <3>2, <3>4, SlotKeepsOrders
  <2>3. ASSUME NEW b \in Bids, NEW covers \in SUBSET Items, PlaceRead(p, b, covers)
        PROVE  \A q \in Procs : HandlerOrders(h[q])'
    <3>1. PICK s : s = [at |-> "placeExtend", bid |-> b, covers |-> covers,
                        live |-> liveEndsAt[BidOn[b]], ext |-> extendCount[BidOn[b]], since |-> now]
      OBVIOUS
    <3>2. h' = [h EXCEPT ![p] = s] /\ s.at = "placeExtend"
      BY <2>3, <3>1 DEF PlaceRead
    <3> QED
      BY <2>i, <3>2
  <2>4. ASSUME NEW b \in Bids,
               WithdrawRead(p, b) \/ RejectRead(p, b) \/ AcceptRead(p, b) \/ Acknowledge(p, b)
        PROVE  \A q \in Procs : HandlerOrders(h[q])'
    <3>1. PICK step \in {"withdraw", "reject", "acceptCheck", "createOrder"} :
            h' = [h EXCEPT ![p] = [at |-> step, bid |-> b]]
      BY <2>4 DEF WithdrawRead, RejectRead, AcceptRead, Acknowledge
    <3>2. PICK s : s = [at |-> step, bid |-> b]
      OBVIOUS
    <3>3. h' = [h EXCEPT ![p] = s] /\ s.at = step
      BY <3>1, <3>2
    <3> QED
      BY <2>i, <3>3
  <2>5. CASE PlaceExtend(p) /\ h' # [h EXCEPT ![p] = Idle]
    <3>1. PICK s : s = [at |-> "placeInsert", bid |-> h[p].bid, covers |-> h[p].covers,
                        expires |-> BidExpiry(ExtendedEnd(h[p])), since |-> h[p].since]
      OBVIOUS
    <3>2. h' = [h EXCEPT ![p] = s] /\ s.at = "placeInsert"
      BY <2>5, <3>1 DEF PlaceExtend
    <3> QED
      BY <2>i, <3>2
  <2>6. CASE AcceptCheck(p) /\ h' # [h EXCEPT ![p] = Idle]
    <3>1. PICK s : s = [at |-> "acceptLock", bid |-> h[p].bid, items |-> Covers(h[p].bid)]
      OBVIOUS
    <3>2. h' = [h EXCEPT ![p] = s] /\ s.at = "acceptLock"
      BY <2>6, <3>1 DEF AcceptCheck
    <3>3. s.bid \in Bids /\ bidStatus[s.bid] # "absent" /\ AwardedOrIn(s.bid, s.items)
      BY <2>6, <2>h, <3>1, HandlerFields DEF AcceptCheck, HandlerBids, AwardedOrIn
    <3>4. AwardedOrIn(s.bid, s.items)'
      BY <3>3, CoverStep
    <3>5. HandlerOrders(s)'
      BY <3>2, <3>4 DEF HandlerOrders
    <3> QED
      BY <3>2, <3>5, SlotKeepsOrders
  <2>7. CASE AcceptLock(p)
    <3>1. PICK s : s = [at |-> "acceptCommit", bid |-> h[p].bid, items |-> h[p].items,
                        awards |-> IF AllAwardedBeside(BidOn[h[p].bid], h[p].items)
                                   THEN "all" ELSE "some"]
      OBVIOUS
    <3>2. h' = [h EXCEPT ![p] = s] /\ s.at = "acceptCommit"
      BY <2>7, <3>1 DEF AcceptLock
    <3>3. s.bid \in Bids /\ bidStatus[s.bid] # "absent" /\ AwardedOrIn(s.bid, s.items)
          /\ reqStatus[BidOn[s.bid]] # "absent"
      BY <2>7, <2>h, <3>1, HandlerFields DEF AcceptLock, HandlerBids, HandlerRows, HandlerOrders
    <3>4. AwardedOrIn(s.bid, s.items)'
      BY <3>3, CoverStep
    <3>5. s.awards = "all" => OpenItems(BidOn[s.bid]) \subseteq s.items
      BY <3>1 DEF AllAwardedBeside, Awarded, OpenItems, ItemsOf
    <3>6. s.awards = "all" => OpenItems(BidOn[s.bid])' \subseteq s.items
      BY <3>3, <3>5, OpenStep
    <3>7. HandlerOrders(s)'
      BY <3>2, <3>4, <3>6 DEF HandlerOrders
    <3> QED
      BY <3>2, <3>7, SlotKeepsOrders
  <2>8. CASE AcceptCommit(p)
    <3>1. PICK s : s = [at |-> "createOrder", bid |-> h[p].bid]
      OBVIOUS
    <3>2. h' = [h EXCEPT ![p] = s] /\ s.at = "createOrder"
      BY <2>8, <3>1 DEF AcceptCommit
    <3> QED
      BY <2>i, <3>2
  <2>9. CASE PlanCheck(p) /\ h' # [h EXCEPT ![p] = Idle]
    <3>1. PICK s : s = [at |-> "planCommit", req |-> h[p].req, sel |-> h[p].sel, drop |-> h[p].drop]
      OBVIOUS
    <3>2. h' = [h EXCEPT ![p] = s] /\ s.at = "planCommit"
      BY <2>9, <3>1 DEF PlanCheck
    <3>3. s.req \in Requests /\ reqStatus[s.req] # "absent"
          /\ OpenItems(s.req) \subseteq Selected(s.sel) \cup s.drop
      BY <2>9, <2>h, <3>1, HandlerFields DEF PlanCheck, HandlerRows, HandlerOrders
    <3>4. OpenItems(s.req)' \subseteq Selected(s.sel) \cup s.drop
      BY <3>3, OpenStep
    <3>5. HandlerOrders(s)'
      BY <3>2, <3>4 DEF HandlerOrders, Selected
    <3> QED
      BY <3>2, <3>5, SlotKeepsOrders
  <2>10. CASE h' = [h EXCEPT ![p] = Idle]
    <3>1. Idle.at = "idle"
      BY DEF Idle
    <3> QED
      BY <2>10, <2>i, <3>1
  <2>11. /\ ~PatchDelete(p) /\ \A S \in SUBSET Items : ~PatchWrite(p, S)
         /\ \A r \in Requests : ~PatchRead(p, r)
    <3>1. ASSUME NEW r \in Requests, PatchRead(p, r)
          PROVE  FALSE
      <4>1. PICK s : s = [at |-> "patch", req |-> r]
        OBVIOUS
      <4>2. h'[p] = s /\ s.at = "patch"
        BY <3>1, <4>1 DEF PatchRead, AuctionInv, TypeOK
      <4> QED
        BY <4>2 DEF NoEdits
    <3> QED
      BY <2>h, <3>1 DEF PatchDelete, PatchWrite
  <2> QED
    BY <1>1, <2>1, <2>2, <2>3, <2>4, <2>5, <2>6, <2>7, <2>8, <2>9, <2>10, <2>11
    DEF Handle, CancelWrite, PlaceInsert, WithdrawWrite, RejectWrite, CloseBid,
        CreateOrder, PlanCommit, Abort
<1>2. CASE h' = h
  <2> SUFFICES ASSUME NEW q \in Procs
               PROVE  HandlerOrders(h[q])'
    OBVIOUS
  <2>1. PICK t : t = h[q]
    OBVIOUS
  <2>2. t \in Handlers /\ HandlerRows(t) /\ HandlerBids(t) /\ HandlerOrders(t) /\ h'[q] = t
    BY <1>2, <2>1 DEF AuctionInv, TypeOK, RowsInv, BidsInv, OrdersInv
  <2>3. HandlerOrders(t)'
    BY <2>2, HandlerKeepsOrders
  <2> QED
    BY <2>2, <2>3
<1>3. CASE \A p \in Procs : ~Handle(p)
  BY <1>2, <1>3 DEF Next, Tick, CreateRequest, Work, WorkerFind, WorkerExpireRequests,
                    WorkerExpireTheirBids, WorkerExpireBids, WorkerAbort, vars
<1> QED
  BY <1>1, <1>3

LEMMA SettledStays ==
  ASSUME AuctionInv, OrdersInv, NoEdits', [Next]_vars
  PROVE  AwardedRequestIsSettled'
<1> USE RowsAssumption
<1> SUFFICES ASSUME NEW r \in Requests, reqStatus'[r] = "awarded"
             PROVE  OpenItems(r)' = {}
  BY DEF AwardedRequestIsSettled
<1>1. CASE reqStatus[r] = "awarded"
  BY <1>1, OpenStep DEF OrdersInv, AwardedRequestIsSettled
<1>2. ASSUME NEW p \in Procs, AcceptCommit(p), reqStatus[r] # "awarded"
      PROVE  OpenItems(r)' = {}
  <2>1. h[p] \in Handlers /\ HandlerOrders(h[p]) /\ HandlerRows(h[p]) /\ h[p].at = "acceptCommit"
    BY <1>2 DEF AuctionInv, TypeOK, RowsInv, OrdersInv, AcceptCommit
  <2>2. r = BidOn[h[p].bid] /\ h[p].awards = "all"
    BY <1>2 DEF AcceptCommit, AuctionInv, TypeOK
  <2>3. OpenItems(r) \subseteq h[p].items /\ reqStatus[r] # "absent"
    BY <2>1, <2>2 DEF HandlerOrders, HandlerRows
  <2>4. OpenItems(r)' \subseteq h[p].items
    BY <2>3, OpenStep
  <2>5. \A i \in Items : i \in h[p].items => itemStatus'[i] # "open"
    BY <1>2 DEF AcceptCommit, AuctionInv, NoEdits
  <2> QED
    BY <2>4, <2>5 DEF OpenItems, RowsOf
<1>3. ASSUME NEW p \in Procs, PlanCommit(p), reqStatus[r] # "awarded"
      PROVE  OpenItems(r)' = {}
  <2>1. h[p] \in Handlers /\ HandlerOrders(h[p]) /\ HandlerRows(h[p]) /\ h[p].at = "planCommit"
    BY <1>3 DEF AuctionInv, TypeOK, RowsInv, OrdersInv, PlanCommit
  <2>2. r = h[p].req
    BY <1>3 DEF PlanCommit, AuctionInv, TypeOK
  <2>3. OpenItems(r) \subseteq Selected(h[p].sel) \cup h[p].drop /\ reqStatus[r] # "absent"
    BY <2>1, <2>2 DEF HandlerOrders, HandlerRows
  <2>4. OpenItems(r)' \subseteq OpenItems(r)
    BY <2>3, OpenStep
  <2>5. itemStatus' = PlanItems(h[p])
    BY <1>3 DEF PlanCommit
  <2>6. \A i \in OpenItems(r) : itemStatus'[i] # "open"
    BY <2>3, <2>5 DEF PlanItems, OpenItems, RowsOf
  <2> QED
    BY <2>4, <2>6 DEF OpenItems
<1>4. CASE reqStatus' = reqStatus
  BY <1>1, <1>4
<1>5. CASE \E x \in Requests, S \in SUBSET Items : CreateRequest(x, S)
  BY <1>1, <1>5 DEF CreateRequest, AuctionInv, TypeOK
<1>6. CASE \E p \in Procs : CancelWrite(p)
  BY <1>1, <1>6 DEF CancelWrite, AuctionInv, TypeOK
<1>7. CASE WorkerExpireRequests
  BY <1>1, <1>7 DEF WorkerExpireRequests
<1>8. \/ reqStatus' = reqStatus
      \/ \E x \in Requests, S \in SUBSET Items : CreateRequest(x, S)
      \/ \E p \in Procs : CancelWrite(p) \/ AcceptCommit(p) \/ PlanCommit(p)
      \/ WorkerExpireRequests
  BY RequestWriters
<1> QED
  BY <1>1, <1>2, <1>3, <1>4, <1>5, <1>6, <1>7, <1>8

\* A bid is acknowledged with all it covers awarded, or with its order.
LEMMA AcknowledgedCovered ==
  ASSUME AuctionInv, OrdersInv, NoEdits', [Next]_vars
  PROVE  \A b \in consumerAck' : orders'[b] = {} => AwardedOrIn(b, {})'
<1> SUFFICES ASSUME NEW b \in consumerAck', orders'[b] = {}
             PROVE  AwardedOrIn(b, {})'
  OBVIOUS
<1>1. CASE b \in consumerAck
  <2>1. b \in Bids /\ bidStatus[b] # "absent"
    BY <1>1 DEF AuctionInv, TypeOK, BidsInv
  <2>2. orders[b] = {}
    BY <2>1, OrderStays DEF AuctionInv
  <2>3. AwardedOrIn(b, {})
    BY <1>1, <2>2 DEF OrdersInv
  <2> QED
    BY <2>1, <2>3, CoverStep
<1>2. ASSUME NEW p \in Procs, AcceptCommit(p), b \notin consumerAck
      PROVE  AwardedOrIn(b, {})'
  <2>1. PICK S : S = h[p].items
    OBVIOUS
  <2>2. h[p] \in Handlers /\ HandlerOrders(h[p]) /\ HandlerBids(h[p]) /\ h[p].at = "acceptCommit"
    BY <1>2 DEF AuctionInv, TypeOK, BidsInv, OrdersInv, AcceptCommit
  <2>3. b = h[p].bid
    BY <1>2 DEF AcceptCommit
  <2>4. b \in Bids /\ bidStatus[b] # "absent" /\ AwardedOrIn(b, S)
    BY <2>1, <2>2, <2>3, HandlerFields DEF HandlerOrders, HandlerBids
  <2>5. AwardedOrIn(b, S)'
    BY <2>4, CoverStep
  <2>6. \A i \in Items : i \in S => itemStatus'[i] = "awarded"
    BY <1>2, <2>1 DEF AcceptCommit, AuctionInv, NoEdits
  <2>7. Covers(b)' \subseteq Items
    BY <2>4, TypeNext, CoversType DEF AuctionInv, Covers, ItemsOf, RowsOf, TypeOK
  <2> QED
    BY <2>5, <2>6, <2>7 DEF AwardedOrIn
<1>3. ASSUME NEW p \in Procs, PlanCommit(p), b \notin consumerAck
      PROVE  FALSE
  <2>1. b \in Winners(h[p].sel) /\ h[p].sel \in [Items -> Bids \cup {NoBid}]
    BY <1>3, HandlerFields DEF PlanCommit, AuctionInv, TypeOK
  <2>2. b \in Bids /\ {i \in Items : h[p].sel[i] = b} # {}
    BY <2>1 DEF Winners, Selected
  <2>3. orders'[b] = OrderFor(b, {i \in Items : h[p].sel[i] = b})
    BY <1>3, <2>1, <2>2 DEF PlanCommit, PlanOrders
  <2> QED
    BY <2>2, <2>3 DEF OrderFor
<1> QED
  BY <1>1, <1>2, <1>3, AckSteps

LEMMA BackedStays ==
  ASSUME AuctionInv, OrdersInv, NoEdits', [Next]_vars
  PROVE  OrderIsBacked'
<1> USE RowsAssumption
<1> SUFFICES ASSUME NEW b \in Bids, orders'[b] # {}
             PROVE  /\ b \in consumerAck'
                    /\ \A i \in orders'[b] : ItemOf[i] = BidOn[b] /\ itemStatus'[i] = "awarded"
  BY DEF OrderIsBacked
<1>1. CASE orders[b] # {}
  <2>1. orders'[b] = orders[b] /\ orders[b] \subseteq Items
    BY <1>1, OrderStays DEF AuctionInv, TypeOK
  <2>2. b \in consumerAck /\ \A i \in orders[b] : ItemOf[i] = BidOn[b] /\ itemStatus[i] = "awarded"
    BY <1>1 DEF OrdersInv, OrderIsBacked
  <2>3. b \in consumerAck'
    BY <2>2, AckSteps DEF AcceptCommit, PlanCommit
  <2> QED
    BY <2>1, <2>2, <2>3, ItemStep
<1>2. ASSUME NEW p \in Procs, CreateOrder(p), orders[b] = {}
      PROVE  /\ b \in consumerAck'
             /\ \A i \in orders'[b] : ItemOf[i] = BidOn[b] /\ itemStatus'[i] = "awarded"
  <2>1. b \in consumerAck /\ orders'[b] = Covers(b)
    BY <1>2 DEF CreateOrder, OrderFor, AuctionInv, TypeOK
  <2>2. \A i \in Covers(b) : ItemOf[i] = BidOn[b]
    BY DEF Covers, ItemsOf, RowsOf, AuctionInv, RowsInv, CoversOwnRequest
  <2>3. \A i \in Covers(b) : itemStatus[i] = "awarded"
    BY <1>2, <2>1 DEF OrdersInv, AwardedOrIn
  <2> QED
    BY <1>2, <2>1, <2>2, <2>3 DEF CreateOrder, bidVars, itemVars
<1>3. ASSUME NEW p \in Procs, PlanCommit(p), orders[b] = {}
      PROVE  /\ b \in consumerAck'
             /\ \A i \in orders'[b] : ItemOf[i] = BidOn[b] /\ itemStatus'[i] = "awarded"
  <2>1. h[p] \in Handlers /\ HandlerRows(h[p]) /\ h[p].at = "planCommit"
    BY <1>3 DEF AuctionInv, TypeOK, RowsInv, PlanCommit
  <2>2. b \in Winners(h[p].sel) /\ orders'[b] = {i \in Items : h[p].sel[i] = b}
    BY <1>3 DEF PlanCommit, PlanOrders, OrderFor
  <2>3. \A i \in orders'[b] : i \in Selected(h[p].sel)
    BY <2>2 DEF Selected
  <2>4. \A i \in orders'[b] : ItemOf[i] = BidOn[b]
    BY <2>1, <2>2, <2>3 DEF HandlerRows
  <2>5. itemStatus' = PlanItems(h[p])
    BY <1>3 DEF PlanCommit
  <2>6. \A i \in orders'[b] : itemStatus'[i] = "awarded"
    BY <2>2, <2>3, <2>5 DEF PlanItems
  <2> QED
    BY <1>3, <2>2, <2>4, <2>6 DEF PlanCommit
<1> QED
  BY <1>1, <1>2, <1>3, OrderWriters

LEMMA OrdersNext ==
  ASSUME AuctionInv, OrdersInv, NoEdits', [Next]_vars
  PROVE  OrdersInv'
BY HandlersKeepOrders, SettledStays, AcknowledgedCovered, BackedStays DEF OrdersInv

LEMMA OrdersSafe ==
  ASSUME EditWindow = 0
  PROVE  Spec => [](AuctionInv /\ OrdersInv)
<1>1. Init => AuctionInv /\ OrdersInv
  BY TypeInit, EndsInit, RowsInit, BidsInit, NoEditsInit, OrdersInit DEF AuctionInv
<1>2. AuctionInv /\ OrdersInv /\ [Next]_vars => (AuctionInv /\ OrdersInv)'
  <2> SUFFICES ASSUME AuctionInv, OrdersInv, [Next]_vars
               PROVE  AuctionInv' /\ OrdersInv'
    OBVIOUS
  <2>1. AuctionInv'
    BY TypeNext, EndsNext, RowsNext, BidsNext, NoEditsNext DEF AuctionInv
  <2> QED
    BY <2>1, OrdersNext DEF AuctionInv
<1> QED
  BY <1>1, <1>2, PTL DEF Spec

\* An order is created only for a bid the consumer acknowledged, and for awarded
\* items of its request: createOrderFromAcceptedBid from accept and acknowledge,
\* insertOrderFromBid from award-plan.
THEOREM OrdersAreBacked ==
  ASSUME EditWindow = 0
  PROVE  Spec => []OrderIsBacked
<1>1. AuctionInv /\ OrdersInv => OrderIsBacked
  BY DEF OrdersInv
<1> QED
  BY <1>1, OrdersSafe, PTL

\* No item is left open when its request is awarded, whatever overlaps with the
\* allAwarded check of accept or with the transaction of award-plan.
THEOREM AwardedRequestsAreSettled ==
  ASSUME EditWindow = 0
  PROVE  Spec => []AwardedRequestIsSettled
<1>1. AuctionInv /\ OrdersInv => AwardedRequestIsSettled
  BY DEF OrdersInv
<1> QED
  BY <1>1, OrdersSafe, PTL
=============================================================================
