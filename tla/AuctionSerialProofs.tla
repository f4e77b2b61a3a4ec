------------------------- MODULE AuctionSerialProofs -------------------------
(***************************************************************************)
(* Theorems about Auction when handlers and ticks do not overlap: what the  *)
(* handlers promise one at a time, for any number of requests, items, bids  *)
(* and suppliers, whatever crashes between two of a handler's steps and     *)
(* however far the clock moves there.                                      *)
(***************************************************************************)
EXTENDS AuctionProofs

\* One handler or tick is in flight at a time.
Alone == \A p \in Procs : h[p] # Idle => worker = Idle /\ \A q \in Procs \ {p} : h[q] = Idle

Accepted(b) == bidStatus[b] = "accepted"
Taken(i) == itemStatus[i] \in {"awarded", "deleted"}

\* The items an accepted bid has won: those of its order, or while it has none the
\* ones its order is going to have.
Share(b) == IF orders[b] = {} THEN Covers(b) ELSE orders[b]

(***************************************************************************)
(* The inductive invariant.  An accept commits an award and creates the     *)
(* order later, or, after a crash, when a party acknowledges the bid.  What *)
(* carries OneOrderPerItem over that gap is that the share of an accepted   *)
(* bid is settled at its acceptance.                                       *)
(***************************************************************************)
AckedAreAccepted == consumerAck = {b \in Bids : Accepted(b)}
OrderedAreAccepted == \A b \in Bids : orders[b] # {} => Accepted(b)
SharesAreTaken == \A b \in Bids : Accepted(b) => \A i \in Share(b) : Taken(i)
SharesAreDisjoint ==
  \A b, c \in Bids : Accepted(b) /\ Accepted(c) /\ b # c =>
    \A i \in Share(b) \cap Share(c) : itemStatus[i] = "deleted"

\* An accept that leaves its request open was of a part of the basket.
OpenShares ==
  \A b \in Bids : Accepted(b) /\ reqStatus[BidOn[b]] = "open" =>
    bidCovers[b] # {} /\ \A i \in bidCovers[b] : Taken(i)

AwardsInv ==
  /\ AckedAreAccepted
  /\ OrderedAreAccepted
  /\ SharesAreTaken
  /\ SharesAreDisjoint
  /\ OpenShares
  /\ PlannedItemIsOrdered

\* Stronger than OneLiveBidPerSupplier, and not at the mercy of the clock.
OneActiveBid ==
  \A b, c \in Bids :
    /\ bidStatus[b] = "active" /\ bidStatus[c] = "active"
    /\ BidOn[b] = BidOn[c] /\ BidBy[b] = BidBy[c]
    => b = c

\* A tick that crashed leaves active bids on the requests it expired.
ActiveBidsAreOpen ==
  \A b \in Bids : bidStatus[b] = "active" =>
    \/ reqStatus[BidOn[b]] = "open"
    \/ reqStatus[BidOn[b]] = "expired" /\ liveEndsAt[BidOn[b]] < now

\* What a handler has read still holds at its next step.
Holds(s) ==
  /\ s.at \in {"placeExtend", "placeInsert"} =>
       reqStatus[BidOn[s.bid]] = "open" /\ \A c \in OwnBids(s.bid) : ~LiveAt(c, s.since)
  /\ s.at \in {"withdraw", "reject"} => bidStatus[s.bid] = "active"
  /\ s.at \in {"acceptLock", "acceptCommit"} =>
       /\ reqStatus[BidOn[s.bid]] = "open"
       /\ bidStatus[s.bid] = "active"
       /\ s.items = Covers(s.bid)
       /\ Awarded(s.items) = {}
  /\ s.at = "acceptCommit" /\ s.awards = "some" => bidCovers[s.bid] # {}
  /\ s.at \in {"planCheck", "planCommit"} =>
       /\ reqStatus[s.req] = "open"
       /\ \A i \in Selected(s.sel) : itemStatus[i] = "open" /\ bidStatus[s.sel[i]] = "active"
  /\ s.at \in {"cancel", "patch", "patchWrite"} => reqStatus[s.req] = "open"

TickHolds(w) ==
  /\ w.at = "expireRequests" => \A r \in w.reqs : reqStatus[r] = "open" /\ liveEndsAt[r] < now
  /\ w.at = "expireBids" => \A b \in w.bids : bidStatus[b] = "active"

ReadsHold == (\A p \in Procs : Holds(h[p])) /\ TickHolds(worker)

SerialInv == Alone /\ AwardsInv /\ OneActiveBid /\ ActiveBidsAreOpen /\ ReadsHold

\* What is known of a state whatever overlaps.
RaceInv == TypeOK /\ EndsInv /\ RowsInv /\ BidsInv

LEMMA SerialInit == Init => SerialInv
<1> SUFFICES ASSUME Init PROVE SerialInv
  OBVIOUS
<1> USE DEF Init
<1>1. Alone /\ AwardsInv
  BY DEF Alone, AwardsInv, AckedAreAccepted, OrderedAreAccepted, SharesAreTaken,
         SharesAreDisjoint, OpenShares, PlannedItemIsOrdered, Accepted
<1>2. OneActiveBid /\ ActiveBidsAreOpen
  BY DEF OneActiveBid, ActiveBidsAreOpen
<1>3. ReadsHold
  BY DEF ReadsHold, Holds, TickHolds, Idle
<1> QED
  BY <1>1, <1>2, <1>3 DEF SerialInv

(***************************************************************************)
(* One at a time.                                                          *)
(***************************************************************************)
LEMMA HandlerStep ==
  ASSUME TypeOK, NEW p \in Procs, Handle(p)
  PROVE  /\ worker' = worker
         /\ \A q \in Procs \ {p} : h'[q] = h[q]
         /\ h[p] # Idle \/ MayStart
<1> USE DEF Start, Goto, End, TypeOK
<1>1. CASE PatchDelete(p) \/ CancelWrite(p) \/ PlaceExtend(p) \/ PlaceInsert(p)
           \/ WithdrawWrite(p) \/ RejectWrite(p)
  BY <1>1 DEF PatchDelete, CancelWrite, PlaceExtend, PlaceInsert, WithdrawWrite, RejectWrite,
              CloseBid, Idle
<1>2. CASE AcceptCheck(p) \/ AcceptLock(p) \/ AcceptCommit(p) \/ CreateOrder(p) \/ PlanCheck(p)
           \/ PlanCommit(p) \/ Abort(p)
  BY <1>2 DEF AcceptCheck, AcceptLock, AcceptCommit, CreateOrder, PlanCheck, PlanCommit, Abort, Idle
<1>3. ASSUME NEW S \in SUBSET Items, PatchWrite(p, S)
      PROVE  worker' = worker /\ h[p] # Idle /\ \A q \in Procs \ {p} : h'[q] = h[q]
  BY <1>3 DEF PatchWrite, Idle
<1> QED
  BY <1>1, <1>2, <1>3
  DEF Handle, PatchRead, CancelRead, PlanRead, PlaceRead, WithdrawRead, RejectRead,
      AcceptRead, Acknowledge

LEMMA Solo ==
  ASSUME Overlap = FALSE, TypeOK, Alone, NEW p \in Procs, Handle(p)
  PROVE  /\ worker = Idle /\ worker' = Idle
         /\ \A q \in Procs \ {p} : h[q] = Idle /\ h'[q] = Idle
  BY HandlerStep DEF Alone, MayStart

LEMMA SoloTick ==
  ASSUME Overlap = FALSE, Alone, Work \/ WorkerAbort
  PROVE  h' = h /\ \A q \in Procs : h[q] = Idle
  BY DEF Work, WorkerFind, WorkerExpireRequests, WorkerExpireTheirBids, WorkerExpireBids,
         WorkerAbort, Alone, MayStart, Idle

LEMMA AloneNext ==
  ASSUME Overlap = FALSE, TypeOK, Alone, [Next]_vars
  PROVE  Alone'
<1>1. ASSUME NEW p \in Procs, Handle(p)
      PROVE  Alone'
  BY <1>1, Solo DEF Alone
<1>2. CASE Work \/ WorkerAbort
  BY <1>2, SoloTick DEF Alone
<1> QED
  BY <1>1, <1>2 DEF Next, Tick, CreateRequest, vars, Alone

(***************************************************************************)
(* Awards.                                                                 *)
(***************************************************************************)
\* The share of an accepted bid is fixed while its order, its cover and, for the
\* whole basket, the request's items are.
LEMMA ShareStays ==
  ASSUME NEW b \in Bids, orders'[b] = orders[b], bidCovers'[b] = bidCovers[b],
         bidCovers[b] = {} => (ItemsOf(BidOn[b]))' = ItemsOf(BidOn[b])
  PROVE  Share(b)' = Share(b)
<1>1. CASE bidCovers[b] = {}
  BY <1>1 DEF Share, Covers
<1>2. CASE bidCovers[b] # {}
  BY <1>2 DEF Share, Covers
<1> QED
  BY <1>1, <1>2

\* A request that is no longer open keeps its items.
ItemKept(i) ==
  /\ Taken(i) => Taken(i)'
  /\ itemStatus[i] = "deleted" => itemStatus'[i] = "deleted"
  /\ reqStatus[ItemOf[i]] \notin {"absent", "open"} => itemStatus'[i] = itemStatus[i]

\* What a step that accepts no bid and creates no order may do.
AwardsFrame ==
  /\ UNCHANGED <<consumerAck, orders, awardedBid>>
  /\ \A b \in Bids : Accepted(b)' <=> Accepted(b)
  /\ \A i \in Items : ItemKept(i)
  /\ \A r \in Requests : reqStatus'[r] = "open" => reqStatus[r] \in {"absent", "open"}

LEMMA AcceptedBid ==
  ASSUME RaceInv, NEW b \in Bids, Accepted(b), [Next]_vars
  PROVE  /\ BidOn[b] \in Requests /\ reqStatus[BidOn[b]] # "absent"
         /\ bidCovers'[b] = bidCovers[b] /\ bidCovers[b] \subseteq Items
         /\ Covers(b) \subseteq Items /\ Share(b) \subseteq Items
<1>1. bidStatus[b] # "absent"
  BY DEF Accepted
<1>2. BidRowStep(b)
  BY BidRows DEF RaceInv
<1>3. Covers(b) \in SUBSET Items /\ orders[b] \in SUBSET Items
  BY CoversType DEF RaceInv, TypeOK
<1> QED
  BY <1>1, <1>2, <1>3, RowsAssumption DEF BidRowStep, RaceInv, BidsInv, Share, TypeOK

LEMMA FrameKeepsShare ==
  ASSUME RaceInv, AwardsInv, AwardsFrame, [Next]_vars, NEW b \in Bids, Accepted(b)
  PROVE  Share(b)' = Share(b)
<1>1. bidCovers'[b] = bidCovers[b] /\ BidOn[b] \in Requests /\ reqStatus[BidOn[b]] # "absent"
  BY AcceptedBid
<1>2. ASSUME bidCovers[b] = {}
      PROVE  (ItemsOf(BidOn[b]))' = ItemsOf(BidOn[b])
  <2>1. reqStatus[BidOn[b]] \notin {"absent", "open"}
    BY <1>1, <1>2 DEF AwardsInv, OpenShares
  <2>2. \A i \in RowsOf(BidOn[b]) : itemStatus'[i] = itemStatus[i]
    BY <2>1 DEF AwardsFrame, ItemKept, RowsOf
  <2> QED
    BY <2>2 DEF ItemsOf, RowsOf
<1> QED
  BY <1>1, <1>2, ShareStays DEF AwardsFrame

LEMMA FrameKeepsAwards ==
  ASSUME RaceInv, AwardsInv, AwardsFrame, [Next]_vars
  PROVE  AwardsInv'
<1>1. AckedAreAccepted' /\ OrderedAreAccepted' /\ PlannedItemIsOrdered'
  BY DEF AwardsFrame, AwardsInv, AckedAreAccepted, OrderedAreAccepted, PlannedItemIsOrdered, Accepted
<1>2. \A b \in Bids : Accepted(b)' => Accepted(b) /\ Share(b)' = Share(b) /\ Share(b) \subseteq Items
  BY FrameKeepsShare, AcceptedBid DEF AwardsFrame
<1>3. SharesAreTaken'
  BY <1>2 DEF AwardsFrame, ItemKept, AwardsInv, SharesAreTaken
<1>4. SharesAreDisjoint'
  <2> SUFFICES ASSUME NEW b \in Bids, NEW c \in Bids, Accepted(b)', Accepted(c)', b # c,
                      NEW i \in Share(b)' \cap Share(c)'
               PROVE  itemStatus'[i] = "deleted"
    BY DEF SharesAreDisjoint
  <2>1. i \in Share(b) \cap Share(c) /\ i \in Items
    BY <1>2
  <2> QED
    BY <1>2, <2>1 DEF AwardsFrame, ItemKept, AwardsInv, SharesAreDisjoint
<1>5. OpenShares'
  <2> SUFFICES ASSUME NEW b \in Bids, Accepted(b)', reqStatus'[BidOn[b]] = "open"
               PROVE  bidCovers'[b] # {} /\ \A i \in bidCovers'[b] : Taken(i)'
    BY DEF OpenShares
  <2>1. Accepted(b)
    BY DEF AwardsFrame
  <2>2. reqStatus[BidOn[b]] = "open" /\ bidCovers'[b] = bidCovers[b] /\ bidCovers[b] \subseteq Items
    BY <2>1, AcceptedBid DEF AwardsFrame
  <2> QED
    BY <2>1, <2>2 DEF AwardsFrame, ItemKept, AwardsInv, OpenShares
<1> QED
  BY <1>1, <1>3, <1>4, <1>5 DEF AwardsInv

\* Accepting a bid: its share is what it covers, and none of it was awarded before.
LEMMA AcceptKeepsAwards ==
  ASSUME RaceInv, AwardsInv, ReadsHold, [Next]_vars, NEW p \in Procs, AcceptCommit(p)
  PROVE  AwardsInv'
<1> USE RowsAssumption
<1>p. /\ h[p].bid \in Bids /\ h[p].items \in SUBSET Items /\ h[p].awards \in {"all", "some"}
      /\ HandlerRows(h[p]) /\ Holds(h[p]) /\ h[p].at = "acceptCommit"
  <2>1. h[p] \in Handlers /\ HandlerRows(h[p]) /\ Holds(h[p]) /\ h[p].at = "acceptCommit"
    BY DEF AcceptCommit, RaceInv, RowsInv, ReadsHold, TypeOK
  <2> QED
    BY <2>1, HandlerFields
<1>q. PICK a \in Bids, S \in SUBSET Items, r \in Requests :
        a = h[p].bid /\ S = h[p].items /\ r = BidOn[a]
  BY <1>p
<1>1. /\ reqStatus[r] = "open" /\ bidStatus[a] = "active" /\ S = Covers(a) /\ Awarded(S) = {}
      /\ h[p].awards = "some" => bidCovers[a] # {}
      /\ S \subseteq RowsOf(r)
  BY <1>p, <1>q DEF HandlerRows, Holds
<1>2. \A b \in Bids : Accepted(b)' <=> b = a \/ Accepted(b)
  BY <1>1, <1>q DEF AcceptCommit, Accepted, Losers, Active
<1>3. \A i \in Items : itemStatus'[i] = IF i \in S /\ itemStatus[i] # "deleted"
                                        THEN "awarded" ELSE itemStatus[i]
  BY <1>q DEF AcceptCommit
<1>4. /\ UNCHANGED <<orders, awardedBid, bidCovers>>
      /\ consumerAck' = consumerAck \cup {a}
      /\ \A x \in Requests : reqStatus'[x] = "open" => reqStatus[x] = "open"
      /\ h[p].awards = "all" => reqStatus'[r] = "awarded"
  BY <1>1, <1>q DEF AcceptCommit, RaceInv, TypeOK
<1>5. orders[a] = {} /\ ~Accepted(a)
  BY <1>1 DEF AwardsInv, OrderedAreAccepted, Accepted
<1>6. Share(a)' = S
  <2>1. CASE bidCovers[a] # {}
    BY <1>1, <1>4, <1>5, <2>1 DEF Share, Covers
  <2>2. CASE bidCovers[a] = {}
    <3>1. S = ItemsOf(r)
      BY <1>1, <1>q, <2>2 DEF Covers
    <3>2. (ItemsOf(r))' = ItemsOf(r)
      BY <1>3, <3>1 DEF ItemsOf, RowsOf
    <3> QED
      BY <1>4, <1>5, <1>q, <2>2, <3>1, <3>2 DEF Share, Covers
  <2> QED
    BY <2>1, <2>2
<1>7. ASSUME NEW c \in Bids, Accepted(c)
      PROVE  c # a /\ Share(c)' = Share(c) /\ Share(c) \subseteq Items
  <2>1. c # a /\ Share(c) \subseteq Items /\ reqStatus[BidOn[c]] # "absent" /\ BidOn[c] \in Requests
    BY <1>5, <1>7, AcceptedBid
  <2>2. ASSUME bidCovers[c] = {}
        PROVE  (ItemsOf(BidOn[c]))' = ItemsOf(BidOn[c])
    <3>1. BidOn[c] # r
      BY <1>1, <1>7, <2>2 DEF AwardsInv, OpenShares
    <3>2. \A i \in RowsOf(BidOn[c]) : itemStatus'[i] = itemStatus[i]
      BY <1>1, <1>3, <3>1 DEF RowsOf
    <3> QED
      BY <3>2 DEF ItemsOf, RowsOf
  <2> QED
    BY <1>4, <2>1, <2>2, ShareStays
<1>8. /\ \A i \in Items : Taken(i) => Taken(i)'
      /\ \A i \in S : Taken(i)'
      /\ \A i \in Items : itemStatus[i] = "deleted" => itemStatus'[i] = "deleted"
  BY <1>1, <1>3 DEF Taken
<1>9. AckedAreAccepted' /\ OrderedAreAccepted' /\ PlannedItemIsOrdered'
  <2>1. AckedAreAccepted'
    BY <1>1, <1>2, <1>4 DEF AwardsInv, AckedAreAccepted
  <2>2. OrderedAreAccepted' /\ PlannedItemIsOrdered'
    BY <1>2, <1>4 DEF AwardsInv, OrderedAreAccepted, PlannedItemIsOrdered
  <2> QED
    BY <2>1, <2>2
<1>10. SharesAreTaken'
  BY <1>2, <1>6, <1>7, <1>8 DEF AwardsInv, SharesAreTaken
<1>11. ASSUME NEW c \in Bids, Accepted(c), NEW i \in Share(c) \cap S
       PROVE  itemStatus[i] = "deleted" /\ i \in Items
  BY <1>1, <1>7, <1>11 DEF AwardsInv, SharesAreTaken, Taken, Awarded
<1>12. SharesAreDisjoint'
  <2> SUFFICES ASSUME NEW b \in Bids, NEW c \in Bids, Accepted(b)', Accepted(c)', b # c,
                      NEW i \in Share(b)' \cap Share(c)'
               PROVE  itemStatus'[i] = "deleted"
    BY DEF SharesAreDisjoint
  <2>1. CASE b = a
    BY <1>2, <1>6, <1>7, <1>8, <1>11, <2>1
  <2>2. CASE c = a
    BY <1>2, <1>6, <1>7, <1>8, <1>11, <2>2
  <2>3. CASE b # a /\ c # a
    BY <1>2, <1>7, <1>8, <2>3 DEF AwardsInv, SharesAreDisjoint
  <2> QED
    BY <2>1, <2>2, <2>3
<1>13. OpenShares'
  <2> SUFFICES ASSUME NEW b \in Bids, Accepted(b)', reqStatus'[BidOn[b]] = "open"
               PROVE  bidCovers'[b] # {} /\ \A i \in bidCovers'[b] : Taken(i)'
    BY DEF OpenShares
  <2>1. CASE b = a
    <3>1. h[p].awards = "some"
      BY <1>4, <1>p, <1>q, <2>1
    <3>2. bidCovers[a] # {} /\ S = bidCovers[a]
      BY <1>1, <3>1 DEF Covers
    <3> QED
      BY <1>4, <1>8, <2>1, <3>2
  <2>2. CASE b # a
    BY <1>2, <1>4, <1>8, <2>2, AcceptedBid DEF AwardsInv, OpenShares
  <2> QED
    BY <2>1, <2>2
<1> QED
  BY <1>9, <1>10, <1>12, <1>13 DEF AwardsInv

\* The order of an accepted bid is created with the bid's share.
LEMMA OrderKeepsAwards ==
  ASSUME RaceInv, AwardsInv, [Next]_vars, NEW p \in Procs, CreateOrder(p)
  PROVE  AwardsInv'
<1>1. PICK a \in Bids : a = h[p].bid
  BY HandlerFields DEF CreateOrder, RaceInv, TypeOK
<1>2. UNCHANGED <<reqStatus, itemStatus, awardedBid, bidStatus, bidCovers, consumerAck>>
  BY DEF CreateOrder, reqVars, itemVars, bidVars
<1>3. \/ Accepted(a) /\ orders' = [orders EXCEPT ![a] = OrderFor(a, Covers(a))]
      \/ orders' = orders
  BY <1>1 DEF CreateOrder, AwardsInv, AckedAreAccepted
<1>4. \A b \in Bids : b # a => orders'[b] = orders[b]
  BY <1>3 DEF RaceInv, TypeOK
<1>5. orders'[a] = orders[a] \/ (orders[a] = {} /\ orders'[a] = Covers(a))
  BY <1>3 DEF OrderFor, RaceInv, TypeOK
<1>6. ~Accepted(a) => orders' = orders
  BY <1>3
<1>7. \A b \in Bids : Covers(b)' = Covers(b)
  BY <1>2 DEF Covers, ItemsOf, RowsOf
<1>8. \A b \in Bids : Accepted(b) => Share(b)' = Share(b)
  BY <1>4, <1>5, <1>7 DEF Share
<1>9. \A b \in Bids : orders[b] # {} => orders'[b] = orders[b]
  BY <1>4, <1>5, <1>6
<1>10. \A b \in Bids : orders'[b] # {} => orders[b] # {} \/ Accepted(b)
  BY <1>4, <1>6
<1>11. \A b \in Bids : Accepted(b)' <=> Accepted(b)
  BY <1>2 DEF Accepted
<1>12. AckedAreAccepted' /\ OrderedAreAccepted'
  BY <1>2, <1>10, <1>11 DEF AwardsInv, AckedAreAccepted, OrderedAreAccepted
<1>13. SharesAreTaken' /\ SharesAreDisjoint'
  BY <1>2, <1>8, <1>11 DEF AwardsInv, SharesAreTaken, SharesAreDisjoint, Taken
<1>14. OpenShares'
  BY <1>2, <1>11 DEF AwardsInv, OpenShares, Taken
<1>15. PlannedItemIsOrdered'
  <2> SUFFICES ASSUME NEW i \in Items, awardedBid[i] # NoBid
               PROVE  i \in orders'[awardedBid[i]]
    BY <1>2 DEF PlannedItemIsOrdered
  <2>1. awardedBid[i] \in Bids /\ i \in orders[awardedBid[i]]
    BY DEF AwardsInv, PlannedItemIsOrdered, RaceInv, TypeOK
  <2> QED
    BY <1>9, <2>1
<1> QED
  BY <1>12, <1>13, <1>14, <1>15 DEF AwardsInv

\* A plan accepts bids that had no order, on items that no bid had won.
LEMMA PlanKeepsAwards ==
  ASSUME RaceInv, AwardsInv, ReadsHold, [Next]_vars, NEW p \in Procs, PlanCommit(p)
  PROVE  AwardsInv'
<1> USE RowsAssumption
<1>p. /\ h[p].req \in Requests /\ h[p].sel \in [Items -> Bids \cup {NoBid}]
      /\ HandlerRows(h[p]) /\ Holds(h[p]) /\ h[p].at = "planCommit"
  <2>1. h[p] \in Handlers /\ HandlerRows(h[p]) /\ Holds(h[p]) /\ h[p].at = "planCommit"
    BY DEF PlanCommit, RaceInv, RowsInv, ReadsHold, TypeOK
  <2> QED
    BY <2>1, HandlerFields
<1>q. PICK r \in Requests, sel \in [Items -> Bids \cup {NoBid}], S \in SUBSET Items, W \in SUBSET Bids :
        r = h[p].req /\ sel = h[p].sel /\ S = Selected(sel) /\ W = Winners(sel)
  <2>1. Selected(h[p].sel) \in SUBSET Items /\ Winners(h[p].sel) \in SUBSET Bids
    BY <1>p DEF Selected, Winners
  <2> QED
    BY <1>p, <2>1
<1>w. /\ \A i \in S : sel[i] \in W
      /\ \A b \in W : \E i \in S : sel[i] = b
      /\ \A i \in Items : sel[i] \in Bids => i \in S
  BY <1>q DEF Selected, Winners
<1>1. /\ reqStatus[r] = "open"
      /\ \A i \in S : itemStatus[i] = "open" /\ ItemOf[i] = r
      /\ \A b \in W : bidStatus[b] = "active" /\ BidOn[b] = r
  BY <1>p, <1>q, <1>w DEF HandlerRows, Holds
<1>2. \A b \in Bids : Accepted(b)' <=> b \in W \/ Accepted(b)
  BY <1>1, <1>q DEF PlanCommit, Accepted, Losers, Active
<1>3. \A i \in Items :
        \/ itemStatus'[i] = itemStatus[i]
        \/ itemStatus[i] = "open" /\ itemStatus'[i] \in {"awarded", "cancelled"}
  BY <1>1, <1>q DEF PlanCommit, PlanItems
<1>4. \A i \in S : itemStatus'[i] = "awarded"
  BY <1>q DEF PlanCommit, PlanItems
<1>5. /\ bidCovers' = bidCovers
      /\ consumerAck' = consumerAck \cup W
      /\ \A x \in Requests : reqStatus'[x] = "open" => reqStatus[x] = "open" /\ x # r
      /\ \A i \in Items : awardedBid'[i] = IF i \in S THEN sel[i] ELSE awardedBid[i]
      /\ \A b \in Bids \ W : orders'[b] = orders[b]
  BY <1>1, <1>q DEF PlanCommit, PlanOrders, RaceInv, TypeOK
<1>6. \A b \in W : ~Accepted(b) /\ orders[b] = {}
  BY <1>1 DEF AwardsInv, OrderedAreAccepted, Accepted
<1>7. \A b \in W : orders'[b] = {i \in Items : sel[i] = b}
  BY <1>6, <1>q DEF PlanCommit, PlanOrders, OrderFor
<1>8. \A b \in W : Share(b)' = {i \in Items : sel[i] = b} /\ Share(b)' \subseteq S
  BY <1>7, <1>w DEF Share
<1>9. \A r0 \in Requests : (ItemsOf(r0))' = ItemsOf(r0)
  BY <1>3 DEF ItemsOf, RowsOf
<1>10. \A c \in Bids : Accepted(c) => c \notin W /\ Share(c)' = Share(c) /\ Share(c) \subseteq Items
  BY <1>5, <1>6, <1>9, ShareStays, AcceptedBid
<1>11. /\ \A i \in Items : Taken(i) => Taken(i)' /\ i \notin S
       /\ \A i \in S : Taken(i)'
       /\ \A i \in Items : itemStatus[i] = "deleted" => itemStatus'[i] = "deleted"
  BY <1>1, <1>3, <1>4 DEF Taken
<1>12. AckedAreAccepted' /\ OrderedAreAccepted'
  <2>1. AckedAreAccepted'
    BY <1>2, <1>5 DEF AwardsInv, AckedAreAccepted
  <2>2. OrderedAreAccepted'
    BY <1>2, <1>5 DEF AwardsInv, OrderedAreAccepted
  <2> QED
    BY <2>1, <2>2
<1>13. SharesAreTaken'
  <2> SUFFICES ASSUME NEW b \in Bids, Accepted(b)', NEW i \in Share(b)'
               PROVE  Taken(i)'
    BY DEF SharesAreTaken
  <2>1. CASE b \in W
    BY <1>8, <1>11, <2>1
  <2>2. CASE b \notin W
    BY <1>2, <1>10, <1>11, <2>2 DEF AwardsInv, SharesAreTaken
  <2> QED
    BY <2>1, <2>2
<1>14. SharesAreDisjoint'
  <2> SUFFICES ASSUME NEW b \in Bids, NEW c \in Bids, Accepted(b)', Accepted(c)', b # c,
                      NEW i \in Share(b)' \cap Share(c)'
               PROVE  itemStatus'[i] = "deleted"
    BY DEF SharesAreDisjoint
  <2>1. CASE b \in W /\ c \in W
    BY <1>8, <2>1
  <2>2. ASSUME NEW x \in Bids \ W, Accepted(x)', i \in Share(x)', i \in S
        PROVE  FALSE
    BY <1>2, <1>10, <1>11, <2>2 DEF AwardsInv, SharesAreTaken
  <2>3. CASE b \in W /\ c \notin W
    BY <1>8, <2>2, <2>3
  <2>4. CASE b \notin W /\ c \in W
    BY <1>8, <2>2, <2>4
  <2>5. CASE b \notin W /\ c \notin W
    BY <1>2, <1>10, <1>11, <2>5 DEF AwardsInv, SharesAreDisjoint
  <2> QED
    BY <2>1, <2>3, <2>4, <2>5
<1>15. OpenShares'
  <2> SUFFICES ASSUME NEW b \in Bids, Accepted(b)', reqStatus'[BidOn[b]] = "open"
               PROVE  bidCovers'[b] # {} /\ \A i \in bidCovers'[b] : Taken(i)'
    BY DEF OpenShares
  <2>1. b \notin W /\ Accepted(b) /\ reqStatus[BidOn[b]] = "open"
    BY <1>1, <1>2, <1>5
  <2> QED
    BY <1>5, <1>11, <2>1, AcceptedBid DEF AwardsInv, OpenShares
<1>16. PlannedItemIsOrdered'
  <2> SUFFICES ASSUME NEW i \in Items, awardedBid'[i] # NoBid
               PROVE  i \in orders'[awardedBid'[i]]
    BY DEF PlannedItemIsOrdered
  <2>1. CASE i \in S
    BY <1>5, <1>7, <1>w, <2>1
  <2>2. CASE i \notin S
    <3>1. awardedBid'[i] = awardedBid[i] /\ awardedBid[i] \in Bids
      BY <1>5, <2>2 DEF RaceInv, TypeOK
    <3>2. i \in orders[awardedBid[i]] /\ awardedBid[i] \notin W
      BY <1>6, <3>1 DEF AwardsInv, PlannedItemIsOrdered
    <3> QED
      BY <1>5, <3>1, <3>2
  <2> QED
    BY <2>1, <2>2
<1> QED
  BY <1>12, <1>13, <1>14, <1>15, <1>16 DEF AwardsInv

(***************************************************************************)
(* What a step writes, when it finds what its handler read.                 *)
(***************************************************************************)
Settles(b) ==
  /\ bidStatus[b] = "active"
  /\ \/ bidStatus'[b] \in {"withdrawn", "rejected", "expired"}
     \/ bidStatus'[b] = "accepted" /\ \E p \in Procs : AcceptCommit(p) \/ PlanCommit(p)

Inserted(b) ==
  /\ bidStatus[b] = "absent" /\ bidStatus'[b] = "active"
  /\ \E p \in Procs : PlaceInsert(p) /\ h[p].bid = b

\* A bid is inserted, settled while it is active, or left alone.
LEMMA StatusStep ==
  ASSUME RaceInv, ReadsHold, [Next]_vars, NEW b \in Bids
  PROVE  bidStatus'[b] = bidStatus[b] \/ Settles(b) \/ Inserted(b)
<1> DEFINE Step == bidStatus'[b] = bidStatus[b] \/ Settles(b) \/ Inserted(b)
<1> SUFFICES Step
  OBVIOUS
<1>h. \A p \in Procs : h[p] \in Handlers /\ Holds(h[p]) /\ HandlerBids(h[p])
  BY DEF RaceInv, TypeOK, ReadsHold, BidsInv
<1>1. CASE bidStatus' = bidStatus
  BY <1>1
<1>2. ASSUME NEW B, SetActive(B, "expired")
      PROVE  Step
  BY <1>2 DEF SetActive, Active, Settles
<1>3. ASSUME NEW p \in Procs, CancelWrite(p)
      PROVE  Step
  <2>1. CASE SetActive(BidsOn(h[p].req), "expired")
    BY <1>2, <2>1
  <2> QED
    BY <1>1, <1>3, <2>1 DEF CancelWrite
<1>4. ASSUME NEW p \in Procs, PlaceInsert(p)
      PROVE  Step
  <2>1. h[p].bid \in Bids /\ bidStatus[h[p].bid] = "absent"
    BY <1>4, <1>h, HandlerFields DEF PlaceInsert, HandlerBids
  <2>2. CASE b = h[p].bid
    BY <1>4, <2>1, <2>2 DEF PlaceInsert, Inserted
  <2>3. CASE b # h[p].bid
    BY <1>4, <2>3 DEF PlaceInsert, Active, Settles
  <2> QED
    BY <2>2, <2>3
<1>5. ASSUME NEW p \in Procs, WithdrawWrite(p) \/ RejectWrite(p)
      PROVE  Step
  <2>1. bidStatus[h[p].bid] = "active"
    BY <1>5, <1>h DEF WithdrawWrite, RejectWrite, CloseBid, Holds
  <2> QED
    BY <1>5, <2>1 DEF WithdrawWrite, RejectWrite, CloseBid, Settles, RaceInv, TypeOK
<1>6. ASSUME NEW p \in Procs, AcceptCommit(p)
      PROVE  Step
  <2>1. bidStatus[h[p].bid] = "active"
    BY <1>6, <1>h DEF AcceptCommit, Holds
  <2>2. bidStatus'[b] = bidStatus[b] \/ (bidStatus[b] = "active" /\ bidStatus'[b] \in {"accepted", "rejected"})
    BY <1>6, <2>1 DEF AcceptCommit, Losers, Active
  <2> QED
    BY <1>6, <2>2 DEF Settles
<1>7. ASSUME NEW p \in Procs, PlanCommit(p)
      PROVE  Step
  <2>1. b \in Winners(h[p].sel) => bidStatus[b] = "active"
    BY <1>7, <1>h DEF PlanCommit, Holds, Winners
  <2>2. bidStatus'[b] = bidStatus[b] \/ (bidStatus[b] = "active" /\ bidStatus'[b] \in {"accepted", "rejected"})
    BY <1>7, <2>1 DEF PlanCommit, Losers, Active
  <2> QED
    BY <1>7, <2>2 DEF Settles
<1>8. CASE Work
  <2>1. CASE WorkerFind \/ WorkerExpireRequests
    BY <1>1, <2>1 DEF WorkerFind, WorkerExpireRequests, bidVars
  <2>2. CASE WorkerExpireTheirBids
    BY <1>2, <2>2 DEF WorkerExpireTheirBids
  <2>3. CASE WorkerExpireBids
    BY <2>3 DEF WorkerExpireBids, ReadsHold, TickHolds, Settles
  <2> QED
    BY <1>8, <2>1, <2>2, <2>3 DEF Work
<1>9. ASSUME NEW p \in Procs, Handle(p)
      PROVE  Step
  <2>1. CASE \/ CancelWrite(p) \/ PlaceInsert(p) \/ WithdrawWrite(p) \/ RejectWrite(p)
            \/ AcceptCommit(p) \/ PlanCommit(p)
    BY <1>3, <1>4, <1>5, <1>6, <1>7, <2>1
  <2>2. CASE \/ PatchDelete(p) \/ PlaceExtend(p) \/ AcceptCheck(p) \/ AcceptLock(p)
            \/ CreateOrder(p) \/ PlanCheck(p) \/ Abort(p)
    BY <1>1, <2>2 DEF PatchDelete, PlaceExtend, AcceptCheck, AcceptLock, CreateOrder,
                      PlanCheck, Abort, bidVars
  <2>3. ASSUME NEW S \in SUBSET Items, PatchWrite(p, S)
        PROVE  Step
    BY <1>1, <2>3 DEF PatchWrite, bidVars
  <2> QED
    BY <1>1, <1>9, <2>1, <2>2, <2>3
    DEF Handle, PatchRead, CancelRead, PlanRead, PlaceRead, WithdrawRead, RejectRead,
        AcceptRead, Acknowledge, bidVars
<1> QED
  BY <1>1, <1>8, <1>9 DEF Next, Tick, CreateRequest, WorkerAbort, vars, bidVars

Closes(r) ==
  /\ reqStatus[r] = "open"
  /\ \/ reqStatus'[r] \in {"cancelled", "awarded"} /\ \A b \in BidsOn(r) : bidStatus'[b] # "active"
     \/ reqStatus'[r] = "expired" /\ liveEndsAt'[r] < now'

\* A request is created, closed while it is open, or left alone.
LEMMA OutcomeStep ==
  ASSUME RaceInv, ReadsHold, [Next]_vars, NEW r \in Requests
  PROVE  \/ reqStatus'[r] = reqStatus[r]
         \/ reqStatus[r] = "absent" /\ reqStatus'[r] = "open"
         \/ Closes(r)
<1> DEFINE Step == \/ reqStatus'[r] = reqStatus[r]
                   \/ reqStatus[r] = "absent" /\ reqStatus'[r] = "open"
                   \/ Closes(r)
<1> SUFFICES Step
  OBVIOUS
<1>h. \A p \in Procs : h[p] \in Handlers /\ Holds(h[p])
  BY DEF RaceInv, TypeOK, ReadsHold
<1>t. reqStatus \in [Requests -> ReqStatus]
  BY DEF RaceInv, TypeOK
<1>1. ASSUME NEW x \in Requests, NEW S \in SUBSET Items, CreateRequest(x, S)
      PROVE  Step
  BY <1>1, <1>t DEF CreateRequest
<1>2. ASSUME NEW p \in Procs, CancelWrite(p)
      PROVE  Step
  <2>1. CASE reqStatus[h[p].req] # "open"
    BY <1>2, <2>1 DEF CancelWrite
  <2>2. CASE /\ reqStatus[h[p].req] = "open"
             /\ reqStatus' = [reqStatus EXCEPT ![h[p].req] = "cancelled"]
             /\ SetActive(BidsOn(h[p].req), "expired")
    BY <1>t, <2>2 DEF SetActive, Active, BidsOn, Closes
  <2> QED
    BY <1>2, <2>1, <2>2 DEF CancelWrite
<1>3. ASSUME NEW p \in Procs, AcceptCommit(p)
      PROVE  Step
  <2>1. h[p].bid \in Bids /\ reqStatus[BidOn[h[p].bid]] = "open"
    BY <1>3, <1>h, HandlerFields DEF AcceptCommit, Holds
  <2>2. CASE h[p].awards = "all" /\ r = BidOn[h[p].bid]
    BY <1>3, <1>t, <2>1, <2>2 DEF AcceptCommit, Losers, Active, BidsOn, Closes
  <2>3. CASE h[p].awards # "all" \/ r # BidOn[h[p].bid]
    BY <1>3, <1>t, <2>3 DEF AcceptCommit
  <2> QED
    BY <2>2, <2>3
<1>4. ASSUME NEW p \in Procs, PlanCommit(p)
      PROVE  Step
  <2>1. reqStatus[h[p].req] = "open"
    BY <1>4, <1>h DEF PlanCommit, Holds
  <2>2. CASE r = h[p].req
    <3>1. \A b \in BidsOn(r) : bidStatus'[b] # "active"
      BY <1>4, <2>2 DEF PlanCommit, Losers, Active, BidsOn
    <3> QED
      BY <1>4, <1>t, <2>1, <2>2, <3>1 DEF PlanCommit, Closes
  <2>3. CASE r # h[p].req
    BY <1>4, <1>t, <2>3 DEF PlanCommit
  <2> QED
    BY <2>2, <2>3
<1>5. CASE WorkerExpireRequests
  <2>1. r \in worker.reqs => reqStatus[r] = "open" /\ liveEndsAt[r] < now
    BY <1>5 DEF WorkerExpireRequests, ReadsHold, TickHolds
  <2> QED
    BY <1>5, <2>1 DEF WorkerExpireRequests, Closes
<1> QED
  BY <1>1, <1>2, <1>3, <1>4, <1>5, RequestWriters

LEMMA AwardWriters ==
  ASSUME [Next]_vars
  PROVE  awardedBid' = awardedBid \/ \E p \in Procs : PlanCommit(p)
<1> USE DEF itemVars
<1>1. ASSUME NEW p \in Procs, Handle(p), ~PlanCommit(p)
      PROVE  awardedBid' = awardedBid
  <2>1. CASE PatchDelete(p) \/ CancelWrite(p) \/ PlaceExtend(p) \/ PlaceInsert(p)
             \/ WithdrawWrite(p) \/ RejectWrite(p) \/ AcceptCheck(p) \/ AcceptLock(p)
             \/ AcceptCommit(p) \/ CreateOrder(p) \/ PlanCheck(p) \/ Abort(p)
    BY <2>1 DEF PatchDelete, CancelWrite, PlaceExtend, PlaceInsert, WithdrawWrite, RejectWrite,
        CloseBid, AcceptCheck, AcceptLock, AcceptCommit, CreateOrder, PlanCheck, Abort
  <2> QED
    BY <1>1, <2>1 DEF Handle, PatchRead, CancelRead, PlanRead, PlaceRead, WithdrawRead, RejectRead,
        AcceptRead, Acknowledge, PatchWrite
<1>2. CASE Work
  BY <1>2 DEF Work, WorkerFind, WorkerExpireRequests, WorkerExpireTheirBids, WorkerExpireBids
<1> QED
  BY <1>1, <1>2 DEF Next, Tick, CreateRequest, WorkerAbort, vars

\* Unless an award commits, items are only created or edited, and only of a request
\* that is created or open.
LEMMA ItemsKept ==
  ASSUME RaceInv, ReadsHold, [Next]_vars, NEW i \in Items,
         \A p \in Procs : ~AcceptCommit(p) /\ ~PlanCommit(p)
  PROVE  ItemKept(i)
<1> USE RowsAssumption
<1>1. CASE itemStatus' = itemStatus
  BY <1>1 DEF ItemKept, Taken
<1>2. ASSUME NEW r \in Requests, NEW S \in SUBSET Items, CreateRequest(r, S)
      PROVE  ItemKept(i)
  BY <1>2 DEF CreateRequest, RaceInv, RowsInv, ItemsHaveRequest, RowsOf, ItemKept, Taken
<1>3. ASSUME NEW p \in Procs, NEW S \in SUBSET Items, PatchWrite(p, S)
      PROVE  ItemKept(i)
  <2>1. /\ reqStatus[h[p].req] = "open"
        /\ \A j \in h[p].rows : ItemOf[j] = h[p].req
    BY <1>3 DEF PatchWrite, ReadsHold, Holds, RaceInv, RowsInv, HandlerRows, RowsOf
  <2>2. \A j \in S : ItemOf[j] = h[p].req /\ itemStatus[j] = "absent"
    BY <1>3 DEF PatchWrite, RowsOf
  <2> QED
    BY <1>3, <2>1, <2>2 DEF PatchWrite, ItemKept, Taken
<1> QED
  BY <1>1, <1>2, <1>3, ItemWriters

LEMMA AwardsNext ==
  ASSUME RaceInv, AwardsInv, ReadsHold, [Next]_vars
  PROVE  AwardsInv'
<1>1. CASE \E p \in Procs : AcceptCommit(p) \/ CreateOrder(p) \/ PlanCommit(p)
  BY <1>1, AcceptKeepsAwards, OrderKeepsAwards, PlanKeepsAwards
<1>2. CASE \A p \in Procs : ~AcceptCommit(p) /\ ~CreateOrder(p) /\ ~PlanCommit(p)
  <2>1. UNCHANGED <<consumerAck, orders, awardedBid>>
    BY <1>2, AckSteps, OrderWriters, AwardWriters
  <2>2. \A b \in Bids : Accepted(b)' <=> Accepted(b)
    BY <1>2, StatusStep DEF Settles, Inserted, Accepted
  <2>3. \A i \in Items : ItemKept(i)
    BY <1>2, ItemsKept
  <2>4. \A r \in Requests : reqStatus'[r] = "open" => reqStatus[r] \in {"absent", "open"}
    BY OutcomeStep DEF Closes
  <2> QED
    BY <2>1, <2>2, <2>3, <2>4, FrameKeepsAwards DEF AwardsFrame
<1> QED
  BY <1>1, <1>2

(***************************************************************************)
(* Live bids.                                                              *)
(***************************************************************************)
LEMMA ActiveStep ==
  ASSUME RaceInv, ReadsHold, [Next]_vars, NEW b \in Bids, bidStatus'[b] = "active"
  PROVE  bidStatus[b] = "active" \/ Inserted(b)
  BY StatusStep DEF Settles

\* The insert expires what a supplier has left on the request.
LEMMA OneActiveNext ==
  ASSUME RaceInv, ReadsHold, OneActiveBid, [Next]_vars
  PROVE  OneActiveBid'
<1>1. ASSUME NEW b \in Bids, NEW c \in Bids, Inserted(b), c # b,
             BidOn[c] = BidOn[b], BidBy[c] = BidBy[b]
      PROVE  bidStatus'[c] # "active"
  <2>1. PICK p \in Procs : PlaceInsert(p) /\ h[p].bid = b
    BY <1>1 DEF Inserted
  <2>2. c \in OwnBids(b)
    BY <1>1 DEF OwnBids, BidsOn
  <2>3. h[p].since \in Nat /\ expiresAt[c] \in Nat /\ ~LiveAt(c, h[p].since)
    BY <2>1, <2>2, HandlerFields DEF PlaceInsert, ReadsHold, Holds, RaceInv, TypeOK
  <2>4. bidStatus[c] = "active" => expiresAt[c] <= h[p].since
    BY <2>3 DEF LiveAt
  <2> QED
    BY <1>1, <2>1, <2>2, <2>4 DEF PlaceInsert, Active
<1> SUFFICES ASSUME NEW b \in Bids, NEW c \in Bids, bidStatus'[b] = "active", bidStatus'[c] = "active",
                    BidOn[b] = BidOn[c], BidBy[b] = BidBy[c]
             PROVE  b = c
  BY DEF OneActiveBid
<1>2. CASE Inserted(b) \/ Inserted(c)
  BY <1>1, <1>2
<1>3. CASE ~Inserted(b) /\ ~Inserted(c)
  BY <1>3, ActiveStep DEF OneActiveBid
<1> QED
  BY <1>2, <1>3

\* Only creating a request and placing a bid on an open one write an auction's end.
LEMMA EndStep ==
  ASSUME RaceInv, ReadsHold, [Next]_vars, NEW r \in Requests, reqStatus[r] \notin {"absent", "open"}
  PROVE  liveEndsAt'[r] = liveEndsAt[r]
<1> USE DEF reqVars
<1>1. ASSUME NEW p \in Procs, PlaceExtend(p)
      PROVE  liveEndsAt'[r] = liveEndsAt[r]
  <2>1. reqStatus[BidOn[h[p].bid]] = "open"
    BY <1>1 DEF PlaceExtend, ReadsHold, Holds
  <2> QED
    BY <1>1, <2>1 DEF PlaceExtend, RaceInv, TypeOK
<1>2. ASSUME NEW p \in Procs, Handle(p), ~PlaceExtend(p)
      PROVE  liveEndsAt' = liveEndsAt
  <2>1. CASE PatchDelete(p) \/ CancelWrite(p) \/ PlaceInsert(p)
             \/ WithdrawWrite(p) \/ RejectWrite(p) \/ AcceptCheck(p) \/ AcceptLock(p)
             \/ AcceptCommit(p) \/ CreateOrder(p) \/ PlanCheck(p) \/ PlanCommit(p) \/ Abort(p)
    BY <2>1 DEF PatchDelete, CancelWrite, PlaceInsert, WithdrawWrite, RejectWrite, CloseBid,
        AcceptCheck, AcceptLock, AcceptCommit, CreateOrder, PlanCheck, PlanCommit, Abort
  <2> QED
    BY <1>2, <2>1 DEF Handle, PatchRead, CancelRead, PlanRead, PlaceRead, WithdrawRead, RejectRead,
        AcceptRead, Acknowledge, PatchWrite
<1>3. ASSUME NEW x \in Requests, NEW S \in SUBSET Items, CreateRequest(x, S)
      PROVE  liveEndsAt'[r] = liveEndsAt[r]
  BY <1>3 DEF CreateRequest, RaceInv, TypeOK
<1>4. CASE Work
  BY <1>4 DEF Work, WorkerFind, WorkerExpireRequests, WorkerExpireTheirBids, WorkerExpireBids
<1> QED
  BY <1>1, <1>2, <1>3, <1>4 DEF Next, Tick, WorkerAbort, vars

LEMMA ClockStep ==
  ASSUME TypeOK, [Next]_vars
  PROVE  now' \in Nat /\ now' >= now
<1>1. ASSUME NEW p \in Procs, Handle(p)
      PROVE  now' = now
  <2>1. CASE PatchDelete(p) \/ CancelWrite(p) \/ PlaceExtend(p) \/ PlaceInsert(p)
             \/ WithdrawWrite(p) \/ RejectWrite(p) \/ AcceptCheck(p) \/ AcceptLock(p)
             \/ AcceptCommit(p) \/ CreateOrder(p) \/ PlanCheck(p) \/ PlanCommit(p) \/ Abort(p)
    BY <2>1 DEF PatchDelete, CancelWrite, PlaceExtend, PlaceInsert, WithdrawWrite, RejectWrite,
        CloseBid, AcceptCheck, AcceptLock, AcceptCommit, CreateOrder, PlanCheck, PlanCommit, Abort
  <2> QED
    BY <1>1, <2>1 DEF Handle, PatchRead, CancelRead, PlanRead, PlaceRead, WithdrawRead, RejectRead,
        AcceptRead, Acknowledge, PatchWrite
<1>2. CASE Work
  BY <1>2 DEF Work, WorkerFind, WorkerExpireRequests, WorkerExpireTheirBids, WorkerExpireBids, TypeOK
<1> QED
  BY <1>1, <1>2 DEF Next, Tick, CreateRequest, WorkerAbort, vars, TypeOK

LEMMA ActiveOpenNext ==
  ASSUME RaceInv, ReadsHold, ActiveBidsAreOpen, [Next]_vars
  PROVE  ActiveBidsAreOpen'
<1> SUFFICES ASSUME NEW b \in Bids, bidStatus'[b] = "active"
             PROVE  \/ reqStatus'[BidOn[b]] = "open"
                    \/ reqStatus'[BidOn[b]] = "expired" /\ liveEndsAt'[BidOn[b]] < now'
  BY DEF ActiveBidsAreOpen
<1>r. BidOn[b] \in Requests /\ liveEndsAt[BidOn[b]] \in Nat /\ now \in Nat
  BY RowsAssumption DEF RaceInv, TypeOK
<1>1. CASE Inserted(b)
  <2>1. PICK p \in Procs : PlaceInsert(p) /\ h[p].bid = b
    BY <1>1 DEF Inserted
  <2> QED
    BY <2>1 DEF PlaceInsert, ReadsHold, Holds, reqVars
<1>2. CASE bidStatus[b] = "active" /\ reqStatus[BidOn[b]] = "open"
  <2>1. b \in BidsOn(BidOn[b])
    BY DEF BidsOn
  <2> QED
    BY <1>r, <1>2, <2>1, OutcomeStep DEF Closes
<1>3. CASE reqStatus[BidOn[b]] = "expired" /\ liveEndsAt[BidOn[b]] < now
  <2>1. reqStatus'[BidOn[b]] = "expired" /\ liveEndsAt'[BidOn[b]] = liveEndsAt[BidOn[b]]
    BY <1>r, <1>3, OutcomeStep, EndStep DEF Closes
  <2>2. now' \in Nat /\ now' >= now
    BY ClockStep DEF RaceInv
  <2> QED
    BY <1>r, <1>3, <2>1, <2>2
<1> QED
  BY <1>1, <1>2, <1>3, ActiveStep DEF ActiveBidsAreOpen

(***************************************************************************)
(* What a handler has read still holds at its next step.                    *)
(***************************************************************************)
\* Time passes and requests appear between two of its steps.
LEMMA HoldsStays ==
  ASSUME RaceInv, NEW s \in Handlers, HandlerRows(s), Holds(s),
         UNCHANGED bidVars,
         \A i \in Items : itemStatus'[i] = itemStatus[i] \/ reqStatus[ItemOf[i]] = "absent",
         \A r \in Requests : reqStatus[r] # "absent" => reqStatus'[r] = reqStatus[r]
  PROVE  Holds(s)'
<1> USE RowsAssumption, HandlerFields
<1>1. s.at \in {"placeExtend", "placeInsert"} =>
        reqStatus'[BidOn[s.bid]] = "open" /\ \A c \in OwnBids(s.bid) : ~LiveAt(c, s.since)'
  BY DEF Holds, OwnBids, BidsOn, LiveAt, bidVars
<1>2. s.at \in {"withdraw", "reject"} => bidStatus'[s.bid] = "active"
  BY DEF Holds, bidVars
<1>3. ASSUME s.at \in {"acceptLock", "acceptCommit"}
      PROVE  /\ reqStatus'[BidOn[s.bid]] = "open"
             /\ bidStatus'[s.bid] = "active"
             /\ s.items = Covers(s.bid)'
             /\ Awarded(s.items)' = {}
             /\ bidCovers'[s.bid] = bidCovers[s.bid]
  <2>1. /\ s.bid \in Bids /\ s.items \in SUBSET Items /\ BidOn[s.bid] \in Requests
        /\ reqStatus[BidOn[s.bid]] = "open" /\ bidStatus[s.bid] = "active"
        /\ s.items = Covers(s.bid) /\ Awarded(s.items) = {}
        /\ s.items \subseteq RowsOf(BidOn[s.bid])
    BY <1>3 DEF Holds, HandlerRows
  <2>2. \A i \in RowsOf(BidOn[s.bid]) : itemStatus'[i] = itemStatus[i]
    BY <2>1 DEF RowsOf
  <2>3. (ItemsOf(BidOn[s.bid]))' = ItemsOf(BidOn[s.bid])
    BY <2>2 DEF ItemsOf, RowsOf
  <2>4. Covers(s.bid)' = Covers(s.bid)
    BY <2>3 DEF Covers, bidVars
  <2> QED
    BY <2>1, <2>2, <2>4 DEF Awarded, bidVars
<1>4. ASSUME s.at \in {"planCheck", "planCommit"}
      PROVE  /\ reqStatus'[s.req] = "open"
             /\ \A i \in Selected(s.sel) : itemStatus'[i] = "open" /\ bidStatus'[s.sel[i]] = "active"
  BY <1>4 DEF Holds, Selected, HandlerRows, bidVars
<1>5. s.at \in {"cancel", "patch", "patchWrite"} => reqStatus'[s.req] = "open"
  BY DEF Holds
<1> QED
  BY <1>1, <1>2, <1>3, <1>4, <1>5 DEF Holds, OwnBids, BidsOn

LEMMA TimePassesReads ==
  ASSUME RaceInv, ReadsHold, Tick \/ \E r \in Requests, S \in SUBSET Items : CreateRequest(r, S)
  PROVE  ReadsHold'
<1> USE DEF reqVars, itemVars
<1>1. /\ UNCHANGED <<h, worker, bidVars>>
      /\ \A i \in Items : itemStatus'[i] = itemStatus[i] \/ reqStatus[ItemOf[i]] = "absent"
      /\ \A r \in Requests : reqStatus[r] # "absent" =>
           reqStatus'[r] = reqStatus[r] /\ liveEndsAt'[r] = liveEndsAt[r]
      /\ now' \in Nat /\ now' >= now
  BY DEF Tick, CreateRequest, RowsOf, RaceInv, TypeOK
<1>2. \A p \in Procs : Holds(h[p])'
  <2> SUFFICES ASSUME NEW p \in Procs
               PROVE  Holds(h[p])'
    OBVIOUS
  <2>1. PICK s \in Handlers : s = h[p]
    BY DEF RaceInv, TypeOK
  <2>2. Holds(s)'
    BY <1>1, <2>1, HoldsStays DEF ReadsHold, RaceInv, RowsInv
  <2>3. h'[p] = s
    BY <1>1, <2>1
  <2> QED
    BY <2>2, <2>3 DEF Holds
<1>3. TickHolds(worker)'
  <2>1. ASSUME worker.at = "expireRequests", NEW r \in worker.reqs
        PROVE  reqStatus'[r] = "open" /\ liveEndsAt'[r] < now'
    <3>1. r \in Requests /\ reqStatus[r] = "open" /\ liveEndsAt[r] < now
      BY <2>1 DEF ReadsHold, TickHolds, RaceInv, TypeOK, Ticks, Idle
    <3>2. liveEndsAt[r] \in Nat /\ now \in Nat
      BY <3>1 DEF RaceInv, TypeOK
    <3> QED
      BY <1>1, <3>1, <3>2
  <2>2. worker.at = "expireBids" => \A b \in worker.bids : bidStatus'[b] = "active"
    BY <1>1 DEF ReadsHold, TickHolds, bidVars
  <2> QED
    BY <1>1, <2>1, <2>2 DEF TickHolds
<1> QED
  BY <1>2, <1>3 DEF ReadsHold

\* The other slots, and the timer, are idle.
LEMMA SlotHolds ==
  ASSUME Overlap = FALSE, TypeOK, Alone, NEW p \in Procs, Handle(p), Holds(h[p])'
  PROVE  ReadsHold'
<1>1. worker' = Idle /\ \A q \in Procs \ {p} : h'[q] = Idle
  BY Solo
<1>2. \A q \in Procs \ {p} : Holds(h[q])'
  BY <1>1 DEF Holds, Idle
<1> QED
  BY <1>1, <1>2 DEF ReadsHold, TickHolds, Idle

\* A handler that starts has read what Holds says of its first step.
LEMMA StartHolds ==
  ASSUME RaceInv, AwardsInv, NEW p \in Procs, NEW r \in Requests, NEW b \in Bids,
         NEW sel \in [Items -> Bids \cup {NoBid}], NEW covers \in SUBSET Items,
         \/ PatchRead(p, r) \/ CancelRead(p, r) \/ PlanRead(p, r, sel) \/ PlaceRead(p, b, covers)
         \/ WithdrawRead(p, b) \/ RejectRead(p, b) \/ AcceptRead(p, b) \/ Acknowledge(p, b)
  PROVE  Holds(h[p])'
<1> USE DEF Start, reqVars, itemVars, bidVars
<1>t. h \in [Procs -> Handlers]
  BY DEF RaceInv, TypeOK
<1>1. CASE PatchRead(p, r) \/ CancelRead(p, r)
  BY <1>t, <1>1 DEF PatchRead, CancelRead, Holds
<1>2. CASE WithdrawRead(p, b) \/ RejectRead(p, b) \/ AcceptRead(p, b) \/ Acknowledge(p, b)
  BY <1>t, <1>2 DEF WithdrawRead, RejectRead, AcceptRead, Acknowledge, Holds, StillLive, LiveAt
<1>3. CASE PlaceRead(p, b, covers)
  <2>1. /\ h'[p].at = "placeExtend" /\ h'[p].bid = b /\ h'[p].since = now
        /\ reqStatus[BidOn[b]] = "open" /\ \A c \in OwnBids(b) : ~StillLive(c)
        /\ UNCHANGED <<reqStatus, bidStatus, expiresAt>>
    BY <1>t, <1>3 DEF PlaceRead
  <2> QED
    BY <2>1 DEF Holds, StillLive, LiveAt, OwnBids, BidsOn
<1>4. CASE PlanRead(p, r, sel)
  <2>1. /\ h'[p].at = "planCheck" /\ h'[p].req = r /\ h'[p].sel = sel
        /\ reqStatus[r] = "open" /\ Plannable(r, sel)
        /\ UNCHANGED <<reqStatus, itemStatus, bidStatus>>
    BY <1>t, <1>4 DEF PlanRead
  <2>2. ASSUME NEW i \in Selected(sel)
        PROVE  itemStatus[i] = "open" /\ bidStatus[sel[i]] = "active"
    <3>1. /\ itemStatus[i] = "open" /\ sel[i] \in Bids /\ BidOn[sel[i]] = r
          /\ bidStatus[sel[i]] \in {"active", "accepted"} /\ i \in bidCovers[sel[i]]
      BY <2>1, <2>2 DEF Plannable, OpenItems, Selected, StillLive, LiveAt
    <3>2. ~Accepted(sel[i])
      BY <2>1, <3>1 DEF AwardsInv, OpenShares, Taken
    <3> QED
      BY <3>1, <3>2 DEF Accepted
  <2> QED
    BY <2>1, <2>2 DEF Holds, Selected
<1> QED
  BY <1>1, <1>2, <1>3, <1>4

\* A handler that goes on keeps what it read, and adds what its transaction reads.
LEMMA GoOnHolds ==
  ASSUME RaceInv, ReadsHold, NEW p \in Procs,
         \/ PatchDelete(p) \/ PlaceExtend(p) \/ AcceptCheck(p) \/ AcceptLock(p)
         \/ PlanCheck(p)
  PROVE  Holds(h[p])'
<1> USE DEF Goto, End, reqVars, itemVars, bidVars
<1>t. /\ h \in [Procs -> Handlers] /\ h[p] \in Handlers
      /\ Holds(h[p]) /\ HandlerRows(h[p])
  BY DEF RaceInv, TypeOK, ReadsHold, RowsInv
<1>e. ASSUME h'[p] = Idle
      PROVE  Holds(h[p])'
  BY <1>e DEF Holds, Idle
<1>1. CASE PatchDelete(p)
  BY <1>t, <1>1 DEF PatchDelete, Holds
<1>2. CASE PlaceExtend(p)
  <2>1. CASE End(p)
    BY <1>t, <1>e, <2>1
  <2>2. CASE ~End(p)
    <3>1. /\ h'[p].at = "placeInsert" /\ h'[p].bid = h[p].bid /\ h'[p].since = h[p].since
          /\ h[p].at = "placeExtend"
          /\ UNCHANGED <<reqStatus, bidStatus, expiresAt>>
      BY <1>t, <1>2, <2>2 DEF PlaceExtend
    <3> QED
      BY <1>t, <3>1 DEF Holds, LiveAt, OwnBids, BidsOn
  <2> QED
    BY <2>1, <2>2
<1>3. CASE AcceptCheck(p)
  <2>1. CASE ~Acceptable(h[p].bid)
    BY <1>t, <1>e, <1>3, <2>1 DEF AcceptCheck
  <2>2. CASE Acceptable(h[p].bid)
    <3>1. /\ h[p].bid \in Bids /\ h'[p].at = "acceptLock" /\ h'[p].bid = h[p].bid
          /\ h'[p].items = Covers(h[p].bid)
          /\ UNCHANGED <<reqStatus, itemStatus, bidStatus, bidCovers>>
      BY <1>t, <1>3, <2>2, HandlerFields DEF AcceptCheck
    <3>2. Covers(h[p].bid) \subseteq RowsOf(BidOn[h[p].bid])
      BY <3>1 DEF Covers, ItemsOf, RaceInv, RowsInv, CoversOwnRequest
    <3>3. Awarded(Covers(h[p].bid)) = {}
      BY <2>2, <3>2 DEF Acceptable, Awarded, ItemsOf
    <3> QED
      BY <2>2, <3>1, <3>3 DEF Holds, Acceptable, StillLive, LiveAt, Covers, ItemsOf, RowsOf, Awarded
  <2> QED
    BY <2>1, <2>2
<1>4. CASE AcceptLock(p)
  <2>1. /\ h[p].at = "acceptLock" /\ h[p].bid \in Bids /\ h'[p].at = "acceptCommit"
        /\ h'[p].bid = h[p].bid /\ h'[p].items = h[p].items
        /\ h'[p].awards = IF AllAwardedBeside(BidOn[h[p].bid], h[p].items) THEN "all" ELSE "some"
        /\ UNCHANGED <<reqStatus, itemStatus, bidStatus, bidCovers>>
    BY <1>t, <1>4, HandlerFields DEF AcceptLock
  <2>2. /\ reqStatus[BidOn[h[p].bid]] = "open" /\ bidStatus[h[p].bid] = "active"
        /\ h[p].items = Covers(h[p].bid) /\ Awarded(h[p].items) = {}
    BY <1>t, <2>1 DEF Holds
  <2>3. ASSUME bidCovers[h[p].bid] = {}
        PROVE  AllAwardedBeside(BidOn[h[p].bid], h[p].items)
    BY <2>2, <2>3 DEF AllAwardedBeside, Awarded, Covers
  <2> QED
    BY <2>1, <2>2, <2>3 DEF Holds, Covers, ItemsOf, RowsOf, Awarded
<1>5. CASE PlanCheck(p)
  <2>1. CASE ~PlanValid(h[p])
    BY <1>t, <1>e, <1>5, <2>1 DEF PlanCheck
  <2>2. CASE PlanValid(h[p])
    <3>1. /\ h[p].at = "planCheck" /\ h'[p].at = "planCommit"
          /\ h'[p].req = h[p].req /\ h'[p].sel = h[p].sel
          /\ UNCHANGED <<reqStatus, itemStatus, bidStatus>>
      BY <1>t, <1>5, <2>2 DEF PlanCheck
    <3> QED
      BY <1>t, <3>1 DEF Holds, Selected
  <2> QED
    BY <2>1, <2>2
<1> QED
  BY <1>1, <1>2, <1>3, <1>4, <1>5

LEMMA HandlerReads ==
  ASSUME Overlap = FALSE, RaceInv, Alone, AwardsInv, ReadsHold, NEW p \in Procs, Handle(p)
  PROVE  ReadsHold'
<1>t. TypeOK /\ h \in [Procs -> Handlers]
  BY DEF RaceInv, TypeOK
<1> SUFFICES Holds(h[p])'
  BY <1>t, SlotHolds
<1>1. CASE PatchDelete(p) \/ PlaceExtend(p) \/ AcceptCheck(p) \/ AcceptLock(p) \/ PlanCheck(p)
  BY <1>1, GoOnHolds
<1>2. CASE \/ CancelWrite(p) \/ PlaceInsert(p) \/ WithdrawWrite(p) \/ RejectWrite(p)
           \/ AcceptCommit(p) \/ CreateOrder(p) \/ PlanCommit(p) \/ Abort(p)
           \/ \E S \in SUBSET Items : PatchWrite(p, S)
  <2>1. h'[p].at \in {"idle", "createOrder"}
    BY <1>t, <1>2 DEF CancelWrite, PlaceInsert, WithdrawWrite, RejectWrite, CloseBid, AcceptCommit,
           CreateOrder, PlanCommit, Abort, PatchWrite, End, Goto, Idle
  <2> QED
    BY <2>1 DEF Holds
<1>3. ASSUME NEW r \in Requests, PatchRead(p, r) \/ CancelRead(p, r)
      PROVE  Holds(h[p])'
  BY <1>t, <1>3 DEF PatchRead, CancelRead, Start, reqVars, Holds
<1>4. ASSUME NEW r \in Requests, NEW sel \in [Items -> Bids \cup {NoBid}], PlanRead(p, r, sel)
      PROVE  Holds(h[p])'
  <2>1. PICK i \in Items : sel[i] \in Bids
    BY <1>4 DEF PlanRead, Plannable, Selected
  <2> QED
    BY <1>4, <2>1, StartHolds
<1>5. ASSUME NEW b \in Bids, NEW covers \in SUBSET Items,
             \/ PlaceRead(p, b, covers) \/ WithdrawRead(p, b) \/ RejectRead(p, b)
             \/ AcceptRead(p, b) \/ Acknowledge(p, b)
      PROVE  Holds(h[p])'
  <2>1. BidOn[b] \in Requests /\ [i \in Items |-> NoBid] \in [Items -> Bids \cup {NoBid}]
    BY RowsAssumption
  <2> QED
    BY <1>5, <2>1, StartHolds
<1> QED
  BY <1>1, <1>2, <1>3, <1>4, <1>5 DEF Handle

LEMMA TickReads ==
  ASSUME Overlap = FALSE, RaceInv, Alone, Work \/ WorkerAbort
  PROVE  ReadsHold'
<1> USE DEF reqVars, itemVars, bidVars
<1>1. \A p \in Procs : Holds(h[p])'
  <2>1. \A p \in Procs : h'[p] = Idle
    BY SoloTick
  <2> QED
    BY <2>1 DEF Holds, Idle
<1>2. ASSUME NEW bids, \A b \in bids : bidStatus'[b] = "active", worker' = SweepBids(bids)
      PROVE  TickHolds(worker)'
  <2>1. CASE bids = {}
    BY <1>2, <2>1 DEF SweepBids, TickHolds, Idle
  <2>2. CASE bids # {}
    BY <1>2, <2>2 DEF SweepBids, TickHolds
  <2> QED
    BY <2>1, <2>2
<1>3. ASSUME WorkerFind
      PROVE  TickHolds(worker)'
  <2>1. CASE Overdue(now) = {}
    <3>1. \A b \in StaleBids(now) : bidStatus'[b] = "active"
      BY <1>3 DEF WorkerFind, StaleBids
    <3> QED
      BY <1>2, <1>3, <2>1, <3>1 DEF WorkerFind
  <2>2. CASE Overdue(now) # {}
    BY <1>3, <2>2 DEF WorkerFind, Overdue, TickHolds
  <2> QED
    BY <2>1, <2>2
<1>4. ASSUME WorkerExpireRequests
      PROVE  TickHolds(worker)'
  BY <1>4 DEF WorkerExpireRequests, TickHolds
<1>5. ASSUME WorkerExpireTheirBids
      PROVE  TickHolds(worker)'
  <2>1. PICK bids : /\ bids = {b \in Bids : BidOn[b] \in worker.reqs}
                    /\ SetActive(bids, "expired")
                    /\ worker' = SweepBids(StaleBids(worker.since) \ bids)
    BY <1>5 DEF WorkerExpireTheirBids
  <2>2. \A b \in StaleBids(worker.since) \ bids : bidStatus'[b] = "active"
    BY <2>1 DEF SetActive, Active, StaleBids
  <2> QED
    BY <1>2, <2>1, <2>2
<1>6. ASSUME WorkerExpireBids \/ WorkerAbort
      PROVE  TickHolds(worker)'
  BY <1>6 DEF WorkerExpireBids, WorkerAbort, TickHolds, Idle
<1> QED
  BY <1>1, <1>3, <1>4, <1>5, <1>6 DEF Work, ReadsHold

LEMMA ReadsNext ==
  ASSUME Overlap = FALSE, RaceInv, Alone, AwardsInv, ReadsHold, [Next]_vars
  PROVE  ReadsHold'
<1>1. CASE UNCHANGED vars
  <2>1. \A p \in Procs : Holds(h[p])'
    BY <1>1 DEF vars, reqVars, itemVars, bidVars, ReadsHold, Holds, OwnBids, BidsOn, LiveAt,
                Covers, ItemsOf, RowsOf, Awarded, Selected
  <2>2. TickHolds(worker)'
    BY <1>1 DEF vars, reqVars, itemVars, bidVars, ReadsHold, TickHolds
  <2> QED
    BY <2>1, <2>2 DEF ReadsHold
<1> QED
  BY <1>1, TimePassesReads, HandlerReads, TickReads DEF Next

LEMMA SerialNext ==
  ASSUME Overlap = FALSE, RaceInv, SerialInv, [Next]_vars
  PROVE  SerialInv'
  BY AloneNext, AwardsNext, OneActiveNext, ActiveOpenNext, ReadsNext DEF SerialInv, RaceInv

LEMMA SerialHolds ==
  ASSUME Overlap = FALSE
  PROVE  Spec => [](RaceInv /\ SerialInv)
<1>1. Init => RaceInv /\ SerialInv
  BY TypeInit, EndsInit, RowsInit, BidsInit, SerialInit DEF RaceInv
<1>2. RaceInv /\ [Next]_vars => RaceInv'
  BY TypeNext, EndsNext, RowsNext, BidsNext DEF RaceInv
<1>3. RaceInv /\ SerialInv /\ [Next]_vars => SerialInv'
  BY SerialNext
<1> QED
  BY <1>1, <1>2, <1>3, PTL DEF Spec

(***************************************************************************)
(* The theorems.  The runs of races show that each fails when handlers      *)
(* overlap; the crash between an award and its order does not break them.   *)
(***************************************************************************)
\* Each item has one winner: accept, award-plan and the acknowledgements that create
\* a missing order (orders/service.ts) never give it to two bids.
THEOREM ItemsHaveOneOrder ==
  ASSUME Overlap = FALSE
  PROVE  Spec => []OneOrderPerItem
<1>1. AwardsInv => OneOrderPerItem
  BY DEF AwardsInv, OrderedAreAccepted, SharesAreDisjoint, Share, OneOrderPerItem
<1> QED
  BY <1>1, SerialHolds, PTL DEF SerialInv

\* The winner of a plan's item has it in its order: award-plan in bidzone/routes.ts.
THEOREM PlannedItemsAreOrdered ==
  ASSUME Overlap = FALSE
  PROVE  Spec => []PlannedItemIsOrdered
  BY SerialHolds, PTL DEF SerialInv, AwardsInv

\* The handlers that award or cancel a request, and the tick that expires it, leave no
\* live bid on it, even when the tick crashes before it has expired the bids.
THEOREM ClosedRequestsHaveNoLiveBid ==
  ASSUME Overlap = FALSE
  PROVE  Spec => []ClosedRequestHasNoLiveBid
<1>1. ASSUME RaceInv, ActiveBidsAreOpen
      PROVE  ClosedRequestHasNoLiveBid
  <2> SUFFICES ASSUME NEW b \in Bids, StillLive(b), reqStatus[BidOn[b]] # "open"
               PROVE  FALSE
    BY DEF ClosedRequestHasNoLiveBid
  <2>1. /\ expiresAt[b] \in Nat /\ liveEndsAt[BidOn[b]] \in Nat /\ now \in Nat
        /\ expiresAt[b] <= liveEndsAt[BidOn[b]]
    BY <1>1, RowsAssumption DEF RaceInv, TypeOK, EndsInv
  <2>2. liveEndsAt[BidOn[b]] < now
    BY <1>1 DEF ActiveBidsAreOpen, StillLive, LiveAt
  <2> QED
    BY <2>1, <2>2 DEF StillLive, LiveAt
<1> QED
  BY <1>1, SerialHolds, PTL DEF SerialInv

\* A supplier bids again on a request only when its last bid there is dead.
THEOREM SuppliersHaveOneLiveBid ==
  ASSUME Overlap = FALSE
  PROVE  Spec => []OneLiveBidPerSupplier
<1>1. OneActiveBid => OneLiveBidPerSupplier
  BY DEF OneActiveBid, OneLiveBidPerSupplier, StillLive, LiveAt
<1> QED
  BY <1>1, SerialHolds, PTL DEF SerialInv

\* No withdrawal, rejection, cancellation or expiry takes an accepted bid back.
THEOREM AcceptedBidsBind ==
  ASSUME Overlap = FALSE
  PROVE  Spec => AcceptedBidIsBinding
<1>1. RaceInv /\ ReadsHold /\ [Next]_vars =>
        [\A b \in Bids : bidStatus[b] = "accepted" => bidStatus'[b] = "accepted"]_vars
  BY StatusStep DEF Settles, Inserted
<1> QED
  BY <1>1, SerialHolds, PTL DEF Spec, SerialInv, AcceptedBidIsBinding

\* A request is awarded, cancelled or expired once, whichever of accept, award-plan,
\* cancel and the expiry tick comes first.
THEOREM OutcomesAreFinal ==
  ASSUME Overlap = FALSE
  PROVE  Spec => OutcomeIsFinal
<1>1. RaceInv /\ ReadsHold /\ [Next]_vars =>
        [\A r \in Requests : reqStatus[r] \in {"awarded", "expired", "cancelled"}
                               => reqStatus'[r] = reqStatus[r]]_vars
  BY OutcomeStep DEF Closes
<1> QED
  BY <1>1, SerialHolds, PTL DEF Spec, SerialInv, OutcomeIsFinal
=============================================================================
