------------------------------- MODULE Auction -------------------------------
(***************************************************************************)
(* Requests for quotation, their items, the suppliers' bids and the orders  *)
(* that awards create: the handlers of bidzone/routes.ts and                *)
(* demand/routes.ts, order creation in orders/service.ts and the expiry     *)
(* timer of workers/index.ts, over one Postgres database.                   *)
(*                                                                         *)
(* A handler is a sequence of steps separated by the awaits at which other  *)
(* handlers run.  h[p] is the handler in slot p: the step it takes next and *)
(* what it read before its last await.  Statements run READ COMMITTED: the  *)
(* writes of a transaction appear at its commit, and from its first write   *)
(* to its commit an accept holds the row locks of its items and its bid.    *)
(***************************************************************************)
EXTENDS Integers, FiniteSets

CONSTANTS
  Requests, Items, Bids, Suppliers,
  ItemOf,          \* the request an item row belongs to
  BidOn, BidBy,    \* the request and the supplier of a bid row
  NoBid,           \* the null of winningBidId and awardedBidId
  Procs,           \* slots for handlers in flight
  Overlap,         \* whether handlers and ticks may overlap
  BidCap,          \* getSupplierBidQuotaInfo().cap
  Window,          \* auctionWindowSec
  BidTtl, ExtendTrigger, ExtendBy, MaxExtends, EditWindow,  \* config.auction
  Horizon          \* bound on the clock

ASSUME RowsAssumption ==
  /\ ItemOf \in [Items -> Requests]
  /\ BidOn \in [Bids -> Requests]
  /\ BidBy \in [Bids -> Suppliers]
  /\ NoBid \notin Bids

\* The defaults of config.ts satisfy it: an extension is longer than its trigger.
ASSUME TimesAssumption ==
  /\ {BidCap, Window, BidTtl, ExtendTrigger, ExtendBy, MaxExtends,
      EditWindow, Horizon} \subseteq Nat
  /\ ExtendTrigger <= ExtendBy
  /\ Overlap \in BOOLEAN

VARIABLES
  now,
  reqStatus, createdAt, liveEndsAt, extendCount, winningBid,   \* BidRequest
  itemStatus, awardedBid,                                      \* BidRequestItem
  bidStatus, expiresAt, bidCovers,                             \* Bid
  consumerAck, \* the bids whose consumerAckAt is set
  orders,      \* coveredItemIds of the order of a bid, {} when it has none
  h,           \* handlers in flight
  worker       \* the running tick of tickAuctionExpiry

reqVars  == <<reqStatus, createdAt, liveEndsAt, extendCount, winningBid>>
itemVars == <<itemStatus, awardedBid>>
bidVars  == <<bidStatus, expiresAt, bidCovers, consumerAck>>
vars == <<now, reqVars, itemVars, bidVars, orders, h, worker>>

(***************************************************************************)
(* Types.                                                                  *)
(***************************************************************************)
ReqStatus  == {"absent", "open", "awarded", "expired", "cancelled"}
ItemStatus == {"absent", "open", "awarded", "cancelled", "deleted"}
BidStatus  == {"absent", "active", "withdrawn", "rejected", "accepted", "expired"}

Idle == [at |-> "idle"]

Handlers ==
  {Idle}
  \cup [at : {"placeExtend"}, bid : Bids, covers : SUBSET Items,
        live : Nat, ext : Nat, since : Nat]
  \cup [at : {"placeInsert"}, bid : Bids, covers : SUBSET Items,
        expires : Nat, since : Nat]
  \cup [at : {"withdraw", "reject", "acceptCheck", "createOrder"}, bid : Bids]
  \cup [at : {"acceptLock"}, bid : Bids, items : SUBSET Items]
  \cup [at : {"acceptCommit"}, bid : Bids, items : SUBSET Items, awards : {"all", "some"}]
  \cup [at : {"planCheck", "planCommit"}, req : Requests,
        sel : [Items -> Bids \cup {NoBid}], drop : SUBSET Items]
  \cup [at : {"cancel", "patch"}, req : Requests]
  \cup [at : {"patchWrite"}, req : Requests, rows : SUBSET Items]

Ticks ==
  {Idle}
  \cup [at : {"expireRequests", "expireTheirBids"}, reqs : SUBSET Requests, since : Nat]
  \cup [at : {"expireBids"}, bids : SUBSET Bids]

TypeOK ==
  /\ now \in Nat
  /\ reqStatus \in [Requests -> ReqStatus]
  /\ createdAt \in [Requests -> Nat]
  /\ liveEndsAt \in [Requests -> Nat]
  /\ extendCount \in [Requests -> Nat]
  /\ winningBid \in [Requests -> Bids \cup {NoBid}]
  /\ itemStatus \in [Items -> ItemStatus]
  /\ awardedBid \in [Items -> Bids \cup {NoBid}]
  /\ bidStatus \in [Bids -> BidStatus]
  /\ expiresAt \in [Bids -> Nat]
  /\ bidCovers \in [Bids -> SUBSET Items]
  /\ consumerAck \subseteq Bids
  /\ orders \in [Bids -> SUBSET Items]
  /\ h \in [Procs -> Handlers]
  /\ worker \in Ticks

Init ==
  /\ now = 0
  /\ reqStatus = [r \in Requests |-> "absent"]
  /\ createdAt = [r \in Requests |-> 0]
  /\ liveEndsAt = [r \in Requests |-> 0]
  /\ extendCount = [r \in Requests |-> 0]
  /\ winningBid = [r \in Requests |-> NoBid]
  /\ itemStatus = [i \in Items |-> "absent"]
  /\ awardedBid = [i \in Items |-> NoBid]
  /\ bidStatus = [b \in Bids |-> "absent"]
  /\ expiresAt = [b \in Bids |-> 0]
  /\ bidCovers = [b \in Bids |-> {}]
  /\ consumerAck = {}
  /\ orders = [b \in Bids |-> {}]
  /\ h = [p \in Procs |-> Idle]
  /\ worker = Idle

(***************************************************************************)
(* Queries.                                                                *)
(***************************************************************************)
\* isBidStillLive and activeUnexpiredWhere, at time t.
LiveAt(b, t) == bidStatus[b] = "active" /\ expiresAt[b] > t
StillLive(b) == LiveAt(b, now)

BidsOn(r) == {b \in Bids : BidOn[b] = r}

\* Mutant: the query compares supplierId with the user id, so it matches no row.
OwnBidsByUserId(b) == {c \in BidsOn(BidOn[b]) : BidBy[c] = b}

OwnBids(b) == {c \in BidsOn(BidOn[b]) : BidBy[c] = BidBy[b]}

RowsOf(r)  == {i \in Items : ItemOf[i] = r}
ItemsOf(r) == {i \in RowsOf(r) : itemStatus[i] \notin {"absent", "deleted"}}
OpenItems(r) == {i \in RowsOf(r) : itemStatus[i] = "open"}

\* A bid without coveredItemIds is an offer for the whole basket.
Covers(b) == IF bidCovers[b] = {} THEN ItemsOf(BidOn[b]) ELSE bidCovers[b]

Selected(sel) == {i \in Items : sel[i] # NoBid}
Winners(sel) == {sel[i] : i \in Selected(sel)}

\* Rows another transaction may not update before the holder's commit.
LockedItems == UNION {h[p].items : p \in {q \in Procs : h[q].at = "acceptCommit"}}
LockedBids == {h[p].bid : p \in {q \in Procs : h[q].at = "acceptCommit"}}

Active(B) == {b \in B : bidStatus[b] = "active"}

\* updateMany({ where: { status: 'active' } }) waits for the locked rows it matches.
SetActive(B, status) ==
  /\ Active(B) \cap LockedBids = {}
  /\ bidStatus' = [b \in Bids |-> IF b \in Active(B) THEN status ELSE bidStatus[b]]

(***************************************************************************)
(* Handlers start in a free slot, go on to a next step, and end.            *)
(***************************************************************************)
MayStart == Overlap \/ (worker = Idle /\ \A q \in Procs : h[q] = Idle)

Start(p, step) ==
  /\ h[p] = Idle
  /\ MayStart
  /\ h' = [h EXCEPT ![p] = step]
Goto(p, step) == h' = [h EXCEPT ![p] = step]
End(p) == Goto(p, Idle)

\* A crash, a rolled back transaction or a database error between two steps.
Abort(p) ==
  /\ h[p] # Idle
  /\ End(p)
  /\ UNCHANGED <<now, reqVars, itemVars, bidVars, orders, worker>>

Tick ==
  /\ now < Horizon
  /\ now' = now + 1
  /\ UNCHANGED <<reqVars, itemVars, bidVars, orders, h, worker>>

(***************************************************************************)
(* Creating (or reordering), editing and cancelling a request.              *)
(***************************************************************************)
CreateRequest(r, S) ==
  /\ reqStatus[r] = "absent"
  /\ S # {} /\ S \subseteq RowsOf(r)
  /\ now + Window + ExtendBy < Horizon
  /\ reqStatus' = [reqStatus EXCEPT ![r] = "open"]
  /\ createdAt' = [createdAt EXCEPT ![r] = now]
  /\ liveEndsAt' = [liveEndsAt EXCEPT ![r] = now + Window]
  /\ itemStatus' = [i \in Items |-> IF i \in S THEN "open" ELSE itemStatus[i]]
  /\ UNCHANGED <<now, extendCount, winningBid, awardedBid, bidVars, orders, h, worker>>

PatchRead(p, r) ==
  /\ reqStatus[r] = "open"
  /\ liveEndsAt[r] > now
  /\ createdAt[r] + EditWindow > now
  /\ Start(p, [at |-> "patch", req |-> r])
  /\ UNCHANGED <<now, reqVars, itemVars, bidVars, orders, worker>>

\* deleteMany deletes the rows it finds when it starts, not those that another
\* edit creates while it waits for their locks.
PatchDelete(p) ==
  /\ h[p].at = "patch"
  /\ Goto(p, [at |-> "patchWrite", req |-> h[p].req, rows |-> ItemsOf(h[p].req)])
  /\ UNCHANGED <<now, reqVars, itemVars, bidVars, orders, worker>>

\* The items are created anew, with new ids.
PatchWrite(p, S) ==
  /\ h[p].at = "patchWrite"
  /\ h[p].rows \cap LockedItems = {}
  /\ S # {} /\ S \subseteq {i \in RowsOf(h[p].req) : itemStatus[i] = "absent"}
  /\ itemStatus' = [i \in Items |-> IF i \in S THEN "open"
                                    ELSE IF i \in h[p].rows THEN "deleted"
                                    ELSE itemStatus[i]]
  /\ End(p)
  /\ UNCHANGED <<now, reqVars, awardedBid, bidVars, orders, worker>>

CancelRead(p, r) ==
  /\ reqStatus[r] = "open"
  /\ liveEndsAt[r] > now
  /\ Start(p, [at |-> "cancel", req |-> r])
  /\ UNCHANGED <<now, reqVars, itemVars, bidVars, orders, worker>>

\* The update is conditional: the loser of a race answers NOT_OPEN.
CancelWrite(p) ==
  /\ h[p].at = "cancel"
  /\ LET r == h[p].req IN
       \/ /\ reqStatus[r] = "open"
          /\ reqStatus' = [reqStatus EXCEPT ![r] = "cancelled"]
          /\ SetActive(BidsOn(r), "expired")
       \/ reqStatus[r] # "open" /\ UNCHANGED <<reqStatus, bidStatus>>
  /\ End(p)
  /\ UNCHANGED <<now, createdAt, liveEndsAt, extendCount, winningBid, itemVars,
                 expiresAt, bidCovers, consumerAck, orders, worker>>

(***************************************************************************)
(* Placing a bid.  covers = {} is a bid on the whole basket.                *)
(***************************************************************************)
Placing(b) == \E p \in Procs : h[p].at \in {"placeExtend", "placeInsert"} /\ h[p].bid = b

PlaceRead(p, b, covers) ==
  LET r == BidOn[b] IN
  /\ bidStatus[b] = "absent" /\ ~Placing(b)
  /\ \A c \in OwnBids(b) : ~StillLive(c)
  /\ Cardinality({c \in Bids : BidBy[c] = BidBy[b] /\ StillLive(c)}) < BidCap
  /\ reqStatus[r] = "open"
  /\ liveEndsAt[r] >= now
  /\ covers \subseteq ItemsOf(r)
  /\ Start(p, [at |-> "placeExtend", bid |-> b, covers |-> covers,
               live |-> liveEndsAt[r], ext |-> extendCount[r], since |-> now])
  /\ UNCHANGED <<now, reqVars, itemVars, bidVars, orders, worker>>

\* Mutant: every bid extends the auction, however far its end is.
AlwaysExtend(s) == s.ext < MaxExtends

\* msLeft is computed from the end read before the awaits of the price checks.
NearEnd(s) == s.live <= now + ExtendTrigger /\ s.ext < MaxExtends

ExtendedEnd(s) == IF NearEnd(s) THEN now + ExtendBy ELSE s.live

\* Mutant: the auction's own end is not taken into account.
BidExpiryByTtl(live) == now + BidTtl

\* computeBidExpiresAt
BidExpiry(live) == IF now + BidTtl < live THEN now + BidTtl ELSE live

PlaceExtend(p) ==
  /\ h[p].at = "placeExtend"
  /\ LET s == h[p]
         r == BidOn[s.bid]
     IN /\ ExtendedEnd(s) < Horizon
        /\ \/ /\ NearEnd(s)
              /\ liveEndsAt' = [liveEndsAt EXCEPT ![r] = ExtendedEnd(s)]
              /\ extendCount' = [extendCount EXCEPT ![r] = s.ext + 1]
           \/ ~NearEnd(s) /\ UNCHANGED <<liveEndsAt, extendCount>>
        /\ \/ /\ \E c \in OwnBids(s.bid) : LiveAt(c, s.since)
              /\ End(p)
           \/ /\ \A c \in OwnBids(s.bid) : ~LiveAt(c, s.since)
              /\ Goto(p, [at |-> "placeInsert", bid |-> s.bid, covers |-> s.covers,
                          expires |-> BidExpiry(ExtendedEnd(s)), since |-> s.since])
  /\ UNCHANGED <<now, reqStatus, createdAt, winningBid, itemVars, bidVars, orders, worker>>

\* Commit: the supplier's stale bids on the request expire, the new row is inserted.
\* Its lines reference their items: the insert fails when an edit deleted one.
PlaceInsert(p) ==
  /\ h[p].at = "placeInsert"
  /\ LET s == h[p]
         stale == {c \in Active(OwnBids(s.bid)) : expiresAt[c] <= s.since}
     IN /\ \A i \in s.covers : itemStatus[i] # "deleted"
        /\ stale \cap LockedBids = {}
        /\ bidStatus' = [c \in Bids |-> IF c = s.bid THEN "active"
                                        ELSE IF c \in stale THEN "expired"
                                        ELSE bidStatus[c]]
        /\ expiresAt' = [expiresAt EXCEPT ![s.bid] = s.expires]
        /\ bidCovers' = [bidCovers EXCEPT ![s.bid] = s.covers]
  /\ End(p)
  /\ UNCHANGED <<now, reqVars, itemVars, consumerAck, orders, worker>>

(***************************************************************************)
(* Withdrawing and rejecting a bid: a check, then an unconditional update.  *)
(***************************************************************************)
\* Mutant: ownership is checked, the bid's state is not.
WithdrawAnyRead(p, b) ==
  /\ bidStatus[b] # "absent"
  /\ Start(p, [at |-> "withdraw", bid |-> b])
  /\ UNCHANGED <<now, reqVars, itemVars, bidVars, orders, worker>>

WithdrawRead(p, b) ==
  /\ StillLive(b)
  /\ Start(p, [at |-> "withdraw", bid |-> b])
  /\ UNCHANGED <<now, reqVars, itemVars, bidVars, orders, worker>>

RejectRead(p, b) ==
  /\ StillLive(b)
  /\ reqStatus[BidOn[b]] = "open"
  /\ Start(p, [at |-> "reject", bid |-> b])
  /\ UNCHANGED <<now, reqVars, itemVars, bidVars, orders, worker>>

CloseBid(p, step, status) ==
  /\ h[p].at = step
  /\ h[p].bid \notin LockedBids
  /\ bidStatus' = [bidStatus EXCEPT ![h[p].bid] = status]
  /\ End(p)
  /\ UNCHANGED <<now, reqVars, itemVars, expiresAt, bidCovers, consumerAck, orders, worker>>

\* Mutant: a status of BidRequest is written to the bid.
WithdrawAsCancelled(p) == CloseBid(p, "withdraw", "cancelled")

WithdrawWrite(p) == CloseBid(p, "withdraw", "withdrawn")
RejectWrite(p) == CloseBid(p, "reject", "rejected")

(***************************************************************************)
(* Accepting one bid.                                                      *)
(***************************************************************************)
AcceptRead(p, b) ==
  /\ StillLive(b)
  /\ reqStatus[BidOn[b]] = "open"
  /\ Start(p, [at |-> "acceptCheck", bid |-> b])
  /\ UNCHANGED <<now, reqVars, itemVars, bidVars, orders, worker>>

Awarded(S) == {i \in S : itemStatus[i] = "awarded"}

\* Mutant: the items' status is not looked at.
AcceptableAnyItems(b) == reqStatus[BidOn[b]] = "open" /\ StillLive(b)

Acceptable(b) ==
  /\ reqStatus[BidOn[b]] = "open"
  /\ StillLive(b)
  /\ Awarded(Covers(b) \cap ItemsOf(BidOn[b])) = {}

\* The reads of the transaction.
AcceptCheck(p) ==
  /\ h[p].at = "acceptCheck"
  /\ LET b == h[p].bid IN
       \/ /\ Acceptable(b)
          /\ Goto(p, [at |-> "acceptLock", bid |-> b, items |-> Covers(b)])
       \/ ~Acceptable(b) /\ End(p)
  /\ UNCHANGED <<now, reqVars, itemVars, bidVars, orders, worker>>

\* Mutant: one awarded item is enough, `some' for `every'.
SomeAwardedBeside(r, S) == S \cup Awarded(ItemsOf(r) \ S) # {}

\* allAwarded, for an accept that has just awarded the items S.
AllAwardedBeside(r, S) == ItemsOf(r) \ S = Awarded(ItemsOf(r) \ S)

\* Its first writes, and the re-read of the items that its own writes and the
\* committed ones determine.
AcceptLock(p) ==
  /\ h[p].at = "acceptLock"
  /\ LET s == h[p] IN
        /\ s.items \cap LockedItems = {}
        /\ s.bid \notin LockedBids
        /\ Goto(p, [at |-> "acceptCommit", bid |-> s.bid, items |-> s.items,
                    awards |-> IF AllAwardedBeside(BidOn[s.bid], s.items)
                               THEN "all" ELSE "some"])
  /\ UNCHANGED <<now, reqVars, itemVars, bidVars, orders, worker>>

\* Mutant: the remaining bids are left to their time to live.
NoLosers(r, winners) == {}

\* The remaining active bids, rejected when the request is awarded.
Losers(r, winners) == Active(BidsOn(r)) \ winners

AcceptCommit(p) ==
  /\ h[p].at = "acceptCommit"
  /\ LET s == h[p]
         r == BidOn[s.bid]
         losers == IF s.awards = "all" THEN Losers(r, {s.bid}) ELSE {}
     IN /\ losers \cap LockedBids = {}
        /\ itemStatus' = [i \in Items |-> IF i \in s.items /\ itemStatus[i] # "deleted"
                                          THEN "awarded" ELSE itemStatus[i]]
        /\ bidStatus' = [c \in Bids |-> IF c = s.bid THEN "accepted"
                                        ELSE IF c \in losers THEN "rejected"
                                        ELSE bidStatus[c]]
        /\ consumerAck' = consumerAck \cup {s.bid}
        /\ \/ /\ s.awards = "all"
              /\ reqStatus' = [reqStatus EXCEPT ![r] = "awarded"]
              /\ winningBid' = [winningBid EXCEPT ![r] = s.bid]
           \/ s.awards = "some" /\ UNCHANGED <<reqStatus, winningBid>>
        /\ Goto(p, [at |-> "createOrder", bid |-> s.bid])
  /\ UNCHANGED <<now, createdAt, liveEndsAt, extendCount, awardedBid,
                 expiresAt, bidCovers, orders, worker>>

\* Mutant: the order is upserted.
OrderUpserted(b, items) == items

\* insertOrderFromBid: an existing order is returned as it is.
OrderFor(b, items) == IF orders[b] = {} THEN items ELSE orders[b]

\* createOrderFromAcceptedBid, in a transaction of its own.
CreateOrder(p) ==
  /\ h[p].at = "createOrder"
  /\ LET b == h[p].bid IN
       \/ b \in consumerAck /\ orders' = [orders EXCEPT ![b] = OrderFor(b, Covers(b))]
       \/ b \notin consumerAck /\ UNCHANGED orders
  /\ End(p)
  /\ UNCHANGED <<now, reqVars, itemVars, bidVars, worker>>

\* Either party's acknowledgement of an accepted bid creates a missing order.
Acknowledge(p, b) ==
  /\ bidStatus[b] = "accepted"
  /\ Start(p, [at |-> "createOrder", bid |-> b])
  /\ UNCHANGED <<now, reqVars, itemVars, bidVars, orders, worker>>

(***************************************************************************)
(* Awarding a plan: sel gives the winning bid of each selected item; the    *)
(* open items it leaves out are dropped.                                   *)
(***************************************************************************)
Plannable(r, sel) ==
  /\ Selected(sel) # {} /\ Selected(sel) \subseteq OpenItems(r)
  /\ \A i \in Selected(sel) :
       LET b == sel[i] IN
       /\ BidOn[b] = r
       /\ StillLive(b) \/ bidStatus[b] = "accepted"
       /\ bidCovers[b] # {} /\ i \in bidCovers[b]
  /\ \A b, c \in Winners(sel) : BidBy[b] = BidBy[c] => b = c

PlanRead(p, r, sel) ==
  /\ reqStatus[r] = "open"
  /\ Plannable(r, sel)
  /\ Start(p, [at |-> "planCheck", req |-> r, sel |-> sel,
               drop |-> OpenItems(r) \ Selected(sel)])
  /\ UNCHANGED <<now, reqVars, itemVars, bidVars, orders, worker>>

PlanValid(s) ==
  /\ reqStatus[s.req] = "open"
  /\ \A i \in Selected(s.sel) : itemStatus[i] \notin {"awarded", "deleted"}

\* The reads of the transaction: the request and the items, not the bids.
PlanCheck(p) ==
  /\ h[p].at = "planCheck"
  /\ LET s == h[p] IN
       \/ /\ PlanValid(s)
          /\ Goto(p, [at |-> "planCommit", req |-> s.req, sel |-> s.sel, drop |-> s.drop])
       \/ ~PlanValid(s) /\ End(p)
  /\ UNCHANGED <<now, reqVars, itemVars, bidVars, orders, worker>>

\* Mutant: the unselected items are cancelled by id alone.
PlanItemsById(s) ==
  [i \in Items |-> IF i \in Selected(s.sel) THEN "awarded"
                   ELSE IF i \in s.drop THEN "cancelled"
                   ELSE itemStatus[i]]

\* An unselected item is cancelled only if it is still open.
PlanItems(s) ==
  [i \in Items |-> IF i \in Selected(s.sel) THEN "awarded"
                   ELSE IF i \in s.drop /\ itemStatus[i] = "open" THEN "cancelled"
                   ELSE itemStatus[i]]

\* Mutant: the coveredItemIds override is not passed on.
PlanOrdersWhole(s) ==
  [b \in Bids |-> IF b \in Winners(s.sel) THEN OrderFor(b, bidCovers[b]) ELSE orders[b]]

\* Mutant: only the request's winning bid gets an order.
PlanOrdersFirst(s) ==
  LET first == CHOOSE b \in Winners(s.sel) : TRUE IN
  [orders EXCEPT ![first] = OrderFor(first, {i \in Items : s.sel[i] = first})]

PlanOrders(s) ==
  [b \in Bids |-> IF b \in Winners(s.sel) THEN OrderFor(b, {i \in Items : s.sel[i] = b})
                  ELSE orders[b]]

PlanCommit(p) ==
  /\ h[p].at = "planCommit"
  /\ LET s == h[p]
         losers == Losers(s.req, Winners(s.sel))
     IN /\ \A i \in Selected(s.sel) : itemStatus[i] # "deleted"
        /\ (Selected(s.sel) \cup s.drop) \cap LockedItems = {}
        /\ (Winners(s.sel) \cup losers) \cap LockedBids = {}
        /\ itemStatus' = PlanItems(s)
        /\ awardedBid' = [i \in Items |-> IF i \in Selected(s.sel) THEN s.sel[i]
                                          ELSE awardedBid[i]]
        /\ bidStatus' = [b \in Bids |-> IF b \in Winners(s.sel) THEN "accepted"
                                        ELSE IF b \in losers THEN "rejected"
                                        ELSE bidStatus[b]]
        /\ consumerAck' = consumerAck \cup Winners(s.sel)
        /\ reqStatus' = [reqStatus EXCEPT ![s.req] = "awarded"]
        /\ \E b \in Winners(s.sel) : winningBid' = [winningBid EXCEPT ![s.req] = b]
        /\ orders' = PlanOrders(s)
  /\ End(p)
  /\ UNCHANGED <<now, createdAt, liveEndsAt, extendCount, expiresAt, bidCovers, worker>>

(***************************************************************************)
(* tickAuctionExpiry: each of its four statements commits on its own.       *)
(***************************************************************************)
\* Mutant: requests are found through their active bids.
OverdueWithBids(t) ==
  {r \in Requests : reqStatus[r] = "open" /\ liveEndsAt[r] < t /\ Active(BidsOn(r)) # {}}

\* Mutant: the status is left out of the query.
OverdueAnyStatus(t) == {r \in Requests : reqStatus[r] # "absent" /\ liveEndsAt[r] < t}

Overdue(t) == {r \in Requests : reqStatus[r] = "open" /\ liveEndsAt[r] < t}

\* Mutant: the sweep trusts closed requests to have closed their bids.
StaleBidsOfOpen(t) ==
  {b \in Bids : bidStatus[b] = "active" /\ expiresAt[b] < t /\ reqStatus[BidOn[b]] = "open"}

StaleBids(t) == {b \in Bids : bidStatus[b] = "active" /\ expiresAt[b] < t}

SweepBids(bids) == IF bids = {} THEN Idle ELSE [at |-> "expireBids", bids |-> bids]

WorkerFind ==
  /\ worker = Idle
  /\ MayStart
  /\ Overdue(now) # {} \/ StaleBids(now) # {}
  /\ worker' = IF Overdue(now) = {} THEN SweepBids(StaleBids(now))
               ELSE [at |-> "expireRequests", reqs |-> Overdue(now), since |-> now]
  /\ UNCHANGED <<now, reqVars, itemVars, bidVars, orders, h>>

WorkerExpireRequests ==
  /\ worker.at = "expireRequests"
  /\ reqStatus' = [r \in Requests |-> IF r \in worker.reqs THEN "expired" ELSE reqStatus[r]]
  /\ worker' = [at |-> "expireTheirBids", reqs |-> worker.reqs, since |-> worker.since]
  /\ UNCHANGED <<now, createdAt, liveEndsAt, extendCount, winningBid, itemVars,
                 bidVars, orders, h>>

WorkerExpireTheirBids ==
  /\ worker.at = "expireTheirBids"
  /\ LET bids == {b \in Bids : BidOn[b] \in worker.reqs} IN
       /\ SetActive(bids, "expired")
       /\ worker' = SweepBids(StaleBids(worker.since) \ bids)
  /\ UNCHANGED <<now, reqVars, itemVars, expiresAt, bidCovers, consumerAck, orders, h>>

\* The sweep updates the ids it found, whatever has become of them.
WorkerExpireBids ==
  /\ worker.at = "expireBids"
  /\ worker.bids \cap LockedBids = {}
  /\ bidStatus' = [b \in Bids |-> IF b \in worker.bids THEN "expired" ELSE bidStatus[b]]
  /\ worker' = Idle
  /\ UNCHANGED <<now, reqVars, itemVars, expiresAt, bidCovers, consumerAck, orders, h>>

\* The process restarts, or a statement fails: the tick is lost, the next one starts over.
WorkerAbort ==
  /\ worker # Idle
  /\ worker' = Idle
  /\ UNCHANGED <<now, reqVars, itemVars, bidVars, orders, h>>

(***************************************************************************)
(* The specification.                                                      *)
(***************************************************************************)
Handle(p) ==
  \/ \E r \in Requests : PatchRead(p, r) \/ CancelRead(p, r)
  \/ \E r \in Requests, sel \in [Items -> Bids \cup {NoBid}] : PlanRead(p, r, sel)
  \/ \E b \in Bids, covers \in SUBSET Items : PlaceRead(p, b, covers)
  \/ \E b \in Bids : \/ WithdrawRead(p, b) \/ RejectRead(p, b)
                     \/ AcceptRead(p, b) \/ Acknowledge(p, b)
  \/ PatchDelete(p)
  \/ \E S \in SUBSET Items : PatchWrite(p, S)
  \/ CancelWrite(p)
  \/ PlaceExtend(p) \/ PlaceInsert(p)
  \/ WithdrawWrite(p) \/ RejectWrite(p)
  \/ AcceptCheck(p) \/ AcceptLock(p) \/ AcceptCommit(p) \/ CreateOrder(p)
  \/ PlanCheck(p) \/ PlanCommit(p)
  \/ Abort(p)

Work == WorkerFind \/ WorkerExpireRequests \/ WorkerExpireTheirBids \/ WorkerExpireBids

Next ==
  \/ Tick
  \/ \E r \in Requests, S \in SUBSET Items : CreateRequest(r, S)
  \/ \E p \in Procs : Handle(p)
  \/ Work
  \/ WorkerAbort

Spec == Init /\ [][Next]_vars

\* Time passes, the timers fire and their statements are not cut short for ever,
\* and Prisma ends an interactive transaction that does not commit.  No handler
\* is assumed to reach its end, and no user to act.
LeaveTransaction(p) == h[p].at = "acceptCommit" /\ (AcceptCommit(p) \/ Abort(p))

FairSpec ==
  /\ Spec
  /\ WF_vars(Tick)
  /\ WF_vars(WorkerFind)
  /\ SF_vars(WorkerExpireRequests)
  /\ SF_vars(WorkerExpireTheirBids)
  /\ SF_vars(WorkerExpireBids)
  /\ \A p \in Procs : WF_vars(LeaveTransaction(p))

(***************************************************************************)
(* What holds whatever overlaps.                                           *)
(***************************************************************************)
\* Once awarded, an item stays awarded until an edit of the request deletes it:
\* the transaction of a plan that read the item open does not cancel it after an
\* accept has awarded it.
AwardIsFinal ==
  [][\A i \in Items : itemStatus[i] = "awarded" => itemStatus'[i] \in {"awarded", "deleted"}]_vars

\* An order exists only for a bid the consumer acknowledged, and only for items
\* of the bid's request that have been awarded, whichever of accept, plan and
\* acknowledgement created it.  (If no edit of the items is in flight: EditWindow = 0.)
OrderIsBacked ==
  \A b \in Bids : orders[b] # {} =>
    /\ b \in consumerAck
    /\ \A i \in orders[b] : ItemOf[i] = BidOn[b] /\ itemStatus[i] = "awarded"

\* An awarded request has no item left open: the handlers that close it have
\* seen every item awarded, or cancel the ones they saw open.  (EditWindow = 0.)
AwardedRequestIsSettled ==
  \A r \in Requests : reqStatus[r] = "awarded" => OpenItems(r) = {}

\* The order of a bid keeps the items it was created with, although accept, plan
\* and acknowledgement may all create it.
OrderStands ==
  [][\A b \in Bids : orders[b] # {} => orders'[b] = orders[b]]_vars

\* A bid expires no later than its auction ends, though the end it was computed
\* from was read before other bids extended the auction.
BidWithinAuction ==
  \A b \in Bids : bidStatus[b] # "absent" => expiresAt[b] <= liveEndsAt[BidOn[b]]

\* Auto-extension never brings an auction's end forward, though it writes an end
\* decided on a stale read.
EndNeverMovesEarlier ==
  [][\A r \in Requests : liveEndsAt'[r] >= liveEndsAt[r]]_vars

\* Every auction leaves the open state, whatever stalls or crashes.
EveryAuctionEnds == \A r \in Requests : reqStatus[r] = "open" ~> reqStatus[r] # "open"

\* Every bid leaves the active state and frees its supplier's slot, also one that
\* is inserted after its request was closed.
EveryBidSettles == \A b \in Bids : bidStatus[b] = "active" ~> bidStatus[b] # "active"

(***************************************************************************)
(* What holds when handlers do not overlap (~Overlap), and what the code    *)
(* says of them.                                                           *)
(***************************************************************************)
\* Each item has only one winner: no item is in the orders of two bids.  (An item
\* that an edit of the request deleted may be: bids go on covering it.)
OneOrderPerItem ==
  \A b, c \in Bids : b # c =>
    \A i \in orders[b] \cap orders[c] : itemStatus[i] = "deleted"

\* The item a plan gave to a bid is in the order of that bid.
PlannedItemIsOrdered ==
  \A i \in Items : awardedBid[i] # NoBid => i \in orders[awardedBid[i]]

\* No bid is live on a request that has been awarded, cancelled or expired.
ClosedRequestHasNoLiveBid ==
  \A b \in Bids : StillLive(b) => reqStatus[BidOn[b]] = "open"

\* A supplier has one live bid on a request at a time.
OneLiveBidPerSupplier ==
  \A b, c \in {d \in Bids : StillLive(d)} :
    BidOn[b] = BidOn[c] /\ BidBy[b] = BidBy[c] => b = c

\* A bid is withdrawn, rejected or expired only while it is active: an accepted
\* bid is binding.
AcceptedBidIsBinding ==
  [][\A b \in Bids : bidStatus[b] = "accepted" => bidStatus'[b] = "accepted"]_vars

\* A request that was awarded, cancelled or expired keeps its outcome.
OutcomeIsFinal ==
  [][\A r \in Requests : reqStatus[r] \in {"awarded", "expired", "cancelled"}
                           => reqStatus'[r] = reqStatus[r]]_vars

\* The order of an accepted bid is created with the flip of its status.
OrderComesWithAcceptance ==
  \A b \in Bids : bidStatus[b] = "accepted" => orders[b] # {}
=============================================================================
