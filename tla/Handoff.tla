--------------------------------- MODULE Handoff ---------------------------------
(***************************************************************************)
(* Delivery links: a courier without an account acts as the shop on one      *)
(* order, with a bearer token the shop mints, rotates and revokes.           *)
(* orders/routes.ts (handoff section) and middleware/auth.ts.                *)
(***************************************************************************)
EXTENDS InFlight, FiniteSets

CONSTANTS
  Deliveries,   \* the shop's orders
  MaxLinks,     \* bound: OrderHandoff rows
  LinkTtl       \* config.handoff.defaultTtlMs, in ticks

Links == 1..MaxLinks
NoOrder == "no order"

ASSUME HandoffAssumption == MaxLinks \in Nat /\ LinkTtl \in Nat /\ NoOrder \notin Deliveries

\* Order.status as far as links tell it apart, in the order an order takes them.
DeliveryStatus == {"bid_accepted", "preparing", "out_for_delivery", "arrived", "delivered",
                   "closed", "rejected_on_spot"}

VARIABLES
  delivery,   \* Order.status
  link        \* OrderHandoff rows: order, revoked, and the ticks left before expiresAt

handoffVars == <<delivery, link>>

Minted == {l \in Links : link[l].order # NoOrder}
LinksOf(o) == {l \in Minted : link[l].order = o}
Live(l) == l \in Minted /\ ~link[l].revoked /\ link[l].left > 0
Open(o) == delivery[o] \notin {"closed", "rejected_on_spot"}

HandoffHandlers ==
  [at : {"linkInsert"}, order : Deliveries]
  \cup [at : {"courierStatus"}, link : Links, order : Deliveries,
        read : {"preparing", "out_for_delivery"}]
  \cup [at : {"courierConfirm"}, link : Links, order : Deliveries, read : {"delivered"}]

HandoffTypeOK ==
  /\ delivery \in [Deliveries -> DeliveryStatus]
  /\ link \in [Links -> [order : Deliveries \cup {NoOrder}, revoked : BOOLEAN, left : 0..LinkTtl]]

HandoffInit ==
  /\ delivery = [o \in Deliveries |-> "bid_accepted"]
  /\ link = [l \in Links |-> [order |-> NoOrder, revoked |-> FALSE, left |-> 0]]

(***************************************************************************)
(* The shop mints, rotates and revokes.                                    *)
(***************************************************************************)

\* Mutant: minting revokes nothing.
RevokedNone(o) == link

Revoked(o) == [l \in Links |-> IF l \in LinksOf(o) THEN [link[l] EXCEPT !.revoked = TRUE] ELSE link[l]]

HANDOFF_MINT_STATUSES ==
  {"preparing", "out_for_delivery", "arrived", "delivered"}

Minting == {p \in Procs : h[p].at = "linkInsert"}

MintRevoke(p, o) ==
  /\ delivery[o] \in HANDOFF_MINT_STATUSES
  /\ Cardinality(Minted) + Cardinality(Minting) < MaxLinks
  /\ Start(p, [at |-> "linkInsert", order |-> o])
  /\ link' = Revoked(o)
  /\ UNCHANGED delivery

MintInsert(p) ==
  /\ h[p].at = "linkInsert"
  /\ link' = [link EXCEPT ![Cardinality(Minted) + 1] =
                [order |-> h[p].order, revoked |-> FALSE, left |-> LinkTtl]]
  /\ End(p)
  /\ UNCHANGED delivery

RevokeLinks(p, o) ==
  /\ Immediate(p)
  /\ link' = Revoked(o)
  /\ UNCHANGED delivery

(***************************************************************************)
(* The courier.  Authentication reads the link, then its order; a route of   *)
(* the allow-list matches its :id with the link's order and reads the order. *)
(***************************************************************************)

\* Mutant: a route that does not match its order id.
AnyOrder(l, o) == TRUE

\* requireHandoffOrderMatch
Matches(l, o) == link[l].order = o

Authentic(l) == Live(l) /\ Open(link[l].order)

\* POST /orders/:id/status, which never starts the preparation for a courier.
NextOnTheRoad ==
  [preparing |-> "out_for_delivery", out_for_delivery |-> "arrived"]

CourierStatus(p, l, o) ==
  /\ Authentic(l) /\ Matches(l, o)
  /\ delivery[o] \in DOMAIN NextOnTheRoad
  /\ Start(p, [at |-> "courierStatus", link |-> l, order |-> o, read |-> delivery[o]])
  /\ UNCHANGED handoffVars

\* POST /orders/:id/payment/confirm, once the challan is signed.
CourierConfirm(p, l, o) ==
  /\ Authentic(l) /\ Matches(l, o)
  /\ delivery[o] = "delivered"
  /\ Start(p, [at |-> "courierConfirm", link |-> l, order |-> o, read |-> delivery[o]])
  /\ UNCHANGED handoffVars

CourierWrite(p) ==
  /\ h[p].at \in {"courierStatus", "courierConfirm"}
  /\ delivery' = [delivery EXCEPT ![h[p].order] =
                    IF h[p].at = "courierConfirm" THEN "closed" ELSE NextOnTheRoad[h[p].read]]
  /\ End(p)
  /\ UNCHANGED link

(***************************************************************************)
(* What the parties do to the order meanwhile (OrderLifecycle), and time.    *)
(***************************************************************************)
ShopOrConsumerMoves(p, o) ==
  /\ Immediate(p)
  /\ \E move \in {<<"bid_accepted", "preparing">>, <<"arrived", "delivered">>,
                  <<"arrived", "rejected_on_spot">>, <<"delivered", "closed">>} :
       /\ delivery[o] = move[1]
       /\ delivery' = [delivery EXCEPT ![o] = move[2]]
  /\ UNCHANGED link

LinkTimePasses ==
  /\ \E l \in Minted : link[l].left > 0
  /\ link' = [l \in Links |-> IF link[l].left > 0 THEN [link[l] EXCEPT !.left = @ - 1] ELSE link[l]]
  /\ UNCHANGED <<delivery, regime, h>>

HandoffStop(p) == Stop(p) /\ UNCHANGED handoffVars

HandoffStep(p) ==
  \/ \E o \in Deliveries : MintRevoke(p, o)
  \/ MintInsert(p)
  \/ \E o \in Deliveries : RevokeLinks(p, o)
  \/ \E l \in Links, o \in Deliveries : CourierStatus(p, l, o)
  \/ \E l \in Links, o \in Deliveries : CourierConfirm(p, l, o)
  \/ CourierWrite(p)
  \/ \E o \in Deliveries : ShopOrConsumerMoves(p, o)
  \/ HandoffStop(p)

HandoffNext ==
  \/ LinkTimePasses
  \/ \E p \in Procs : HandoffStep(p) /\ UNCHANGED regime

(***************************************************************************)
(* Properties.                                                             *)
(***************************************************************************)

\* A courier's request in flight is one its link gave it: for the link's order
\* whatever overlaps, and, unless handlers overlap, with the order's only live
\* link, not revoked since, on an order still open; and whatever fails between
\* revoking the old link and minting the new one, no order has two live links.
LinkOpensOneOrder ==
  LET couriers == {p \in Procs : h[p].at \in {"courierStatus", "courierConfirm"}}
  IN  /\ \A p \in couriers : link[h[p].link].order = h[p].order
      /\ regime # "overlapping" =>
           /\ \A p \in couriers : ~link[h[p].link].revoked /\ Open(h[p].order)
           /\ \A k, l \in {l \in Links : Live(l)} : link[k].order = link[l].order => k = l
=============================================================================
