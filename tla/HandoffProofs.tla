----------------------------- MODULE HandoffProofs -----------------------------
(***************************************************************************)
(* Theorems about Handoff, for any orders, links and handler slots.          *)
(***************************************************************************)
EXTENDS Handoff, FiniteSetTheorems, TLAPS

linkVars == <<handoffVars, regime, h>>

LinkInit ==
  /\ regime \in Regimes
  /\ h = [p \in Procs |-> Idle]
  /\ HandoffInit

LinkSpec == LinkInit /\ [][HandoffNext]_linkVars

LinkRow == [order : Deliveries \cup {NoOrder}, revoked : BOOLEAN, left : 0..LinkTtl]

LinkTypeOK ==
  /\ HandoffTypeOK
  /\ h \in [Procs -> {Idle} \cup HandoffHandlers]

LEMMA LinkConstants == MaxLinks \in Nat /\ LinkTtl \in Nat /\ NoOrder \notin Deliveries
  BY HandoffAssumption DEF HandoffAssumption

\* What the step a handler is about to take says of the record's fields.
LEMMA LinkHandlerFields ==
  ASSUME NEW s \in {Idle} \cup HandoffHandlers
  PROVE  /\ s.at \in {"linkInsert", "courierStatus", "courierConfirm"} => s.order \in Deliveries
         /\ s.at \in {"courierStatus", "courierConfirm"} => s.link \in Links
         /\ s.at = "courierStatus" => s.read \in {"preparing", "out_for_delivery"}
         /\ s.at \in {"idle", "linkInsert", "courierStatus", "courierConfirm"}
         /\ s.at = "idle" <=> s = Idle
  BY DEF HandoffHandlers, Idle

\* The records the handlers go on with.
LEMMA LinkHandlerForms ==
  /\ \A o \in Deliveries : [at |-> "linkInsert", order |-> o] \in HandoffHandlers
  /\ \A l \in Links, o \in Deliveries, s \in {"preparing", "out_for_delivery"} :
       [at |-> "courierStatus", link |-> l, order |-> o, read |-> s] \in HandoffHandlers
  /\ \A l \in Links, o \in Deliveries :
       [at |-> "courierConfirm", link |-> l, order |-> o, read |-> "delivered"] \in HandoffHandlers
  BY DEF HandoffHandlers

(***************************************************************************)
(* What a step does to the links: it revokes some, or inserts the next row,  *)
(* or lets time pass.                                                      *)
(***************************************************************************)
Fades ==
  /\ link' \in [Links -> LinkRow]
  /\ \A l \in Links : /\ link'[l].order = link[l].order
                      /\ link[l].revoked => link'[l].revoked
                      /\ link'[l].left <= link[l].left

LEMMA RevokedFades ==
  ASSUME LinkTypeOK, NEW o, link' = Revoked(o)
  PROVE  /\ Fades
         /\ \A l \in LinksOf(o) : link'[l].revoked
<1>1. link \in [Links -> LinkRow]
  BY DEF LinkTypeOK, HandoffTypeOK, LinkRow
<1>2. ASSUME NEW l \in Links
      PROVE  /\ link'[l] \in LinkRow
             /\ link'[l].order = link[l].order
             /\ link[l].revoked => link'[l].revoked
             /\ link'[l].left <= link[l].left
             /\ l \in LinksOf(o) => link'[l].revoked
  <2>1. link[l] \in LinkRow /\ link[l].left \in Int
    BY <1>1, LinkConstants DEF LinkRow
  <2>2. CASE l \in LinksOf(o)
    <3>1. link'[l] = [link[l] EXCEPT !.revoked = TRUE]
      BY <2>2, Zenon DEF Revoked
    <3>2. /\ link'[l] \in LinkRow /\ link'[l].order = link[l].order
          /\ link'[l].revoked /\ link'[l].left = link[l].left
      BY <2>1, <3>1 DEF LinkRow
    <3> QED
      BY <2>1, <3>2
  <2>3. CASE l \notin LinksOf(o)
    <3>1. link'[l] = link[l]
      BY <2>3, Zenon DEF Revoked
    <3> QED
      BY <2>1, <2>3, <3>1
  <2> QED
    BY <2>2, <2>3
<1>3. link' \in [Links -> LinkRow]
  <2>1. link' = [l \in Links |-> link'[l]]
    BY DEF Revoked
  <2> QED
    BY <1>2, <2>1
<1> QED
  BY <1>2, <1>3 DEF Fades, LinksOf, Minted

LEMMA TimeFades ==
  ASSUME LinkTypeOK, LinkTimePasses
  PROVE  /\ Fades
         /\ \A l \in Links : link'[l].revoked = link[l].revoked
<1>1. link \in [Links -> LinkRow]
  BY DEF LinkTypeOK, HandoffTypeOK, LinkRow
<1>2. ASSUME NEW l \in Links
      PROVE  /\ link'[l] \in LinkRow
             /\ link'[l].order = link[l].order
             /\ link'[l].revoked = link[l].revoked
             /\ link'[l].left <= link[l].left
  <2>1. link[l] \in LinkRow /\ link[l].left \in 0..LinkTtl /\ link[l].left \in Int
    BY <1>1, LinkConstants DEF LinkRow
  <2>2. CASE link[l].left > 0
    <3>1. link'[l] = [link[l] EXCEPT !.left = link[l].left - 1]
      BY <2>2, Zenon DEF LinkTimePasses
    <3>2. link[l].left - 1 \in 0..LinkTtl
      BY <2>1, <2>2, LinkConstants
    <3>3. /\ link'[l] \in LinkRow /\ link'[l].order = link[l].order
          /\ link'[l].revoked = link[l].revoked /\ link'[l].left = link[l].left - 1
      BY <2>1, <3>1, <3>2 DEF LinkRow
    <3> QED
      BY <2>1, <3>3
  <2>3. CASE ~(link[l].left > 0)
    <3>1. link'[l] = link[l]
      BY <2>3, Zenon DEF LinkTimePasses
    <3> QED
      BY <2>1, <3>1
  <2> QED
    BY <2>2, <2>3
<1>3. link' \in [Links -> LinkRow]
  <2>1. link' = [l \in Links |-> link'[l]]
    BY DEF LinkTimePasses
  <2> QED
    BY <1>2, <2>1
<1> QED
  BY <1>2, <1>3 DEF Fades

(***************************************************************************)
(* Type correctness.                                                       *)
(***************************************************************************)
LEMMA LinkTypeInit == LinkInit => LinkTypeOK
<1> SUFFICES ASSUME LinkInit PROVE LinkTypeOK
  OBVIOUS
<1>1. 0 \in 0..LinkTtl
  BY LinkConstants
<1>2. link \in [Links -> [order : Deliveries \cup {NoOrder}, revoked : BOOLEAN, left : 0..LinkTtl]]
  BY <1>1 DEF LinkInit, HandoffInit
<1> QED
  BY <1>2 DEF LinkInit, HandoffInit, LinkTypeOK, HandoffTypeOK, DeliveryStatus

LEMMA LinkTypeKept ==
  ASSUME LinkTypeOK, NEW p \in Procs, NEW s \in {Idle} \cup HandoffHandlers,
         Goto(p, s) \/ UNCHANGED h,
         link' \in [Links -> LinkRow], delivery' \in [Deliveries -> DeliveryStatus]
  PROVE  LinkTypeOK'
  BY DEF LinkTypeOK, HandoffTypeOK, LinkRow, Goto

LEMMA LinkTypeStep ==
  ASSUME LinkTypeOK, NEW p \in Procs, HandoffStep(p)
  PROVE  LinkTypeOK'
<1> USE LinkHandlerForms
<1>h. /\ h[p] \in {Idle} \cup HandoffHandlers
      /\ link \in [Links -> LinkRow] /\ delivery \in [Deliveries -> DeliveryStatus]
  BY DEF LinkTypeOK, HandoffTypeOK, LinkRow
<1>1. ASSUME NEW o \in Deliveries, MintRevoke(p, o)
      PROVE  LinkTypeOK'
  BY <1>1, <1>h, RevokedFades, LinkTypeKept DEF MintRevoke, Start, Fades
<1>2. CASE MintInsert(p)
  <2>1. h[p].order \in Deliveries /\ LinkTtl \in 0..LinkTtl
    BY <1>2, <1>h, LinkHandlerFields, LinkConstants DEF MintInsert
  <2>2. [order |-> h[p].order, revoked |-> FALSE, left |-> LinkTtl] \in LinkRow
    BY <2>1 DEF LinkRow
  <2>3. link' \in [Links -> LinkRow]
    <3> DEFINE row == [order |-> h[p].order, revoked |-> FALSE, left |-> LinkTtl]
    <3>1. link' = [link EXCEPT ![Cardinality(Minted) + 1] = row] /\ row \in LinkRow
      BY <1>2, <2>2 DEF MintInsert
    <3> HIDE DEF row
    <3> QED
      BY <1>h, <3>1
  <2> QED
    BY <1>2, <1>h, <2>3, LinkTypeKept DEF MintInsert, End
<1>3. ASSUME NEW o \in Deliveries, RevokeLinks(p, o)
      PROVE  LinkTypeOK'
  BY <1>3, <1>h, RevokedFades, LinkTypeKept DEF RevokeLinks, Immediate, Fades
<1>4. ASSUME NEW l \in Links, NEW o \in Deliveries, CourierStatus(p, l, o) \/ CourierConfirm(p, l, o)
      PROVE  LinkTypeOK'
  <2>1. DOMAIN NextOnTheRoad = {"preparing", "out_for_delivery"}
    BY DEF NextOnTheRoad
  <2>2. \E s \in HandoffHandlers : Goto(p, s)
    BY <1>4, <2>1 DEF CourierStatus, CourierConfirm, Start
  <2> QED
    BY <1>4, <1>h, <2>2, LinkTypeKept DEF CourierStatus, CourierConfirm, handoffVars
<1>5. CASE CourierWrite(p)
  <2>1. h[p].at = "courierStatus" =>
          NextOnTheRoad[h[p].read] \in {"out_for_delivery", "arrived"}
    BY <1>h, LinkHandlerFields DEF NextOnTheRoad
  <2>2. delivery' \in [Deliveries -> DeliveryStatus]
    <3> DEFINE to == IF h[p].at = "courierConfirm" THEN "closed" ELSE NextOnTheRoad[h[p].read]
    <3>1. to \in DeliveryStatus
      BY <1>5, <2>1 DEF CourierWrite, DeliveryStatus
    <3>2. delivery' = [delivery EXCEPT ![h[p].order] = to]
      BY <1>5 DEF CourierWrite
    <3> HIDE DEF to
    <3> QED
      BY <1>h, <3>1, <3>2
  <2> QED
    BY <1>5, <1>h, <2>2, LinkTypeKept DEF CourierWrite, End
<1>6. ASSUME NEW o \in Deliveries, ShopOrConsumerMoves(p, o)
      PROVE  LinkTypeOK'
  <2>1. \E to \in DeliveryStatus : delivery' = [delivery EXCEPT ![o] = to]
    <3>1. PICK move \in {<<"bid_accepted", "preparing">>, <<"arrived", "delivered">>,
                         <<"arrived", "rejected_on_spot">>, <<"delivered", "closed">>} :
            delivery' = [delivery EXCEPT ![o] = move[2]]
      BY <1>6 DEF ShopOrConsumerMoves
    <3>2. move[2] \in {"preparing", "delivered", "rejected_on_spot", "closed"}
      BY <3>1
    <3>3. move[2] \in DeliveryStatus
      BY <3>2 DEF DeliveryStatus
    <3> QED
      BY <3>1, <3>3
  <2> QED
    BY <1>6, <1>h, <2>1, LinkTypeKept DEF ShopOrConsumerMoves, Immediate
<1>7. CASE HandoffStop(p)
  BY <1>7, <1>h, LinkTypeKept DEF HandoffStop, Stop, End, handoffVars
<1> QED
  BY <1>1, <1>2, <1>3, <1>4, <1>5, <1>6, <1>7 DEF HandoffStep

LEMMA LinkTypeNext == LinkTypeOK /\ [HandoffNext]_linkVars => LinkTypeOK'
<1> SUFFICES ASSUME LinkTypeOK, [HandoffNext]_linkVars PROVE LinkTypeOK'
  OBVIOUS
<1>1. CASE LinkTimePasses
  BY <1>1, TimeFades DEF LinkTimePasses, Fades, LinkTypeOK, HandoffTypeOK, LinkRow
<1>2. ASSUME NEW p \in Procs, HandoffStep(p)
      PROVE  LinkTypeOK'
  BY <1>2, LinkTypeStep
<1>3. CASE UNCHANGED linkVars
  BY <1>3 DEF linkVars, handoffVars, LinkTypeOK, HandoffTypeOK
<1> QED
  BY <1>1, <1>2, <1>3 DEF HandoffNext

\* Links, orders and handlers in flight have their types.
THEOREM HandoffTypeCorrect == LinkSpec => []LinkTypeOK
<1>1. LinkInit => LinkTypeOK
  BY LinkTypeInit
<1>2. LinkTypeOK /\ [HandoffNext]_linkVars => LinkTypeOK'
  BY LinkTypeNext
<1> QED
  BY <1>1, <1>2, PTL DEF LinkSpec

(***************************************************************************)
(* The invariant.  Rows are numbered in the order of their creation, so that *)
(* a new link never takes the place of one that a courier holds.            *)
(***************************************************************************)
Courier(p) == h[p].at \in {"courierStatus", "courierConfirm"}

\* Whatever overlaps, a courier in flight acts on the order of its link.
MatchInv ==
  /\ \E n \in Nat : Minted = 1..n
  /\ \A p \in Procs : Courier(p) => /\ h[p].link \in Minted
                                    /\ link[h[p].link].order = h[p].order

\* A handler that is alone still finds what it read, and a mint in flight has
\* revoked what there was.
LinkAloneInv ==
  /\ \A p, q \in Procs : h[p] # Idle /\ h[q] # Idle => p = q
  /\ \A p \in Procs : Courier(p) => ~link[h[p].link].revoked /\ Open(h[p].order)
  /\ \A p \in Procs : h[p].at = "linkInsert" => \A l \in LinksOf(h[p].order) : link[l].revoked
  /\ \A k, l \in {l \in Links : Live(l)} : link[k].order = link[l].order => k = l

LinkInv ==
  /\ LinkTypeOK
  /\ MatchInv
  /\ regime # "overlapping" => LinkAloneInv

LEMMA FadesRows ==
  ASSUME LinkTypeOK, Fades
  PROVE  /\ Minted' = Minted
         /\ \A o : LinksOf(o)' = LinksOf(o)
         /\ \A l \in Links : Live(l)' => Live(l)
         /\ \A l \in Links : link'[l].order = link[l].order
         /\ \A l \in Links : link[l].revoked => link'[l].revoked
<1>1. Minted' = Minted
  BY DEF Fades, Minted
<1>2. \A o : LinksOf(o)' = LinksOf(o)
  BY <1>1 DEF Fades, LinksOf, Minted
<1>3. \A l \in Links : link[l].left \in Int /\ link'[l].left \in Int /\ link'[l].left <= link[l].left
  BY LinkConstants DEF Fades, LinkTypeOK, HandoffTypeOK, LinkRow
<1>4. ASSUME NEW l \in Links, Live(l)'
      PROVE  Live(l)
  BY <1>1, <1>3, <1>4 DEF Live, Fades
<1> QED
  BY <1>1, <1>2, <1>4 DEF Fades

\* Links fade and slot p goes on to s, or no slot changes.
LEMMA MatchFades ==
  ASSUME LinkTypeOK, MatchInv, Fades, NEW p \in Procs, NEW s,
         Goto(p, s) \/ UNCHANGED h,
         s.at \in {"courierStatus", "courierConfirm"} =>
           s.link \in Minted /\ link[s.link].order = s.order
  PROVE  MatchInv'
<1>1. Minted' = Minted /\ \A l \in Links : link'[l].order = link[l].order
  BY FadesRows
<1>2. \A l \in Minted : l \in Links
  BY DEF Minted
<1>3. ASSUME NEW q \in Procs, Courier(q)'
      PROVE  h'[q].link \in Minted /\ link[h'[q].link].order = h'[q].order
  <2>1. CASE h'[q] = h[q]
    BY <1>3, <2>1 DEF MatchInv, Courier
  <2>2. CASE h'[q] = s
    BY <1>3, <2>2 DEF Courier
  <2>3. h'[q] = h[q] \/ h'[q] = s
    BY DEF Goto, LinkTypeOK
  <2> QED
    BY <2>1, <2>2, <2>3
<1> QED
  BY <1>1, <1>2, <1>3 DEF MatchInv

LEMMA NoFade == LinkTypeOK /\ link' = link => Fades
<1> SUFFICES ASSUME LinkTypeOK, link' = link PROVE Fades
  OBVIOUS
<1>1. \A l \in Links : link[l].left \in Int
  BY LinkConstants DEF LinkTypeOK, HandoffTypeOK
<1> QED
  BY <1>1 DEF LinkTypeOK, HandoffTypeOK, Fades, LinkRow

LEMMA LinksNumbered ==
  ASSUME MatchInv, LinkTypeOK
  PROVE  LET next == Cardinality(Minted) + 1
         IN  next \notin Minted /\ Minted \cup {next} = 1..next /\ next \in Nat
<1>1. PICK n \in Nat : Minted = 1..n
  BY DEF MatchInv
<1>2. Cardinality(1..n) = n
  <2>1. Cardinality(1..n) = IF 1 > n THEN 0 ELSE n - 1 + 1
    BY FS_Interval
  <2> QED
    BY <2>1
<1>3. Cardinality(Minted) = n
  BY <1>1, <1>2
<1> QED
  BY <1>1, <1>3

\* The insert adds a row, or finds the bound reached.
LEMMA InsertRows ==
  ASSUME LinkTypeOK, MatchInv, NEW p \in Procs, MintInsert(p)
  PROVE  \E next \in Nat :
           /\ next \notin Minted
           /\ Minted' \in {Minted, Minted \cup {next}}
           /\ Minted \cup {next} = 1..next
           /\ \A l \in Links : l # next => link'[l] = link[l]
           /\ next \in Minted' => /\ link'[next].order = h[p].order
<1> DEFINE next == Cardinality(Minted) + 1
<1>1. next \notin Minted /\ Minted \cup {next} = 1..next /\ next \in Nat
  BY LinksNumbered
<1>2. link' = [link EXCEPT ![next] = [order |-> h[p].order, revoked |-> FALSE, left |-> LinkTtl]]
  BY DEF MintInsert
<1>3. h[p].order \in Deliveries /\ NoOrder \notin Deliveries
  BY LinkHandlerFields, LinkConstants DEF MintInsert, LinkTypeOK
<1>4. link \in [Links -> LinkRow]
  BY DEF LinkTypeOK, HandoffTypeOK, LinkRow
<1> HIDE DEF next
<1>5. \A l \in Links : l # next => link'[l] = link[l]
  BY <1>2, <1>4
<1>6. next \in Links => link'[next].order = h[p].order
  BY <1>2, <1>4
<1>7. Minted' = IF next \in Links THEN Minted \cup {next} ELSE Minted
  BY <1>3, <1>5, <1>6 DEF Minted
<1>8. Minted' \in {Minted, Minted \cup {next}} /\ (next \in Minted' => next \in Links)
  BY <1>1, <1>7
<1> QED
  BY <1>1, <1>5, <1>6, <1>8

LEMMA MatchStep ==
  ASSUME LinkTypeOK, MatchInv, NEW p \in Procs, HandoffStep(p)
  PROVE  MatchInv'
<1>1. ASSUME NEW o \in Deliveries, MintRevoke(p, o)
      PROVE  MatchInv'
  BY <1>1, RevokedFades, MatchFades DEF MintRevoke, Start
<1>2. CASE MintInsert(p)
  <2>1. PICK next \in Nat :
           /\ next \notin Minted
           /\ Minted' \in {Minted, Minted \cup {next}}
           /\ Minted \cup {next} = 1..next
           /\ \A l \in Links : l # next => link'[l] = link[l]
    BY <1>2, InsertRows
  <2>2. \A q \in Procs : h'[q] = h[q] \/ h'[q] = Idle
    BY <1>2 DEF MintInsert, End, Goto, LinkTypeOK
  <2>3. ASSUME NEW q \in Procs, Courier(q)'
        PROVE  h'[q].link \in Minted' /\ link'[h'[q].link].order = h'[q].order
    <3>1. h'[q] = h[q] /\ Courier(q)
      BY <2>2, <2>3 DEF Courier, Idle
    <3>2. h[q].link \in Minted /\ h[q].link # next /\ h[q].link \in Links
      BY <2>1, <3>1 DEF MatchInv, Minted
    <3> QED
      BY <2>1, <3>1, <3>2 DEF MatchInv
  <2>4. \E n \in Nat : Minted' = 1..n
    BY <2>1 DEF MatchInv
  <2> QED
    BY <2>3, <2>4 DEF MatchInv
<1>3. ASSUME NEW o \in Deliveries, RevokeLinks(p, o)
      PROVE  MatchInv'
  BY <1>3, RevokedFades, MatchFades DEF RevokeLinks, Immediate, Idle
<1>4. ASSUME NEW l \in Links, NEW o \in Deliveries, CourierStatus(p, l, o) \/ CourierConfirm(p, l, o)
      PROVE  MatchInv'
  <2>1. l \in Minted /\ link[l].order = o /\ link' = link
    BY <1>4 DEF CourierStatus, CourierConfirm, Authentic, Live, Matches, handoffVars
  <2>2. \E s : Goto(p, s) /\ s.link = l /\ s.order = o
    BY <1>4 DEF CourierStatus, CourierConfirm, Start
  <2> QED
    BY <2>1, <2>2, NoFade, MatchFades
<1>5. CASE CourierWrite(p)
  BY <1>5, NoFade, MatchFades DEF CourierWrite, End, Idle
<1>6. ASSUME NEW o \in Deliveries, ShopOrConsumerMoves(p, o)
      PROVE  MatchInv'
  BY <1>6, NoFade, MatchFades DEF ShopOrConsumerMoves, Immediate, Idle
<1>7. CASE HandoffStop(p)
  BY <1>7, NoFade, MatchFades DEF HandoffStop, Stop, End, handoffVars, Idle
<1> QED
  BY <1>1, <1>2, <1>3, <1>4, <1>5, <1>6, <1>7 DEF HandoffStep

\* A step after which slot p alone may be busy, and the links have faded.
LEMMA AloneFades ==
  ASSUME LinkTypeOK, LinkAloneInv, Fades, NEW p \in Procs,
         \A q \in Procs : q # p => h'[q] = Idle,
         Courier(p)' => ~link'[h'[p].link].revoked /\ Open(h[p].order)',
         h'[p].at = "linkInsert" => \A l \in LinksOf(h'[p].order) : link'[l].revoked
  PROVE  LinkAloneInv'
<1>1. /\ \A o : LinksOf(o)' = LinksOf(o)
      /\ \A l \in Links : Live(l)' => Live(l)
      /\ \A l \in Links : link'[l].order = link[l].order
  BY FadesRows
<1>2. \A q \in Procs : Courier(q)' \/ h'[q].at = "linkInsert" => q = p
  BY DEF Courier, Idle
<1>3. (\A k, l \in {l \in Links : Live(l)} : link[k].order = link[l].order => k = l)'
  BY <1>1 DEF LinkAloneInv
<1>4. (\A q \in Procs : h[q].at = "linkInsert" => \A l \in LinksOf(h[q].order) : link[l].revoked)'
  BY <1>1, <1>2
<1>5. (\A q \in Procs : Courier(q) => ~link[h[q].link].revoked /\ Open(h[q].order))'
  BY <1>2
<1>6. (\A q, r \in Procs : h[q] # Idle /\ h[r] # Idle => q = r)'
  BY DEF Idle
<1> QED
  BY <1>3, <1>4, <1>5, <1>6 DEF LinkAloneInv

LEMMA LinkAloneStep ==
  ASSUME LinkTypeOK, MatchInv, LinkAloneInv, regime # "overlapping", NEW p \in Procs, HandoffStep(p)
  PROVE  LinkAloneInv'
<1>h. h \in [Procs -> {Idle} \cup HandoffHandlers] /\ Idle.at = "idle"
  BY DEF LinkTypeOK, Idle
<1>s. ASSUME NEW s, Start(p, s)
      PROVE  h'[p] = s /\ \A q \in Procs : q # p => h'[q] = Idle
  BY <1>h, <1>s DEF Start, MayStart, Quiet, Goto
<1>i. Immediate(p) => \A q \in Procs : h'[q] = Idle
  BY DEF Immediate, MayStart, Quiet
<1>e. h[p] # Idle /\ End(p) => \A q \in Procs : h'[q] = Idle
  BY <1>h DEF End, Goto, LinkAloneInv
<1>1. ASSUME NEW o \in Deliveries, MintRevoke(p, o)
      PROVE  LinkAloneInv'
  <2>1. Fades /\ \A l \in LinksOf(o) : link'[l].revoked
    BY <1>1, RevokedFades DEF MintRevoke
  <2>2. /\ h'[p] = [at |-> "linkInsert", order |-> o]
        /\ \A q \in Procs : q # p => h'[q] = Idle
    BY <1>1, <1>s DEF MintRevoke
  <2>3. ~Courier(p)' /\ h'[p].order = o
    BY <2>2 DEF Courier
  <2> QED
    BY <2>1, <2>2, <2>3, AloneFades
<1>2. CASE MintInsert(p)
  <2>1. PICK next \in Nat :
           /\ next \notin Minted
           /\ Minted' \in {Minted, Minted \cup {next}}
           /\ \A l \in Links : l # next => link'[l] = link[l]
           /\ next \in Minted' => link'[next].order = h[p].order
    BY <1>2, InsertRows
  <2>2. h[p] # Idle /\ \A q \in Procs : h'[q] = Idle
    BY <1>2, <1>e, <1>h DEF MintInsert
  <2>3. \A l \in LinksOf(h[p].order) : link[l].revoked
    BY <1>2 DEF MintInsert, LinkAloneInv
  <2>4. ASSUME NEW l \in Links, Live(l)', l # next
        PROVE  Live(l) /\ link'[l] = link[l] /\ link[l].order # h[p].order
    <3>1. link'[l] = link[l] /\ l \in Minted
      BY <2>1, <2>4 DEF Live
    <3>2. Live(l)
      BY <2>4, <3>1 DEF Live
    <3> QED
      BY <2>3, <3>1, <3>2 DEF Live, LinksOf
  <2>5. ASSUME NEW k \in Links, NEW l \in Links, Live(k)', Live(l)', link'[k].order = link'[l].order
        PROVE  k = l
    <3>1. CASE k # next /\ l # next
      BY <2>4, <2>5, <3>1 DEF LinkAloneInv
    <3>2. CASE k = next /\ l # next
      <4>1. link'[k].order = h[p].order
        BY <2>1, <2>5, <3>2 DEF Live
      <4> QED
        BY <2>4, <2>5, <3>2, <4>1
    <3>3. CASE k # next /\ l = next
      <4>1. link'[l].order = h[p].order
        BY <2>1, <2>5, <3>3 DEF Live
      <4> QED
        BY <2>4, <2>5, <3>3, <4>1
    <3>4. CASE k = next /\ l = next
      BY <3>4
    <3> QED
      BY <3>1, <3>2, <3>3, <3>4
  <2>6. (\A k, l \in {l \in Links : Live(l)} : link[k].order = link[l].order => k = l)'
    BY <2>5
  <2> QED
    BY <1>h, <2>2, <2>6 DEF LinkAloneInv, Courier
<1>3. ASSUME NEW o \in Deliveries, RevokeLinks(p, o)
      PROVE  LinkAloneInv'
  BY <1>3, <1>i, <1>h, RevokedFades, AloneFades DEF RevokeLinks, Courier
<1>4. ASSUME NEW l \in Links, NEW o \in Deliveries, CourierStatus(p, l, o) \/ CourierConfirm(p, l, o)
      PROVE  LinkAloneInv'
  <2>1. /\ link[l].order = o /\ ~link[l].revoked /\ Open(o)
        /\ link' = link /\ delivery' = delivery
    BY <1>4 DEF CourierStatus, CourierConfirm, Authentic, Live, Matches, handoffVars
  <2>2. \E s : Start(p, s) /\ s.link = l /\ s.order = o /\ s.at # "linkInsert"
    BY <1>4 DEF CourierStatus, CourierConfirm
  <2>3. /\ h'[p].link = l /\ h'[p].order = o /\ h'[p].at # "linkInsert"
        /\ \A q \in Procs : q # p => h'[q] = Idle
    BY <1>s, <2>2
  <2>4. Open(h[p].order)'
    BY <2>1, <2>3 DEF Open
  <2> QED
    BY <2>1, <2>3, <2>4, NoFade, AloneFades
<1>5. CASE CourierWrite(p)
  <2>1. \A q \in Procs : h'[q] = Idle
    BY <1>5, <1>e, <1>h DEF CourierWrite
  <2> QED
    BY <1>5, <1>h, <2>1, NoFade, AloneFades DEF CourierWrite, Courier
<1>6. ASSUME NEW o \in Deliveries, ShopOrConsumerMoves(p, o)
      PROVE  LinkAloneInv'
  BY <1>6, <1>i, <1>h, NoFade, AloneFades DEF ShopOrConsumerMoves, Courier
<1>7. CASE HandoffStop(p)
  <2>1. \A q \in Procs : h'[q] = Idle
    BY <1>7, <1>e DEF HandoffStop, Stop
  <2> QED
    BY <1>7, <1>h, <2>1, NoFade, AloneFades DEF HandoffStop, handoffVars, Courier
<1> QED
  BY <1>1, <1>2, <1>3, <1>4, <1>5, <1>6, <1>7 DEF HandoffStep

LEMMA LinkInvInit == LinkInit => LinkInv
<1> SUFFICES ASSUME LinkInit PROVE LinkInv
  OBVIOUS
<1>1. LinkTypeOK
  BY LinkTypeInit
<1>2. Minted = {} /\ \A p \in Procs : h[p] = Idle
  BY DEF LinkInit, HandoffInit, Minted
<1>3. MatchInv
  <2>1. Minted = 1..0 /\ 0 \in Nat
    BY <1>2
  <2> QED
    BY <1>2, <2>1 DEF MatchInv, Courier, Idle
<1>4. LinkAloneInv
  BY <1>2 DEF LinkAloneInv, Courier, Idle, Live
<1> QED
  BY <1>1, <1>3, <1>4 DEF LinkInv

LEMMA LinkInvNext == LinkInv /\ [HandoffNext]_linkVars => LinkInv'
<1> SUFFICES ASSUME LinkInv, [HandoffNext]_linkVars PROVE LinkInv'
  OBVIOUS
<1>1. LinkTypeOK /\ MatchInv /\ LinkTypeOK'
  BY LinkTypeNext DEF LinkInv
<1>2. CASE LinkTimePasses
  <2>1. /\ Fades /\ \A l \in Links : link'[l].revoked = link[l].revoked
        /\ h' = h /\ delivery' = delivery /\ regime' = regime
    BY <1>1, <1>2, TimeFades DEF LinkTimePasses
  <2>2. Minted' = Minted /\ \A l \in Links : link'[l].order = link[l].order
    BY <1>1, <2>1, FadesRows
  <2>3. MatchInv'
    <3>1. \A l \in Minted : l \in Links
      BY DEF Minted
    <3> QED
      BY <1>1, <2>1, <2>2, <3>1 DEF MatchInv, Courier
  <2>4. LinkAloneInv => LinkAloneInv'
    <3> SUFFICES ASSUME LinkAloneInv PROVE LinkAloneInv'
      OBVIOUS
    <3>1. /\ \A o : LinksOf(o)' = LinksOf(o)
          /\ \A l \in Links : Live(l)' => Live(l)
      BY <1>1, <2>1, FadesRows
    <3>2. (\A k, l \in {l \in Links : Live(l)} : link[k].order = link[l].order => k = l)'
      BY <2>2, <3>1 DEF LinkAloneInv
    <3>3. \A q \in Procs : Courier(q) => h[q].link \in Links
      BY <1>1 DEF MatchInv, Minted
    <3>4. (\A q \in Procs : Courier(q) => ~link[h[q].link].revoked /\ Open(h[q].order))'
      BY <2>1, <3>3 DEF LinkAloneInv, Courier, Open
    <3>5. \A o : \A l \in LinksOf(o) : l \in Links
      BY DEF LinksOf, Minted
    <3>6. (\A q \in Procs : h[q].at = "linkInsert" => \A l \in LinksOf(h[q].order) : link[l].revoked)'
      BY <2>1, <3>1, <3>5 DEF LinkAloneInv
    <3>7. (\A q, r \in Procs : h[q] # Idle /\ h[r] # Idle => q = r)'
      BY <2>1 DEF LinkAloneInv, Idle
    <3> QED
      BY <3>2, <3>4, <3>6, <3>7 DEF LinkAloneInv
  <2> QED
    BY <1>1, <2>1, <2>3, <2>4 DEF LinkInv
<1>3. ASSUME NEW p \in Procs, HandoffStep(p), regime' = regime
      PROVE  LinkInv'
  BY <1>1, <1>3, MatchStep, LinkAloneStep DEF LinkInv
<1>4. CASE UNCHANGED linkVars
  <2>1. link' = link /\ delivery' = delivery /\ regime' = regime /\ h' = h
    BY <1>4 DEF linkVars, handoffVars
  <2> QED
    BY <1>1, <2>1
    DEF LinkInv, MatchInv, LinkAloneInv, Courier, Minted, LinksOf, Live, Open, Idle
<1> QED
  BY <1>2, <1>3, <1>4 DEF HandoffNext

\* A courier in flight acts on its link's order whatever overlaps; where nothing
\* overlaps, on an open order and with its only live link, whatever has failed.
THEOREM LinksOpenOneOrder == LinkSpec => []LinkOpensOneOrder
<1>1. LinkInit => LinkInv
  BY LinkInvInit
<1>2. LinkInv /\ [HandoffNext]_linkVars => LinkInv'
  BY LinkInvNext
<1>3. LinkInv => LinkOpensOneOrder
  BY DEF LinkInv, MatchInv, LinkAloneInv, Courier, LinkOpensOneOrder
<1> QED
  BY <1>1, <1>2, <1>3, PTL DEF LinkSpec
=============================================================================
