------------------------------- MODULE MCAccounts -------------------------------
(***************************************************************************)
(* The components around auction, order and return.  None reads a column     *)
(* that another writes, or what it reads is an action of its own, so their   *)
(* product would only multiply states: a behaviour exercises the one         *)
(* component that focus names, and the others stay as they began.            *)
(***************************************************************************)
EXTENDS Subscriptions, Addresses, Handoff, Tracking, AuthCache, Pages, Standing, Desk,
        Chat, Books, TLC

CONSTANT Checked    \* the components of this run

VARIABLE focus

vars == <<focus, regime, h, subscriptionVars, addressVars, handoffVars, trackingVars, authVars,
          pagesVars, standingVars, deskVars, chatVars, booksVars>>

\* A component that is not in focus has one initial state.
Init ==
  /\ focus \in Checked
  /\ regime \in Regimes
  /\ h = [p \in Procs |-> Idle]
  /\ SubscriptionsInit /\ AddressesInit /\ HandoffInit /\ TrackingInit /\ AuthCacheInit
  /\ PagesInit /\ StandingInit /\ DeskInit /\ ChatInit /\ BooksInit
  /\ focus # "auth" => role = CHOOSE r \in Roles : TRUE
  /\ focus # "pages" => page = "feed" /\ writer = "placeBid"
  /\ focus # "standing" => party = "supplier"
  /\ focus # "desk" => side = "ticket"

Only(component, componentVars) == IF focus = component THEN TRUE ELSE UNCHANGED componentVars

Frame ==
  /\ UNCHANGED focus
  /\ Only("subscriptions", subscriptionVars)
  /\ Only("addresses", addressVars)
  /\ Only("handoff", handoffVars)
  /\ Only("tracking", trackingVars)
  /\ Only("auth", authVars)
  /\ Only("pages", pagesVars)
  /\ Only("standing", standingVars)
  /\ Only("desk", deskVars)
  /\ Only("chat", chatVars)
  /\ Only("books", booksVars)

Next ==
  \/ focus = "subscriptions" /\ SubscriptionsNext /\ Frame
  \/ focus = "addresses" /\ AddressesNext /\ Frame
  \/ focus = "handoff" /\ HandoffNext /\ Frame
  \/ focus = "tracking" /\ TrackingNext /\ Frame
  \/ focus = "auth" /\ AuthCacheNext /\ Frame
  \/ focus = "pages" /\ PagesNext /\ Frame
  \/ focus = "standing" /\ StandingNext /\ Frame
  \/ focus = "desk" /\ DeskNext /\ Frame
  \/ focus = "chat" /\ ChatNext /\ Frame
  \/ focus = "books" /\ BooksNext /\ Frame

Spec == Init /\ [][Next]_vars

\* Every component's state has its type, and every handler in flight is one of
\* the component's at the step it may be at.
TypesOK ==
  /\ SubscriptionsTypeOK /\ AddressesTypeOK /\ HandoffTypeOK /\ TrackingTypeOK /\ AuthCacheTypeOK
  /\ PagesTypeOK /\ StandingTypeOK /\ DeskTypeOK /\ ChatTypeOK /\ BooksTypeOK
  /\ h \in [Procs -> {Idle} \cup SubscriptionHandlers \cup AddressHandlers \cup HandoffHandlers
                     \cup TrackingHandlers \cup AuthHandlers \cup PagesHandlers
                     \cup StandingHandlers \cup DeskHandlers \cup ChatHandlers]

MCSymmetry == UNION {Permutations(S) : S \in {Procs, Deliveries, Lines, Pins}}
=============================================================================
